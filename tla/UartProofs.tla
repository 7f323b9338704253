----------------------------- MODULE UartProofs -----------------------------
(***************************************************************************)
(* Proofs about the UART receive path of Serial, for every ring size and   *)
(* any number of lines of any length: types, the ring's bookkeeping, that  *)
(* bytes reach the sensor in the order in which they were sent, and that a *)
(* line of which nothing was dropped reaches it whole.                     *)
(*                                                                         *)
(* First what push, pop and reset of inc/ringbuffer.h do to the contents   *)
(* of a ring: the lemmas turn pointer arithmetic modulo the capacity into  *)
(* statements about sequences, which is all that the rest needs.           *)
(***************************************************************************)
EXTENDS Serial, RingRace, TLAPS

\* Reducing in between makes no difference to where a pointer ends up.
LEMMA ModPlus ==
    ASSUME NEW C \in Nat \ {0}, NEW r \in 0 .. C - 1, NEW n \in 0 .. C,
           NEW k \in 0 .. C, n + k <= C
    PROVE  (((r + n) % C) + k) % C = (r + n + k) % C
<1>1. CASE r + n < C
  <2>1. (r + n) % C = r + n
    BY <1>1
  <2> QED BY <2>1
<1>2. CASE r + n >= C
  <2>1. (r + n) % C = r + n - C
    BY <1>2
  <2>2. (r + n - C + k) % C = r + n - C + k
    BY <1>2
  <2>3. (r + n + k) % C = r + n + k - C
    BY <1>2
  <2> QED BY <2>1, <2>2, <2>3
<1> QED BY <1>1, <1>2

\* Different offsets below the capacity are different slots.
LEMMA ModDistinct ==
    ASSUME NEW C \in Nat \ {0}, NEW r \in 0 .. C - 1, NEW n \in 0 .. C - 1,
           NEW i \in 1 .. n
    PROVE  (r + i - 1) % C # (r + n) % C
<1>1. r + i - 1 < C => (r + i - 1) % C = r + i - 1
  OBVIOUS
<1>2. r + i - 1 >= C => (r + i - 1) % C = r + i - 1 - C
  OBVIOUS
<1>3. r + n < C => (r + n) % C = r + n
  OBVIOUS
<1>4. r + n >= C => (r + n) % C = r + n - C
  OBVIOUS
<1> QED BY <1>1, <1>2, <1>3, <1>4

-----------------------------------------------------------------------------
\* The fields of a ring, each of its type.
LEMMA RingFields ==
    ASSUME NEW C \in Nat \ {0}, NEW I, NEW rb \in Ring(C, I)
    PROVE  /\ rb.buffer \in [0 .. C - 1 -> I]
           /\ rb.capacity = C
           /\ rb.read_ptr \in 0 .. C - 1
           /\ rb.write_ptr \in 0 .. C - 1
           /\ rb.current_size \in 0 .. C
BY DEF Ring

\* A new ring is well formed, consistent and empty.
LEMMA NewRingEmpty ==
    ASSUME NEW C \in Nat \ {0}, NEW I, NEW fill \in I
    PROVE  /\ NewRing(C, fill) \in Ring(C, I)
           /\ Consistent(NewRing(C, fill))
           /\ Contents(NewRing(C, fill)) = << >>
<1>1. 0 % C = 0
  OBVIOUS
<1>2. NewRing(C, fill) \in Ring(C, I)
  BY DEF NewRing, Ring
<1>3. Consistent(NewRing(C, fill))
  BY <1>1 DEF NewRing, Consistent
<1>4. Contents(NewRing(C, fill)) = << >>
  BY DEF NewRing, Contents
<1> QED BY <1>2, <1>3, <1>4

\* reset leaves a well-formed, consistent and empty ring, whatever it held.
LEMMA ResetEmpty ==
    ASSUME NEW C \in Nat \ {0}, NEW I, NEW rb \in Ring(C, I)
    PROVE  /\ reset(rb) \in Ring(C, I)
           /\ Consistent(reset(rb))
           /\ Contents(reset(rb)) = << >>
<1>1. 0 % C = 0
  OBVIOUS
<1>2. reset(rb) \in Ring(C, I)
  BY RingFields DEF reset, Ring
<1>3. Consistent(reset(rb))
  BY <1>1, RingFields DEF reset, Consistent
<1>4. Contents(reset(rb)) = << >>
  BY DEF reset, Contents
<1> QED BY <1>2, <1>3, <1>4

\* The contents of a ring are a sequence of its items.
LEMMA ContentsSeq ==
    ASSUME NEW C \in Nat \ {0}, NEW I, NEW rb \in Ring(C, I)
    PROVE  /\ Contents(rb) \in Seq(I)
           /\ Len(Contents(rb)) = rb.current_size
<1> DEFINE s == rb.current_size
           r == rb.read_ptr
<1>1. rb.buffer \in [0 .. C - 1 -> I] /\ r \in 0 .. C - 1 /\ s \in 0 .. C
  BY RingFields
<1>2. Contents(rb) = [i \in 1 .. s |-> rb.buffer[(r + i - 1) % C]]
  BY RingFields DEF Contents
<1> HIDE DEF s, r
<1>3. \A i \in 1 .. s : (r + i - 1) % C \in 0 .. C - 1
  BY <1>1
<1>4. Contents(rb) \in [1 .. s -> I]
  BY <1>1, <1>2, <1>3
<1> QED BY <1>1, <1>4 DEF s

\* push appends to a ring that is not full and leaves a full one alone.
LEMMA PushAppends ==
    ASSUME NEW C \in Nat \ {0}, NEW I, NEW rb \in Ring(C, I), Consistent(rb),
           NEW it \in I
    PROVE  /\ push(rb, it) \in Ring(C, I)
           /\ Consistent(push(rb, it))
           /\ is_full(rb) => push(rb, it) = rb
           /\ ~is_full(rb) => Contents(push(rb, it)) = Append(Contents(rb), it)
<1>1. CASE is_full(rb)
  BY <1>1 DEF push
<1>2. CASE ~is_full(rb)
  <2> DEFINE n == rb.current_size
             r == rb.read_ptr
             w == rb.write_ptr
             b == rb.buffer
             new == push(rb, it)
  <2>1. /\ n \in 0 .. C - 1 /\ r \in 0 .. C - 1 /\ w \in 0 .. C - 1
        /\ w = (r + n) % C /\ b \in [0 .. C - 1 -> I]
    BY <1>2, RingFields DEF Consistent, is_full
  <2>2. new = [buffer |-> [b EXCEPT ![w] = it], capacity |-> C, read_ptr |-> r,
               write_ptr |-> (w + 1) % C, current_size |-> n + 1]
    BY <1>2, RingFields DEF push
  <2>3. Contents(rb) = [i \in 1 .. n |-> b[(r + i - 1) % C]]
    BY RingFields DEF Contents
  <2> HIDE DEF n, r, w, b, new
  <2>4. (w + 1) % C \in 0 .. C - 1
    BY <2>1
  <2>5. new \in Ring(C, I)
    BY <2>1, <2>2, <2>4 DEF Ring
  <2>6. Consistent(new)
    <3>1. (w + 1) % C = (r + (n + 1)) % C
      <4>1. (((r + n) % C) + 1) % C = (r + n + 1) % C
        BY <2>1, ModPlus
      <4> QED BY <2>1, <4>1
    <3> QED BY <2>2, <3>1 DEF Consistent
  <2>7. Contents(new) = [i \in 1 .. n + 1 |-> [b EXCEPT ![w] = it][(r + i - 1) % C]]
    BY <2>2 DEF Contents
  <2>8. ASSUME NEW i \in 1 .. n PROVE Contents(new)[i] = Contents(rb)[i]
    <3>1. (r + i - 1) % C \in 0 .. C - 1
      BY <2>1
    <3>2. (r + i - 1) % C # w
      BY <2>1, ModDistinct
    <3>3. i \in 1 .. n + 1
      BY <2>1
    <3>4. Contents(new)[i] = [b EXCEPT ![w] = it][(r + i - 1) % C]
      BY <2>7, <3>3
    <3> QED BY <2>1, <2>3, <3>1, <3>2, <3>4
  <2>9. Contents(new)[n + 1] = it
    <3>1. (r + (n + 1) - 1) % C = w
      BY <2>1
    <3>2. Contents(new)[n + 1] = [b EXCEPT ![w] = it][(r + (n + 1) - 1) % C]
      BY <2>1, <2>7
    <3> QED BY <2>1, <3>1, <3>2
  <2>10. Contents(rb) \in Seq(I) /\ Len(Contents(rb)) = n
    BY ContentsSeq DEF n
  <2>11. Contents(new) \in Seq(I) /\ Len(Contents(new)) = n + 1
    <3>1. new.current_size = n + 1
      BY <2>2
    <3> QED BY <2>5, <3>1, ContentsSeq
  <2>12. Contents(new) = Append(Contents(rb), it)
    BY <2>1, <2>8, <2>9, <2>10, <2>11
  <2> QED BY <1>2, <2>5, <2>6, <2>12 DEF new
<1> QED BY <1>1, <1>2

\* n pops remove the first n items.
LEMMA PopRemoves ==
    ASSUME NEW C \in Nat \ {0}, NEW I, NEW rb \in Ring(C, I), Consistent(rb),
           NEW n \in 0 .. rb.current_size
    PROVE  /\ popN(rb, n) \in Ring(C, I)
           /\ Consistent(popN(rb, n))
           /\ Contents(popN(rb, n)) = SubSeq(Contents(rb), n + 1, Len(Contents(rb)))
<1> DEFINE s == rb.current_size
           r == rb.read_ptr
           w == rb.write_ptr
           b == rb.buffer
           new == popN(rb, n)
<1>1. /\ s \in 0 .. C /\ r \in 0 .. C - 1 /\ w \in 0 .. C - 1 /\ w = (r + s) % C
      /\ b \in [0 .. C - 1 -> I] /\ n \in 0 .. s
  BY RingFields DEF Consistent
<1>2. new = [buffer |-> b, capacity |-> C, read_ptr |-> (r + n) % C,
             write_ptr |-> w, current_size |-> s - n]
  BY RingFields DEF popN
<1>3. Contents(rb) = [i \in 1 .. s |-> b[(r + i - 1) % C]]
  BY RingFields DEF Contents
<1>4. Contents(rb) \in Seq(I) /\ Len(Contents(rb)) = s
  BY ContentsSeq
<1> HIDE DEF s, r, w, b, new
<1>5. (r + n) % C \in 0 .. C - 1
  BY <1>1
<1>6. new \in Ring(C, I)
  BY <1>1, <1>2, <1>5 DEF Ring
<1>7. \A k \in 0 .. s - n : (((r + n) % C) + k) % C = (r + n + k) % C
  <2> TAKE k \in 0 .. s - n
  <2>1. n \in 0 .. C /\ k \in 0 .. C /\ n + k <= C /\ r \in 0 .. C - 1
    BY <1>1
  <2> QED BY <2>1, ModPlus
<1>8. Consistent(new)
  <2>1. (((r + n) % C) + (s - n)) % C = (r + n + (s - n)) % C
    <3>1. s - n \in 0 .. s - n
      BY <1>1
    <3> QED BY <1>7, <3>1
  <2>2. (((r + n) % C) + (s - n)) % C = w
    BY <1>1, <2>1
  <2> QED BY <1>2, <2>2 DEF Consistent
<1>9. Contents(new) = [i \in 1 .. s - n |-> b[(((r + n) % C) + i - 1) % C]]
  BY <1>2 DEF Contents
<1>10. Contents(new) \in Seq(I) /\ Len(Contents(new)) = s - n
  BY <1>2, <1>6, ContentsSeq
<1>11. ASSUME NEW i \in 1 .. s - n PROVE Contents(new)[i] = Contents(rb)[n + i]
  <2>1. (((r + n) % C) + (i - 1)) % C = (r + n + (i - 1)) % C
    <3>1. i - 1 \in 0 .. s - n
      BY <1>1
    <3> QED BY <1>7, <3>1
  <2>2. ((r + n) % C) + (i - 1) = ((r + n) % C) + i - 1 /\ r + n + (i - 1) = r + (n + i) - 1
    BY <1>1, <1>5
  <2>3. n + i \in 1 .. s
    BY <1>1
  <2> QED BY <1>3, <1>9, <2>1, <2>2, <2>3
<1>12. Contents(new) = SubSeq(Contents(rb), n + 1, Len(Contents(rb)))
  BY <1>1, <1>4, <1>10, <1>11
<1> QED BY <1>6, <1>8, <1>12 DEF new

-----------------------------------------------------------------------------
\* Every byte of p was sent before every byte of q.
Precedes(p, q) ==
    \A i \in DOMAIN p, j \in DOMAIN q :
        p[i] \in Byte /\ q[j] \in Byte => Before(p[i], q[j])

\* The items of q are initialised, and its bytes not later than byte n of
\* line l.
SentBy(q, l, n) ==
    \A i \in DOMAIN q :
        /\ q[i] # Garbage
        /\ q[i] \in Byte => q[i].line < l \/ (q[i].line = l /\ q[i].pos <= n)

\* A string p handed out and ring contents q are as they should be when the
\* sensor has just sent byte n of line l.
Delivered(p, q, l, n) ==
    /\ Ordered(p) /\ Ordered(q) /\ Precedes(p, q)
    /\ SentBy(p, l, n) /\ SentBy(q, l, n)

\* InOrder, split at the boundary between the reader's string and the ring,
\* and strengthened: what is stored has already been sent.  Without that,
\* nothing would place the next byte behind the ones in the ring.
OrderInv == Delivered(got, Stored, Line, pos)

IInv == TypeOK /\ RingConsistent /\ OrderInv

-----------------------------------------------------------------------------
(* Sequences of items.                                                     *)

\* Two ordered sequences, the second later than the first, joined.
LEMMA OrderedConcat ==
    ASSUME NEW p \in Seq(Item), NEW q \in Seq(Item),
           Ordered(p), Ordered(q), Precedes(p, q)
    PROVE  Ordered(p \o q)
<1> SUFFICES ASSUME NEW i \in DOMAIN (p \o q), NEW j \in DOMAIN (p \o q), i < j,
                    (p \o q)[i] \in Byte, (p \o q)[j] \in Byte
             PROVE  Before((p \o q)[i], (p \o q)[j])
  BY DEF Ordered
<1>1. i \in 1 .. Len(p) + Len(q) /\ j \in 1 .. Len(p) + Len(q) /\ i < j
  OBVIOUS
<1>2. \A k \in 1 .. Len(p) + Len(q) :
         (p \o q)[k] = IF k <= Len(p) THEN p[k] ELSE q[k - Len(p)]
  OBVIOUS
<1>3. CASE j <= Len(p)
  BY <1>1, <1>2, <1>3 DEF Ordered
<1>4. CASE i > Len(p)
  <2>1. i - Len(p) \in DOMAIN q /\ j - Len(p) \in DOMAIN q /\ i - Len(p) < j - Len(p)
    BY <1>1, <1>4
  <2> QED BY <1>1, <1>2, <1>4, <2>1 DEF Ordered
<1>5. CASE i <= Len(p) /\ j > Len(p)
  <2>1. i \in DOMAIN p /\ j - Len(p) \in DOMAIN q
    BY <1>1, <1>5
  <2> QED BY <1>1, <1>2, <1>5, <2>1 DEF Precedes
<1> QED BY <1>1, <1>3, <1>4, <1>5

\* A byte sent after everything stored keeps both sequences in order.
LEMMA AppendByte ==
    ASSUME NEW p \in Seq(Item), NEW q \in Seq(Item), NEW b \in Item,
           Ordered(q), Precedes(p, q),
           \A i \in DOMAIN p : p[i] \in Byte /\ b \in Byte => Before(p[i], b),
           \A i \in DOMAIN q : q[i] \in Byte /\ b \in Byte => Before(q[i], b)
    PROVE  Ordered(Append(q, b)) /\ Precedes(p, Append(q, b))
<1>1. /\ DOMAIN Append(q, b) = 1 .. Len(q) + 1
      /\ \A i \in 1 .. Len(q) : Append(q, b)[i] = q[i]
      /\ Append(q, b)[Len(q) + 1] = b
  OBVIOUS
<1>2. DOMAIN q = 1 .. Len(q)
  OBVIOUS
<1>3. Ordered(Append(q, b))
  BY <1>1, <1>2 DEF Ordered
<1>4. Precedes(p, Append(q, b))
  BY <1>1, <1>2 DEF Precedes
<1> QED BY <1>3, <1>4

\* Taking the first k of n characters out of the ring keeps the order.
LEMMA SplitOrdered ==
    ASSUME NEW q \in Seq(Item), Ordered(q),
           NEW n \in 0 .. Len(q), NEW k \in 0 .. n
    PROVE  /\ Ordered(SubSeq(q, 1, k))
           /\ Ordered(SubSeq(q, n + 1, Len(q)))
           /\ Precedes(SubSeq(q, 1, k), SubSeq(q, n + 1, Len(q)))
<1> DEFINE f == SubSeq(q, 1, k)
           r == SubSeq(q, n + 1, Len(q))
<1>1. DOMAIN f = 1 .. k /\ \A i \in 1 .. k : f[i] = q[i]
  OBVIOUS
<1>2. DOMAIN r = 1 .. Len(q) - n /\ \A i \in 1 .. Len(q) - n : r[i] = q[n + i]
  OBVIOUS
<1>3. DOMAIN q = 1 .. Len(q)
  OBVIOUS
<1> HIDE DEF f, r
<1>4. Ordered(f)
  BY <1>1, <1>3 DEF Ordered
<1>5. Ordered(r)
  <2> SUFFICES ASSUME NEW i \in DOMAIN r, NEW j \in DOMAIN r, i < j, r[i] \in Byte, r[j] \in Byte
               PROVE  Before(r[i], r[j])
    BY DEF Ordered
  <2>1. n + i \in DOMAIN q /\ n + j \in DOMAIN q /\ n + i < n + j
    BY <1>2, <1>3
  <2> QED BY <1>2, <2>1 DEF Ordered
<1>6. Precedes(f, r)
  <2> SUFFICES ASSUME NEW i \in DOMAIN f, NEW j \in DOMAIN r, f[i] \in Byte, r[j] \in Byte
               PROVE  Before(f[i], r[j])
    BY DEF Precedes
  <2>1. i \in DOMAIN q /\ n + j \in DOMAIN q /\ i < n + j
    BY <1>1, <1>2, <1>3
  <2> QED BY <1>1, <1>2, <2>1 DEF Ordered
<1> QED BY <1>4, <1>5, <1>6 DEF f, r

\* A part of a sequence has only elements of the whole.
LEMMA PartElements ==
    ASSUME NEW q \in Seq(Item), NEW m \in 1 .. Len(q) + 1, NEW n \in 0 .. Len(q)
    PROVE  /\ SubSeq(q, m, n) \in Seq(Item)
           /\ \A i \in DOMAIN SubSeq(q, m, n) : \E j \in DOMAIN q :
                 SubSeq(q, m, n)[i] = q[j] /\ j = m + i - 1
<1>1. CASE m <= n
  <2>1. /\ SubSeq(q, m, n) \in Seq(Item)
        /\ DOMAIN SubSeq(q, m, n) = 1 .. n - m + 1
        /\ \A i \in 1 .. n - m + 1 : SubSeq(q, m, n)[i] = q[m + i - 1]
    BY <1>1
  <2>2. \A i \in 1 .. n - m + 1 : m + i - 1 \in DOMAIN q
    BY <1>1
  <2> QED BY <2>1, <2>2
<1>2. CASE m > n
  BY <1>2
<1> QED BY <1>1, <1>2

-----------------------------------------------------------------------------
(* The ring as the interrupt and the reader see it.                        *)

\* What the ring may store.
LEMMA ItemFacts == NUL \in Item /\ Garbage \in Item /\ Byte \subseteq Item
BY DEF Item

\* The stored items are a sequence as long as the count says.
LEMMA StoredFacts ==
    ASSUME TypeOK
    PROVE  Stored \in Seq(Item) /\ Len(Stored) = uart_buffer.current_size
<1>1. uart_buffer \in Ring(SERIAL_BUFFERS_SIZE, Item)
  BY DEF TypeOK
<1> QED BY <1>1, SizeAssumption, ContentsSeq DEF Stored

\* The lines that the characters of a sequence belong to.
LEMMA LinesType ==
    ASSUME NEW q \in Seq(Item)
    PROVE  Lines(q) \subseteq Nat \ {0}
BY DEF Lines, Byte

\* reset leaves nothing stored.
LEMMA ResetStored ==
    ASSUME TypeOK
    PROVE  /\ reset(uart_buffer) \in Ring(SERIAL_BUFFERS_SIZE, Item)
           /\ Consistent(reset(uart_buffer))
           /\ Contents(reset(uart_buffer)) = << >>
<1>1. uart_buffer \in Ring(SERIAL_BUFFERS_SIZE, Item)
  BY DEF TypeOK
<1> QED BY <1>1, SizeAssumption, ResetEmpty

\* push adds its item behind the stored ones, or drops it.
LEMMA PushStored ==
    ASSUME NEW rb \in Ring(SERIAL_BUFFERS_SIZE, Item), Consistent(rb), NEW it \in Item
    PROVE  /\ push(rb, it) \in Ring(SERIAL_BUFFERS_SIZE, Item)
           /\ Consistent(push(rb, it))
           /\ Contents(push(rb, it)) \in {Contents(rb), Append(Contents(rb), it)}
<1>1. CASE is_full(rb)
  BY <1>1, SizeAssumption, PushAppends
<1>2. CASE ~is_full(rb)
  BY <1>2, SizeAssumption, PushAppends
<1> QED BY <1>1, <1>2

\* n pops take the first n of the stored items.
LEMMA PopStored ==
    ASSUME TypeOK, RingConsistent, NEW n \in 0 .. Len(Stored)
    PROVE  /\ popN(uart_buffer, n) \in Ring(SERIAL_BUFFERS_SIZE, Item)
           /\ Consistent(popN(uart_buffer, n))
           /\ Contents(popN(uart_buffer, n)) = SubSeq(Stored, n + 1, Len(Stored))
<1>1. uart_buffer \in Ring(SERIAL_BUFFERS_SIZE, Item) /\ Consistent(uart_buffer)
  BY DEF TypeOK, RingConsistent
<1>2. n \in 0 .. uart_buffer.current_size
  BY StoredFacts
<1> QED BY <1>1, <1>2, SizeAssumption, PopRemoves DEF Stored

\* What each branch of handle_received_char leaves in the variables it writes.
BranchTyped ==
    /\ uart_buffer' \in Ring(SERIAL_BUFFERS_SIZE, Item)
    /\ Consistent(uart_buffer')
    /\ string_finished_' \in BOOLEAN
    /\ received_chars' \in Nat
    /\ timeout_detected' \in BOOLEAN
    /\ notified' \in BOOLEAN
    /\ torn' \in SUBSET (Nat \ {0})

\* Each branch of the interrupt keeps types and pointers.
LEMMA BranchesTyped ==
    ASSUME TypeOK, RingConsistent, NEW b \in Byte
    PROVE  /\ RxAfterTimeout => BranchTyped
           /\ RxEndOfLine    => BranchTyped
           /\ RxEmptyLine    => BranchTyped
           /\ RxNearlyFull(b) => BranchTyped
           /\ RxNormal(b)     => BranchTyped
<1> USE ItemFacts
<1>1. uart_buffer \in Ring(SERIAL_BUFFERS_SIZE, Item) /\ Consistent(uart_buffer)
  BY DEF TypeOK, RingConsistent
<1>2. Line \in Nat \ {0} /\ torn \in SUBSET (Nat \ {0}) /\ Lines(Stored) \subseteq Nat \ {0}
  BY StoredFacts, LinesType DEF TypeOK, Line
<1>3. RxAfterTimeout => BranchTyped
  <2> SUFFICES ASSUME RxAfterTimeout PROVE BranchTyped
    OBVIOUS
  <2>1. torn' \in SUBSET (Nat \ {0})
    <3>1. torn' = torn \cup Lines(Stored) \cup {Line}
      BY DEF RxAfterTimeout
    <3> QED BY <1>2, <3>1
  <2>2. uart_buffer' \in Ring(SERIAL_BUFFERS_SIZE, Item) /\ Consistent(uart_buffer')
    BY ResetStored DEF RxAfterTimeout
  <2>3. /\ string_finished_' \in BOOLEAN /\ received_chars' \in Nat
        /\ timeout_detected' \in BOOLEAN /\ notified' \in BOOLEAN
    BY DEF RxAfterTimeout, TypeOK
  <2> QED BY <2>1, <2>2, <2>3 DEF BranchTyped
<1>4. RxEndOfLine => BranchTyped
  BY <1>1, <1>2, PushStored DEF TypeOK, RxEndOfLine, BranchTyped
<1>5. RxEmptyLine => BranchTyped
  BY <1>1 DEF TypeOK, RxEmptyLine, serial, BranchTyped
<1>6. RxNearlyFull(b) => BranchTyped
  <2>1. push(uart_buffer, b) \in Ring(SERIAL_BUFFERS_SIZE, Item) /\ Consistent(push(uart_buffer, b))
    BY <1>1, PushStored
  <2>2. /\ push(push(uart_buffer, b), NUL) \in Ring(SERIAL_BUFFERS_SIZE, Item)
        /\ Consistent(push(push(uart_buffer, b), NUL))
    BY <2>1, PushStored
  <2> QED BY <1>2, <2>2 DEF TypeOK, RxNearlyFull, BranchTyped
<1>7. RxNormal(b) => BranchTyped
  BY <1>1, <1>2, PushStored DEF TypeOK, RxNormal, BranchTyped
<1> QED BY <1>3, <1>4, <1>5, <1>6, <1>7

-----------------------------------------------------------------------------
(* Types and the ring's bookkeeping.                                       *)

\* The empty ring is consistent.
LEMMA InitTyped == Init => TypeOK /\ RingConsistent
<1> SUFFICES ASSUME Init PROVE TypeOK /\ RingConsistent
  OBVIOUS
<1>1. uart_buffer \in Ring(SERIAL_BUFFERS_SIZE, Item) /\ Consistent(uart_buffer)
  BY SizeAssumption, ItemFacts, NewRingEmpty DEF Init
<1>2. lens \in Seq(Nat) /\ got \in Seq(Item) /\ torn \in SUBSET (Nat \ {0})
  BY DEF Init
<1> QED BY <1>1, <1>2 DEF Init, TypeOK, RingConsistent, PC

\* Every step keeps types and pointers.
LEMMA NextTyped ==
    ASSUME TypeOK, RingConsistent, [Next]_vars
    PROVE  TypeOK' /\ RingConsistent'
<1>1. CASE RxData
  <2> DEFINE b == [line |-> Line, pos |-> pos + 1]
  <2>1. b \in Byte
    BY DEF TypeOK, Line, Byte
  <2>2. BranchTyped
    BY <1>1, <2>1, BranchesTyped DEF RxData
  <2> QED BY <1>1, <2>2 DEF RxData, BranchTyped, TypeOK, RingConsistent, reading
<1>2. CASE RxTerminator
  <2>1. BranchTyped
    <3>1. [line |-> 1, pos |-> 1] \in Byte
      BY DEF Byte
    <3> QED BY <1>2, <3>1, BranchesTyped DEF RxTerminator
  <2> QED BY <1>2, <2>1 DEF RxTerminator, BranchTyped, TypeOK, RingConsistent, reading
<1>3. CASE Overrun
  <2>1. torn' \in SUBSET (Nat \ {0})
    <3>1. Line \in Nat \ {0} /\ torn \in SUBSET (Nat \ {0})
      BY DEF TypeOK, Line
    <3> QED BY <1>3, <3>1 DEF Overrun
  <2>2. lens' \in Seq(Nat) /\ pos' \in Nat
    <3>1. lens \in Seq(Nat) /\ pos \in Nat
      BY DEF TypeOK
    <3>2. CASE pos' = pos + 1 /\ lens' = lens
      BY <3>1, <3>2
    <3>3. CASE lens' = Append(lens, pos) /\ pos' = 0
      BY <3>1, <3>3
    <3> QED BY <1>3, <3>2, <3>3 DEF Overrun
  <2> QED BY <1>3, <2>1, <2>2 DEF Overrun, TypeOK, RingConsistent, serial, reading
<1>4. CASE SetReceivingTaskHandle
  BY <1>4 DEF SetReceivingTaskHandle, TypeOK, RingConsistent, env, serial, reading
<1>5. CASE NotifyWait \/ WhileNotFinished \/ CheckForTimeOut \/ NotifyTake
  BY <1>5 DEF NotifyWait, WhileNotFinished, CheckForTimeOut, NotifyTake, TypeOK,
              RingConsistent, env, serial, PC
<1>6. CASE SetTimeoutDetected \/ TimerExpires
  BY <1>6 DEF SetTimeoutDetected, TimerExpires, TypeOK, RingConsistent, env, serial, PC
<1>7. CASE ReadTimedOut
  <2>1. PICK n \in 0 .. Len(Stored) :
           read_from_receive_buffer(n) /\ torn' = torn \cup Lines(SubSeq(Stored, 1, n))
    BY <1>7 DEF ReadTimedOut
  <2>2. Lines(SubSeq(Stored, 1, n)) \subseteq Nat \ {0}
    <3>1. SubSeq(Stored, 1, n) \in Seq(Item)
      BY StoredFacts, PartElements
    <3> QED BY <3>1, LinesType
  <2> QED BY <1>7, <2>1, <2>2, PopStored
          DEF ReadTimedOut, read_from_receive_buffer, TypeOK, RingConsistent, env, PC
<1>8. CASE ReadFinished
  <2>1. PICK n \in 0 .. Len(Stored) : read_from_receive_buffer(n) /\ got' = Returned(n)
    BY <1>8 DEF ReadFinished
  <2>2. Returned(n) \in Seq(Item)
    BY StoredFacts, PartElements, SizeAssumption DEF Returned
  <2> QED BY <1>8, <2>1, <2>2, PopStored
          DEF ReadFinished, read_from_receive_buffer, TypeOK, RingConsistent, env, PC
<1>9. CASE UNCHANGED vars
  BY <1>9 DEF vars, TypeOK, RingConsistent
<1> QED BY <1>1, <1>2, <1>3, <1>4, <1>5, <1>6, <1>7, <1>8, <1>9
        DEF Next, Interrupt, ReadTask

\* Every variable of the receive path keeps its type and the ring's pointers
\* stay inside the storage, for every ring size and any traffic.
THEOREM TypeCorrect == Spec => []TypeOK
<1>1. Init => TypeOK /\ RingConsistent
  BY InitTyped
<1>2. (TypeOK /\ RingConsistent) /\ [Next]_vars => (TypeOK /\ RingConsistent)'
  BY NextTyped
<1> QED BY <1>1, <1>2, PTL DEF Spec

\* The element count of the ring equals the distance between its pointers
\* at all times.
THEOREM RingBookkeeping == Spec => []RingConsistent
<1>1. Init => TypeOK /\ RingConsistent
  BY InitTyped
<1>2. (TypeOK /\ RingConsistent) /\ [Next]_vars => (TypeOK /\ RingConsistent)'
  BY NextTyped
<1> QED BY <1>1, <1>2, PTL DEF Spec

-----------------------------------------------------------------------------
(* Bytes are delivered in order.  First what can happen to a string and    *)
(* the ring's contents, as sequences.                                      *)

\* Nothing is disturbed when the sensor sends a byte or ends its line.
LEMMA DeliveredLater ==
    ASSUME NEW p \in Seq(Item), NEW q \in Seq(Item), NEW l \in Nat, NEW n \in Nat,
           Delivered(p, q, l, n)
    PROVE  Delivered(p, q, l, n + 1) /\ Delivered(p, q, l + 1, 0)
<1>1. \A s \in Seq(Item) : SentBy(s, l, n) => SentBy(s, l, n + 1) /\ SentBy(s, l + 1, 0)
  BY DEF SentBy, Byte
<1> QED BY <1>1 DEF Delivered

\* What is delivered stays in order when the ring is emptied.
LEMMA DeliveredEmpty ==
    ASSUME NEW p \in Seq(Item), NEW q \in Seq(Item), NEW l \in Nat, NEW n \in Nat,
           Delivered(p, q, l, n)
    PROVE  Delivered(p, << >>, l, n)
BY DEF Delivered, Ordered, Precedes, SentBy

\* A stored terminator does not disturb the order.
LEMMA DeliveredNul ==
    ASSUME NEW p \in Seq(Item), NEW q \in Seq(Item), NEW l \in Nat, NEW n \in Nat,
           Delivered(p, q, l, n)
    PROVE  Delivered(p, Append(q, NUL), l, n)
<1>1. NUL \notin Byte /\ NUL # Garbage /\ NUL \in Item
  BY ItemAssumption, ItemFacts
<1>2. Ordered(Append(q, NUL)) /\ Precedes(p, Append(q, NUL))
  BY <1>1, AppendByte DEF Delivered
<1>3. /\ DOMAIN Append(q, NUL) = 1 .. Len(q) + 1
      /\ \A i \in 1 .. Len(q) : Append(q, NUL)[i] = q[i]
      /\ Append(q, NUL)[Len(q) + 1] = NUL
      /\ DOMAIN q = 1 .. Len(q)
  OBVIOUS
<1>4. SentBy(Append(q, NUL), l, n)
  BY <1>1, <1>3 DEF Delivered, SentBy
<1> QED BY <1>2, <1>4 DEF Delivered

\* The byte just sent goes behind everything that was there.
LEMMA DeliveredByte ==
    ASSUME NEW p \in Seq(Item), NEW q \in Seq(Item), NEW l \in Nat, NEW n \in Nat,
           NEW b \in Byte, b.line = l, b.pos = n + 1,
           Delivered(p, q, l, n)
    PROVE  Delivered(p, Append(q, b), l, n + 1)
<1>1. b \in Item /\ b # Garbage
  BY ItemAssumption, ItemFacts
<1>2. \A s \in Seq(Item) : SentBy(s, l, n) =>
         \A i \in DOMAIN s : s[i] \in Byte => Before(s[i], b)
  BY DEF SentBy, Before, Byte
<1>3. Ordered(Append(q, b)) /\ Precedes(p, Append(q, b))
  BY <1>1, <1>2, AppendByte DEF Delivered
<1>4. Delivered(p, q, l, n + 1)
  BY DeliveredLater
<1>5. /\ DOMAIN Append(q, b) = 1 .. Len(q) + 1
      /\ \A i \in 1 .. Len(q) : Append(q, b)[i] = q[i]
      /\ Append(q, b)[Len(q) + 1] = b
      /\ DOMAIN q = 1 .. Len(q)
  OBVIOUS
<1>6. SentBy(Append(q, b), l, n + 1)
  BY <1>1, <1>4, <1>5 DEF Delivered, SentBy
<1> QED BY <1>3, <1>4, <1>6 DEF Delivered

\* n characters leave the ring, of which the first k may be handed out.
LEMMA DeliveredPopped ==
    ASSUME NEW p \in Seq(Item), NEW q \in Seq(Item), NEW l \in Nat, NEW m \in Nat,
           NEW n \in 0 .. Len(q), NEW k \in 0 .. n,
           Delivered(p, q, l, m)
    PROVE  /\ Delivered(p, SubSeq(q, n + 1, Len(q)), l, m)
           /\ Delivered(SubSeq(q, 1, k), SubSeq(q, n + 1, Len(q)), l, m)
<1> DEFINE f == SubSeq(q, 1, k)
           r == SubSeq(q, n + 1, Len(q))
<1>1. /\ \A i \in DOMAIN f : \E j \in DOMAIN q : f[i] = q[j]
      /\ \A i \in DOMAIN r : \E j \in DOMAIN q : r[i] = q[j]
  <2>1. 1 \in 1 .. Len(q) + 1 /\ k \in 0 .. Len(q)
    OBVIOUS
  <2>2. n + 1 \in 1 .. Len(q) + 1 /\ Len(q) \in 0 .. Len(q)
    OBVIOUS
  <2>3. \A i \in DOMAIN f : \E j \in DOMAIN q : f[i] = q[j]
    BY <2>1, PartElements
  <2>4. \A i \in DOMAIN r : \E j \in DOMAIN q : r[i] = q[j]
    BY <2>2, PartElements
  <2> QED BY <2>3, <2>4
<1>2. Ordered(f) /\ Ordered(r) /\ Precedes(f, r)
  BY SplitOrdered DEF Delivered
<1> HIDE DEF f, r
<1>3. SentBy(f, l, m) /\ SentBy(r, l, m)
  BY <1>1 DEF Delivered, SentBy
<1>4. Precedes(p, r)
  BY <1>1 DEF Delivered, Precedes
<1> QED BY <1>2, <1>3, <1>4 DEF Delivered, f, r

(* Then what each branch of handle_received_char does to the ring.         *)

\* What each branch of the interrupt adds to the stored items.
LEMMA BranchesGrow ==
    ASSUME TypeOK, RingConsistent, NEW b \in Byte
    PROVE  /\ RxAfterTimeout => Stored' = << >>
           /\ RxEndOfLine    => Stored' \in {Stored, Append(Stored, NUL)}
           /\ RxEmptyLine    => Stored' = Stored
           /\ RxNearlyFull(b) => Stored' \in {Stored, Append(Stored, NUL), Append(Stored, b),
                                              Append(Append(Stored, b), NUL)}
           /\ RxNormal(b)     => Stored' \in {Stored, Append(Stored, b)}
<1> USE ItemFacts
<1>1. uart_buffer \in Ring(SERIAL_BUFFERS_SIZE, Item) /\ Consistent(uart_buffer)
  BY DEF TypeOK, RingConsistent
<1>2. RxAfterTimeout => Stored' = << >>
  BY ResetStored DEF RxAfterTimeout, Stored
<1>3. RxEndOfLine => Stored' \in {Stored, Append(Stored, NUL)}
  BY <1>1, PushStored DEF RxEndOfLine, Stored
<1>4. RxEmptyLine => Stored' = Stored
  BY DEF RxEmptyLine, serial, Stored
<1>5. RxNormal(b) => Stored' \in {Stored, Append(Stored, b)}
  BY <1>1, PushStored DEF RxNormal, Stored
<1>6. RxNearlyFull(b) => Stored' \in {Stored, Append(Stored, NUL), Append(Stored, b),
                                      Append(Append(Stored, b), NUL)}
  <2> SUFFICES ASSUME RxNearlyFull(b)
               PROVE  Stored' \in {Stored, Append(Stored, NUL), Append(Stored, b),
                                   Append(Append(Stored, b), NUL)}
    OBVIOUS
  <2> DEFINE one == push(uart_buffer, b)
  <2>1. /\ one \in Ring(SERIAL_BUFFERS_SIZE, Item) /\ Consistent(one)
        /\ Contents(one) \in {Stored, Append(Stored, b)}
    BY <1>1, PushStored DEF Stored
  <2>2. Stored' = Contents(push(one, NUL))
    BY DEF RxNearlyFull, Stored
  <2> HIDE DEF one
  <2>3. Stored' \in {Contents(one), Append(Contents(one), NUL)}
    BY <2>1, <2>2, PushStored
  <2> QED BY <2>1, <2>3
<1> QED BY <1>2, <1>3, <1>4, <1>5, <1>6

(* Then the steps of the specification.                                    *)

\* Every step keeps the order of what is stored and delivered.
LEMMA NextOrder ==
    ASSUME TypeOK, RingConsistent, OrderInv, [Next]_vars
    PROVE  OrderInv'
<1>1. /\ got \in Seq(Item) /\ Stored \in Seq(Item) /\ pos \in Nat /\ Line \in Nat \ {0}
      /\ lens \in Seq(Nat)
  BY StoredFacts DEF TypeOK, Line
<1>2. Delivered(got, Stored, Line, pos)
  BY DEF OrderInv
<1>3. CASE RxData
  <2> DEFINE b == [line |-> Line, pos |-> pos + 1]
  <2>1. b \in Byte /\ b \in Item /\ b.line = Line /\ b.pos = pos + 1
    BY <1>1, ItemFacts DEF Byte
  <2>2. got' = got /\ Line' = Line /\ pos' = pos + 1
    BY <1>3 DEF RxData, reading, Line
  <2>3. Stored' \in {<< >>, Stored, Append(Stored, NUL), Append(Stored, b),
                     Append(Append(Stored, b), NUL)}
    BY <1>3, <2>1, BranchesGrow DEF RxData
  <2> HIDE DEF b
  <2>4. Delivered(got, Stored, Line, pos + 1)
    BY <1>1, <1>2, DeliveredLater
  <2>5. Delivered(got, << >>, Line, pos + 1) /\ Delivered(got, Append(Stored, NUL), Line, pos + 1)
    BY <1>1, <2>4, DeliveredEmpty, DeliveredNul
  <2>6. Delivered(got, Append(Stored, b), Line, pos + 1)
    BY <1>1, <1>2, <2>1, DeliveredByte
  <2>7. Delivered(got, Append(Append(Stored, b), NUL), Line, pos + 1)
    <3> DEFINE sb == Append(Stored, b)
    <3>1. sb \in Seq(Item) /\ pos + 1 \in Nat /\ Delivered(got, sb, Line, pos + 1)
      BY <1>1, <2>1, <2>6
    <3> HIDE DEF sb
    <3>2. Delivered(got, Append(sb, NUL), Line, pos + 1)
      BY <1>1, <3>1, DeliveredNul
    <3> QED BY <3>2 DEF sb
  <2>8. Delivered(got, Stored', Line, pos + 1)
    BY <2>3, <2>4, <2>5, <2>6, <2>7
  <2> QED BY <2>2, <2>8 DEF OrderInv
<1>4. CASE RxTerminator
  <2>1. got' = got /\ Line' = Line + 1 /\ pos' = 0
    BY <1>1, <1>4 DEF RxTerminator, reading, Line
  <2>2. Stored' \in {<< >>, Stored, Append(Stored, NUL)}
    <3>1. [line |-> 1, pos |-> 1] \in Byte
      BY DEF Byte
    <3> QED BY <1>4, <3>1, BranchesGrow DEF RxTerminator
  <2>3. Delivered(got, Stored, Line + 1, 0)
    BY <1>1, <1>2, DeliveredLater
  <2>4. Delivered(got, << >>, Line + 1, 0) /\ Delivered(got, Append(Stored, NUL), Line + 1, 0)
    BY <1>1, <2>3, DeliveredEmpty, DeliveredNul
  <2>5. Delivered(got, Stored', Line + 1, 0)
    BY <2>2, <2>3, <2>4
  <2> QED BY <2>1, <2>5 DEF OrderInv
<1>5. CASE Overrun
  <2>1. got' = got /\ Stored' = Stored
    BY <1>5 DEF Overrun, reading, serial, Stored
  <2>2. (Line' = Line /\ pos' = pos + 1) \/ (Line' = Line + 1 /\ pos' = 0)
    BY <1>1, <1>5 DEF Overrun, Line
  <2>3. Delivered(got, Stored, Line, pos + 1) /\ Delivered(got, Stored, Line + 1, 0)
    BY <1>1, <1>2, DeliveredLater
  <2> QED BY <2>1, <2>2, <2>3 DEF OrderInv
<1>6. CASE \/ SetReceivingTaskHandle \/ NotifyWait \/ WhileNotFinished \/ CheckForTimeOut
           \/ NotifyTake \/ SetTimeoutDetected \/ TimerExpires \/ UNCHANGED vars
  <2>1. got' = got /\ uart_buffer' = uart_buffer /\ lens' = lens /\ pos' = pos
    BY <1>6 DEF SetReceivingTaskHandle, NotifyWait, WhileNotFinished, CheckForTimeOut,
                NotifyTake, SetTimeoutDetected, TimerExpires, vars, env, serial, reading
  <2> QED BY <1>2, <2>1 DEF OrderInv, Stored, Line
<1>7. CASE ReadTimedOut
  <2>1. PICK n \in 0 .. Len(Stored) : read_from_receive_buffer(n)
    BY <1>7 DEF ReadTimedOut
  <2>2. Stored' = SubSeq(Stored, n + 1, Len(Stored))
    BY <2>1, PopStored DEF read_from_receive_buffer, Stored
  <2>3. got' = got /\ Line' = Line /\ pos' = pos
    BY <1>7 DEF ReadTimedOut, env, Line
  <2>4. Delivered(got, SubSeq(Stored, n + 1, Len(Stored)), Line, pos)
    BY <1>1, <1>2, DeliveredPopped
  <2> QED BY <2>2, <2>3, <2>4 DEF OrderInv
<1>8. CASE ReadFinished
  <2>1. PICK n \in 0 .. Len(Stored) : read_from_receive_buffer(n) /\ got' = Returned(n)
    BY <1>8 DEF ReadFinished
  <2>2. Stored' = SubSeq(Stored, n + 1, Len(Stored))
    BY <2>1, PopStored DEF read_from_receive_buffer, Stored
  <2>3. Line' = Line /\ pos' = pos
    BY <1>8 DEF ReadFinished, env, Line
  <2> DEFINE k == IF n < SERIAL_BUFFERS_SIZE THEN n ELSE n - 1
  <2>4. k \in 0 .. n /\ got' = SubSeq(Stored, 1, k)
    BY <2>1, SizeAssumption DEF Returned
  <2> HIDE DEF k
  <2>5. Delivered(SubSeq(Stored, 1, k), SubSeq(Stored, n + 1, Len(Stored)), Line, pos)
    BY <1>1, <1>2, <2>4, DeliveredPopped
  <2> QED BY <2>2, <2>3, <2>4, <2>5 DEF OrderInv
<1> QED BY <1>3, <1>4, <1>5, <1>6, <1>7, <1>8 DEF Next, Interrupt, ReadTask

\* The strengthened invariant holds in every reachable state.
THEOREM Inductive == Spec => []IInv
<1>1. Init => IInv
  <2> SUFFICES ASSUME Init PROVE OrderInv
    BY InitTyped DEF IInv
  <2>1. Stored = << >> /\ got = << >>
    BY SizeAssumption, ItemFacts, NewRingEmpty DEF Init, Stored
  <2> QED BY <2>1 DEF OrderInv, Delivered, Ordered, Precedes, SentBy
<1>2. IInv /\ [Next]_vars => IInv'
  BY NextTyped, NextOrder DEF IInv
<1> QED BY <1>1, <1>2, PTL DEF Spec

\* No byte reaches the sensor twice, out of order or from storage that was
\* never written, for every ring size, any traffic and any interleaving of
\* the interrupt with read_string.
THEOREM DeliveredInOrder == Spec => []InOrder
<1>1. IInv => InOrder
  <2> SUFFICES ASSUME IInv PROVE InOrder
    OBVIOUS
  <2>1. got \in Seq(Item) /\ Stored \in Seq(Item)
    BY StoredFacts DEF IInv, TypeOK
  <2>2. Ordered(got \o Stored)
    BY <2>1, OrderedConcat DEF IInv, OrderInv, Delivered
  <2> QED BY <2>2 DEF IInv, OrderInv, Delivered, SentBy, InOrder
<1> QED BY <1>1, Inductive, PTL

-----------------------------------------------------------------------------
(* Strings are whole lines.  What the interrupt's branches and the reader  *)
(* do to a line is stated for any sequence q, with ls the lengths of the   *)
(* lines sent, p the bytes sent of the next and T the torn lines.          *)

\* q[i] is a byte of a line that lost nothing.
Clean(q, i, T) == q[i] \in Byte /\ q[i].line \notin T

\* The bytes of line l sent so far.
SentOf(ls, p, l) == IF l = Len(ls) + 1 THEN p ELSE ls[l]

\* The m bytes of line l stand behind place s, a clean line does not end
\* there, and behind them is their terminator, or nothing if the line has
\* not been ended.
LineAt(q, s, l, m, ls, T) ==
    /\ s >= 0
    /\ \A k \in 1 .. m : s + k <= Len(q) /\ q[s + k] = [line |-> l, pos |-> k]
    /\ s > 0 => ~Clean(q, s, T)
    /\ l = Len(ls) + 1 => s + m = Len(q)
    /\ l # Len(ls) + 1 => s + m < Len(q) /\ q[s + m + 1] = NUL

\* Every clean byte stands in its place of its line.
Intact(q, ls, p, T) ==
    \A i \in 1 .. Len(q) : Clean(q, i, T) =>
        LET m == SentOf(ls, p, q[i].line)
        IN  q[i].pos <= m /\ LineAt(q, i - q[i].pos, q[i].line, m, ls, T)

\* What the lemmas assume of q, ls and p.
Lined(q, ls, p) == q \in Seq(Item) /\ ls \in Seq(Nat) /\ p \in Nat /\ SentBy(q, Len(ls) + 1, p)

LEMMA CleanFacts ==
    ASSUME NEW q, NEW ls, NEW p, NEW T, Lined(q, ls, p), NEW i \in 1 .. Len(q), Clean(q, i, T)
    PROVE  /\ q[i].line \in 1 .. Len(ls) + 1 /\ q[i].pos \in Nat \ {0}
           /\ SentOf(ls, p, q[i].line) \in Nat
           /\ q[i] = [line |-> q[i].line, pos |-> q[i].pos]
<1>1. q[i].line \in Nat \ {0} /\ q[i].pos \in Nat \ {0}
  BY DEF Clean, Byte
<1>2. q[i].line <= Len(ls) + 1 /\ Len(ls) \in Nat
  BY <1>1 DEF Lined, SentBy, Clean
<1>3. q[i].line \in 1 .. Len(ls) + 1
  BY <1>1, <1>2
<1>4. SentOf(ls, p, q[i].line) \in Nat
  BY <1>3 DEF SentOf, Lined
<1>5. q[i] = [line |-> q[i].line, pos |-> q[i].pos]
  BY DEF Clean, Byte
<1> QED BY <1>1, <1>3, <1>4, <1>5

\* A line that tears makes fewer bytes clean.
LEMMA IntactTorn ==
    ASSUME NEW q, NEW ls, NEW p, NEW T, NEW U, T \subseteq U, Intact(q, ls, p, T)
    PROVE  Intact(q, ls, p, U)
<1>1. \A i : Clean(q, i, U) => Clean(q, i, T)
  BY DEF Clean
<1> QED BY <1>1 DEF Intact, LineAt

\* Only the line being sent can end in a clean byte, and that is its last.
LEMMA LastClean ==
    ASSUME NEW q, NEW ls, NEW p, NEW T, Lined(q, ls, p), Intact(q, ls, p, T),
           Len(q) > 0, Clean(q, Len(q), T)
    PROVE  q[Len(q)].line = Len(ls) + 1 /\ q[Len(q)].pos = p
<1>1. Len(q) \in 1 .. Len(q)
  BY DEF Lined
<1>2. /\ q[Len(q)].line \in 1 .. Len(ls) + 1 /\ q[Len(q)].pos \in Nat \ {0}
      /\ SentOf(ls, p, q[Len(q)].line) \in Nat
  BY <1>1, CleanFacts
<1> DEFINE m == SentOf(ls, p, q[Len(q)].line)
           s == Len(q) - q[Len(q)].pos
<1>3. q[Len(q)].pos <= m /\ LineAt(q, s, q[Len(q)].line, m, ls, T)
  BY <1>1 DEF Intact
<1>4. q[Len(q)].line = Len(ls) + 1
  <2>1. q[Len(q)].line # Len(ls) + 1 => s + m < Len(q)
    BY <1>3 DEF LineAt
  <2> QED BY <1>1, <1>2, <1>3, <2>1
<1>5. s + m = Len(q) /\ m = p
  BY <1>3, <1>4 DEF LineAt, SentOf
<1> QED BY <1>1, <1>2, <1>4, <1>5

\* No clean byte is last: the line being sent has no clean byte at all.
NoneLast(q, T) == Len(q) > 0 => ~Clean(q, Len(q), T)

LEMMA NoneLastEarlier ==
    ASSUME NEW q, NEW ls, NEW p, NEW T, Lined(q, ls, p), Intact(q, ls, p, T), NoneLast(q, T),
           NEW i \in 1 .. Len(q), Clean(q, i, T)
    PROVE  q[i].line \in 1 .. Len(ls)
<1>0. q[i].line \in 1 .. Len(ls) + 1 /\ q[i].pos \in Nat \ {0}
  BY CleanFacts
<1>1. q[i].line \in 1 .. Len(ls) + 1 /\ q[i].pos \in Nat \ {0} /\ Len(ls) \in Nat /\ Len(q) \in Nat
  BY <1>0 DEF Lined
<1>2. ASSUME q[i].line = Len(ls) + 1 PROVE FALSE
  <2> DEFINE s == i - q[i].pos
  <2>1. q[i].pos <= p /\ LineAt(q, s, Len(ls) + 1, p, ls, T)
    BY <1>2 DEF Intact, SentOf
  <2>2. p \in 1 .. p /\ s + p = Len(q)
    BY <1>1, <2>1 DEF LineAt, Lined
  <2>3. q[Len(q)] = [line |-> q[i].line, pos |-> p]
    BY <1>2, <2>1, <2>2 DEF LineAt
  <2>4. Clean(q, Len(q), T)
    BY <1>1, <2>2, <2>3 DEF Clean, Byte, Lined
  <2> QED BY <1>1, <2>4 DEF NoneLast
<1> QED BY <1>1, <1>2

\* Then more bytes may be sent, or the line may end, out of sight of q.
LEMMA IntactUnseen ==
    ASSUME NEW q, NEW ls, NEW p, NEW T, Lined(q, ls, p), Intact(q, ls, p, T), NoneLast(q, T),
           NEW p2 \in Nat
    PROVE  Intact(q, ls, p2, T) /\ Intact(q, Append(ls, p), 0, T)
<1>1. ls \in Seq(Nat) /\ p \in Nat /\ Len(ls) \in Nat
  BY DEF Lined
<1>2. Len(Append(ls, p)) = Len(ls) + 1 /\ \A l \in 1 .. Len(ls) : Append(ls, p)[l] = ls[l]
  BY <1>1
<1>3. ASSUME NEW i \in 1 .. Len(q), Clean(q, i, T)
      PROVE  /\ q[i].line \in 1 .. Len(ls) /\ q[i].line # Len(ls) + 1 /\ q[i].line # Len(ls) + 2
             /\ q[i].pos <= ls[q[i].line]
             /\ LineAt(q, i - q[i].pos, q[i].line, ls[q[i].line], ls, T)
  <2>1. q[i].line \in 1 .. Len(ls)
    BY <1>3, NoneLastEarlier
  <2>2. q[i].line # Len(ls) + 1 /\ q[i].line # Len(ls) + 2
    BY <1>1, <2>1
  <2> QED BY <1>3, <2>1, <2>2 DEF Intact, SentOf
<1>4. Intact(q, ls, p2, T)
  BY <1>3 DEF Intact, SentOf
<1>5. Intact(q, Append(ls, p), 0, T)
  <2> SUFFICES ASSUME NEW i \in 1 .. Len(q), Clean(q, i, T)
               PROVE  LET m == SentOf(Append(ls, p), 0, q[i].line)
                      IN  q[i].pos <= m /\ LineAt(q, i - q[i].pos, q[i].line, m, Append(ls, p), T)
    BY DEF Intact
  <2>1. SentOf(Append(ls, p), 0, q[i].line) = ls[q[i].line]
    BY <1>1, <1>2, <1>3 DEF SentOf
  <2>2. LineAt(q, i - q[i].pos, q[i].line, ls[q[i].line], Append(ls, p), T)
    BY <1>1, <1>2, <1>3 DEF LineAt
  <2> QED BY <1>3, <2>1, <2>2
<1> QED BY <1>4, <1>5

\* What Append leaves where it was.
LEMMA AppendFacts ==
    ASSUME NEW q \in Seq(Item), NEW it \in Item
    PROVE  /\ Append(q, it) \in Seq(Item) /\ Len(Append(q, it)) = Len(q) + 1 /\ Len(q) \in Nat
           /\ \A i \in 1 .. Len(q) : Append(q, it)[i] = q[i]
           /\ Append(q, it)[Len(q) + 1] = it
           /\ \A T : \A i \in 1 .. Len(q) : Clean(Append(q, it), i, T) <=> Clean(q, i, T)
<1>1. \A i \in 1 .. Len(q) : Append(q, it)[i] = q[i]
  OBVIOUS
<1> QED BY <1>1 DEF Clean

\* A line that was ended is not disturbed by what goes behind it.
LEMMA EndedLineStays ==
    ASSUME NEW q, NEW r, NEW s \in Int, NEW l, NEW m \in Nat, NEW ls, NEW ls2, NEW T,
           Len(q) \in Nat, Len(r) \in Nat, Len(q) <= Len(r), \A i \in 1 .. Len(q) : r[i] = q[i],
           l # Len(ls) + 1, l # Len(ls2) + 1, LineAt(q, s, l, m, ls, T)
    PROVE  LineAt(r, s, l, m, ls2, T)
<1>1. s >= 0 /\ s + m < Len(q)
  BY DEF LineAt
<1>2. \A k \in 1 .. m + 1 : s + k \in 1 .. Len(q)
  BY <1>1
<1>3. \A k \in 1 .. m + 1 : r[s + k] = q[s + k]
  BY <1>2
<1>4. \A k \in 1 .. m : s + k <= Len(r) /\ r[s + k] = [line |-> l, pos |-> k]
  BY <1>1, <1>3 DEF LineAt
<1>5. s > 0 => ~Clean(r, s, T)
  <2>1. s > 0 => r[s] = q[s]
    BY <1>1
  <2> QED BY <2>1 DEF LineAt, Clean
<1>6. s + m < Len(r) /\ r[s + m + 1] = NUL
  <2>1. m + 1 \in 1 .. m + 1 /\ s + (m + 1) = s + m + 1 /\ s + m < Len(r)
    BY <1>1
  <2>2. r[s + (m + 1)] = q[s + (m + 1)] /\ q[s + m + 1] = NUL
    BY <1>3, <2>1 DEF LineAt
  <2> QED BY <2>1, <2>2
<1> QED BY <1>1, <1>4, <1>5, <1>6 DEF LineAt

\* An item that is not clean goes behind.
LEMMA IntactAppend ==
    ASSUME NEW q, NEW ls, NEW p, NEW T, Lined(q, ls, p), Intact(q, ls, p, T), NoneLast(q, T),
           NEW it \in Item, it \in Byte => it.line \in T
    PROVE  Intact(Append(q, it), ls, p, T) /\ NoneLast(Append(q, it), T)
<1> DEFINE r == Append(q, it)
<1>1. /\ r \in Seq(Item) /\ Len(r) = Len(q) + 1 /\ Len(q) \in Nat /\ r[Len(q) + 1] = it
      /\ \A i \in 1 .. Len(q) : r[i] = q[i]
      /\ \A i \in 1 .. Len(q) : Clean(r, i, T) <=> Clean(q, i, T)
  BY AppendFacts DEF Lined
<1> HIDE DEF r
<1>2. ~Clean(r, Len(q) + 1, T)
  BY <1>1 DEF Clean
<1>3. NoneLast(r, T)
  BY <1>1, <1>2 DEF NoneLast
<1>4. ASSUME NEW i \in 1 .. Len(r), Clean(r, i, T)
      PROVE  LET m == SentOf(ls, p, r[i].line)
             IN  r[i].pos <= m /\ LineAt(r, i - r[i].pos, r[i].line, m, ls, T)
  <2>1. i \in 1 .. Len(q) /\ r[i] = q[i] /\ Clean(q, i, T)
    BY <1>1, <1>2, <1>4
  <2> DEFINE m == SentOf(ls, p, q[i].line)
             s == i - q[i].pos
  <2>2. q[i].line \in 1 .. Len(ls) /\ q[i].pos \in Nat \ {0} /\ m \in Nat
    BY <2>1, NoneLastEarlier, CleanFacts
  <2>3. q[i].pos <= m /\ LineAt(q, s, q[i].line, m, ls, T) /\ q[i].line # Len(ls) + 1 /\ s \in Int
    BY <2>1, <2>2 DEF Intact, Lined
  <2> HIDE DEF m, s
  <2>4. LineAt(r, s, q[i].line, m, ls, T)
    BY <1>1, <2>2, <2>3, EndedLineStays
  <2> QED BY <2>1, <2>3, <2>4 DEF m, s
<1>5. Intact(r, ls, p, T)
  BY <1>4 DEF Intact
<1> QED BY <1>3, <1>5 DEF r

\* The next byte of the line goes behind the bytes sent before it.
LEMMA IntactByte ==
    ASSUME NEW q, NEW ls, NEW p, NEW T, Lined(q, ls, p), Intact(q, ls, p, T),
           NEW b \in Byte, b = [line |-> Len(ls) + 1, pos |-> p + 1], Len(ls) + 1 \notin T,
           p > 0 => Len(q) > 0 /\ q[Len(q)] = [line |-> Len(ls) + 1, pos |-> p]
    PROVE  Intact(Append(q, b), ls, p + 1, T)
<1> DEFINE r == Append(q, b)
           L == Len(ls) + 1
<1>1. /\ r \in Seq(Item) /\ Len(r) = Len(q) + 1 /\ Len(q) \in Nat /\ r[Len(q) + 1] = b
      /\ \A i \in 1 .. Len(q) : r[i] = q[i]
      /\ \A i \in 1 .. Len(q) : Clean(r, i, T) <=> Clean(q, i, T)
  BY ItemFacts, AppendFacts DEF Lined
<1>2. p \in Nat /\ Len(ls) \in Nat /\ L \in Nat /\ q \in Seq(Item)
  BY DEF Lined
<1> HIDE DEF r
\* Where the line being sent stands, if any of it does.
<1>3. ASSUME NEW s \in Int, LineAt(q, s, L, p, ls, T)
      PROVE  LineAt(r, s, L, p + 1, ls, T)
  <2>1. s >= 0 /\ s + p = Len(q)
    BY <1>3 DEF LineAt
  <2>2. \A k \in 1 .. p : s + k \in 1 .. Len(q)
    BY <1>2, <2>1
  <2>3. \A k \in 1 .. p : s + k <= Len(r) /\ r[s + k] = [line |-> L, pos |-> k]
    BY <1>1, <1>2, <1>3, <2>1, <2>2 DEF LineAt
  <2>4. s + (p + 1) = Len(q) + 1 /\ r[s + (p + 1)] = [line |-> L, pos |-> p + 1]
    BY <1>1, <1>2, <2>1
  <2>5. \A k \in 1 .. p + 1 : s + k <= Len(r) /\ r[s + k] = [line |-> L, pos |-> k]
    <3> TAKE k \in 1 .. p + 1
    <3>1. k \in 1 .. p \/ k = p + 1
      BY <1>2
    <3> QED BY <1>1, <2>3, <2>4, <3>1
  <2>6. s > 0 => ~Clean(r, s, T)
    <3>1. s > 0 => r[s] = q[s]
      BY <1>1, <1>2, <2>1
    <3> QED BY <1>3, <3>1 DEF LineAt, Clean
  <2> QED BY <1>1, <2>1, <2>4, <2>5, <2>6 DEF LineAt
<1>4. LineAt(q, Len(q) - p, L, p, ls, T)
  <2>1. CASE p > 0
    <3>1. /\ Len(q) \in 1 .. Len(q) /\ q[Len(q)].line = L /\ q[Len(q)].pos = p
          /\ Clean(q, Len(q), T)
      BY <1>1, <1>2, <2>1 DEF Clean, Byte
    <3> QED BY <3>1 DEF Intact, SentOf
  <2>2. CASE p = 0
    <3>1. ASSUME Len(q) > 0 PROVE ~Clean(q, Len(q), T)
      <4>1. SUFFICES ASSUME Clean(q, Len(q), T) PROVE FALSE
        OBVIOUS
      <4>2. Len(q) \in 1 .. Len(q) /\ q[Len(q)].pos = p
        BY <1>1, <3>1, <4>1, LastClean
      <4>3. q[Len(q)].pos \in Nat \ {0}
        BY <4>1, <4>2, CleanFacts
      <4> QED BY <2>2, <4>2, <4>3
    <3> QED BY <1>1, <2>2, <3>1 DEF LineAt
  <2> QED BY <1>2, <2>1, <2>2
<1>5. ASSUME NEW i \in 1 .. Len(r), Clean(r, i, T)
      PROVE  LET m == SentOf(ls, p + 1, r[i].line)
             IN  r[i].pos <= m /\ LineAt(r, i - r[i].pos, r[i].line, m, ls, T)
  <2>1. CASE i = Len(q) + 1
    <3>1. r[i].line = L /\ r[i].pos = p + 1 /\ i - r[i].pos = Len(q) - p
      BY <1>1, <1>2, <2>1
    <3>2. LineAt(r, Len(q) - p, L, p + 1, ls, T)
      BY <1>1, <1>2, <1>3, <1>4
    <3> QED BY <1>2, <3>1, <3>2 DEF SentOf
  <2>2. CASE i \in 1 .. Len(q)
    <3>1. r[i] = q[i] /\ Clean(q, i, T)
      BY <1>1, <1>5, <2>2
    <3> DEFINE m == SentOf(ls, p, q[i].line)
               s == i - q[i].pos
    <3>2. q[i].line \in 1 .. Len(ls) + 1 /\ q[i].pos \in Nat \ {0} /\ m \in Nat
      BY <2>2, <3>1, CleanFacts
    <3>3. q[i].pos <= m /\ LineAt(q, s, q[i].line, m, ls, T) /\ s \in Int
      BY <2>2, <3>1, <3>2 DEF Intact
    <3> HIDE DEF s, m
    <3>4. CASE q[i].line = L
      <4>1. m = p /\ SentOf(ls, p + 1, r[i].line) = p + 1
        BY <3>1, <3>4 DEF SentOf, m
      <4>2. LineAt(r, s, L, p + 1, ls, T)
        BY <1>3, <3>3, <3>4, <4>1
      <4> QED BY <1>2, <3>1, <3>2, <3>3, <3>4, <4>1, <4>2 DEF s
    <3>5. CASE q[i].line # L
      <4>1. SentOf(ls, p + 1, r[i].line) = m
        BY <3>1, <3>5 DEF SentOf, m
      <4>2. LineAt(r, s, q[i].line, m, ls, T)
        BY <1>1, <3>2, <3>3, <3>5, EndedLineStays
      <4> QED BY <3>1, <3>3, <4>1, <4>2 DEF s
    <3> QED BY <3>4, <3>5
  <2> QED BY <1>1, <2>1, <2>2
<1> QED BY <1>5 DEF Intact, r

\* The terminator goes behind the line it ends.
LEMMA IntactEnd ==
    ASSUME NEW q, NEW ls, NEW p, NEW T, Lined(q, ls, p), Intact(q, ls, p, T)
    PROVE  Intact(Append(q, NUL), Append(ls, p), 0, T)
<1> DEFINE r == Append(q, NUL)
           ls2 == Append(ls, p)
           L == Len(ls) + 1
<1>1. /\ r \in Seq(Item) /\ Len(r) = Len(q) + 1 /\ Len(q) \in Nat /\ r[Len(q) + 1] = NUL
      /\ \A i \in 1 .. Len(q) : r[i] = q[i]
      /\ \A i \in 1 .. Len(q) : Clean(r, i, T) <=> Clean(q, i, T)
  BY ItemFacts, AppendFacts DEF Lined
<1>2. /\ p \in Nat /\ Len(ls) \in Nat /\ q \in Seq(Item) /\ Len(ls2) = L /\ ls2[L] = p
      /\ \A l \in 1 .. Len(ls) : ls2[l] = ls[l]
  BY DEF Lined
<1>3. ~Clean(r, Len(q) + 1, T)
  BY <1>1, ItemAssumption DEF Clean
<1> HIDE DEF r, ls2
<1>4. ASSUME NEW i \in 1 .. Len(r), Clean(r, i, T)
      PROVE  LET m == SentOf(ls2, 0, r[i].line)
             IN  r[i].pos <= m /\ LineAt(r, i - r[i].pos, r[i].line, m, ls2, T)
  <2>1. i \in 1 .. Len(q) /\ r[i] = q[i] /\ Clean(q, i, T)
    BY <1>1, <1>3, <1>4
  <2> DEFINE m == SentOf(ls, p, q[i].line)
             s == i - q[i].pos
  <2>2. q[i].line \in 1 .. L /\ q[i].pos \in Nat \ {0} /\ m \in Nat
    BY <2>1, CleanFacts
  <2>3. q[i].pos <= m /\ LineAt(q, s, q[i].line, m, ls, T) /\ s \in Int
    BY <2>1, <2>2 DEF Intact
  <2>4. SentOf(ls2, 0, r[i].line) = m /\ q[i].line # Len(ls2) + 1
    <3>1. q[i].line # Len(ls2) + 1
      BY <1>2, <2>2
    <3>2. SentOf(ls2, 0, r[i].line) = ls2[q[i].line]
      BY <2>1, <3>1 DEF SentOf
    <3>3. q[i].line = L => ls2[q[i].line] = m
      BY <1>2 DEF SentOf
    <3>4. q[i].line # L => q[i].line \in 1 .. Len(ls)
      BY <1>2, <2>2
    <3>5. q[i].line # L => ls2[q[i].line] = m
      BY <1>2, <3>4 DEF SentOf
    <3> QED BY <3>1, <3>2, <3>3, <3>5
  <2> HIDE DEF s, m
  <2>5. CASE q[i].line = L
    <3>1. s >= 0 /\ s + m = Len(q)
      BY <2>3, <2>5 DEF LineAt
    <3>2. \A k \in 1 .. m : s + k \in 1 .. Len(q)
      BY <1>1, <2>2, <2>3, <3>1
    <3>3. \A k \in 1 .. m : s + k <= Len(r) /\ r[s + k] = [line |-> L, pos |-> k]
      BY <1>1, <2>3, <2>5, <3>1, <3>2 DEF LineAt
    <3>4. s > 0 => ~Clean(r, s, T)
      <4>1. s > 0 => r[s] = q[s]
        BY <1>1, <2>2, <2>3, <3>1
      <4> QED BY <2>3, <4>1 DEF LineAt, Clean
    <3>5. s + m < Len(r) /\ r[s + m + 1] = NUL
      BY <1>1, <3>1
    <3>6. LineAt(r, s, q[i].line, m, ls2, T)
      BY <2>4, <2>5, <3>1, <3>3, <3>4, <3>5 DEF LineAt
    <3> QED BY <2>1, <2>3, <2>4, <3>6 DEF s
  <2>6. CASE q[i].line # L
    <3>1. LineAt(r, s, q[i].line, m, ls2, T)
      BY <1>1, <2>2, <2>3, <2>4, <2>6, EndedLineStays
    <3> QED BY <2>1, <2>3, <2>4, <3>1 DEF s
  <2> QED BY <2>5, <2>6
<1> QED BY <1>4 DEF Intact, r, ls2

\* n characters leave the front, and no clean line is cut.
LEMMA IntactPop ==
    ASSUME NEW q, NEW ls, NEW p, NEW T, Lined(q, ls, p), Intact(q, ls, p, T), NEW n \in 0 .. Len(q),
           \A i \in n + 1 .. Len(q) : Clean(q, i, T) => i - q[i].pos >= n
    PROVE  Intact(SubSeq(q, n + 1, Len(q)), ls, p, T)
<1> DEFINE r == SubSeq(q, n + 1, Len(q))
<1>1. q \in Seq(Item) /\ Len(q) \in Nat /\ n \in Nat /\ n <= Len(q)
  BY DEF Lined
<1>2. Len(r) = Len(q) - n /\ \A i \in 1 .. Len(q) - n : r[i] = q[n + i]
  BY <1>1
<1> HIDE DEF r
<1>3. ASSUME NEW j \in 1 .. Len(r), Clean(r, j, T)
      PROVE  LET m == SentOf(ls, p, r[j].line)
             IN  r[j].pos <= m /\ LineAt(r, j - r[j].pos, r[j].line, m, ls, T)
  <2> DEFINE i == n + j
             l == q[i].line
             m == SentOf(ls, p, l)
             s == i - q[i].pos
             t == j - q[i].pos
  <2>1. i \in 1 .. Len(q) /\ i \in n + 1 .. Len(q) /\ r[j] = q[i] /\ Clean(q, i, T)
    BY <1>1, <1>2, <1>3 DEF Clean
  <2>2. q[i].pos \in Nat \ {0} /\ m \in Nat /\ l \in 1 .. Len(ls) + 1
    BY <2>1, CleanFacts
  <2>3. q[i].pos <= m /\ LineAt(q, s, l, m, ls, T) /\ s \in Int /\ s >= n /\ t \in Int /\ s = n + t
    BY <1>1, <2>1, <2>2 DEF Intact
  <2>4. r[j].pos <= m /\ r[j].line = l /\ t = j - r[j].pos
    BY <2>1, <2>3
  <2> HIDE DEF i, l, m, s, t
  <2>5. t >= 0
    BY <1>1, <2>3
  <2>6. \A k \in 1 .. m : t + k <= Len(r) /\ r[t + k] = [line |-> l, pos |-> k]
    <3> TAKE k \in 1 .. m
    <3>1. s + k <= Len(q) /\ q[s + k] = [line |-> l, pos |-> k]
      BY <2>3 DEF LineAt
    <3>2. t + k \in 1 .. Len(q) - n /\ n + (t + k) = s + k
      BY <1>1, <2>2, <2>3, <2>5, <3>1
    <3> QED BY <1>2, <3>1, <3>2
  <2>7. t > 0 => ~Clean(r, t, T)
    <3> SUFFICES ASSUME t > 0 PROVE ~Clean(r, t, T)
      OBVIOUS
    <3>1. s + m <= Len(q)
      BY <1>1, <2>2, <2>3 DEF LineAt
    <3>2. t \in 1 .. Len(q) - n /\ s > 0
      BY <1>1, <2>2, <2>3, <3>1
    <3>3. r[t] = q[s]
      BY <1>2, <2>3, <3>2
    <3> QED BY <2>3, <3>2, <3>3 DEF LineAt, Clean
  <2>8. l = Len(ls) + 1 => t + m = Len(r)
    <3> SUFFICES ASSUME l = Len(ls) + 1 PROVE t + m = Len(r)
      OBVIOUS
    <3>1. s + m = Len(q)
      BY <2>3 DEF LineAt
    <3>2. Len(r) = Len(q) - n
      BY <1>2
    <3> QED BY ONLY <1>1, <2>2, <2>3, <3>1, <3>2
  <2>9. l # Len(ls) + 1 => t + m < Len(r) /\ r[t + m + 1] = NUL
    <3> SUFFICES ASSUME l # Len(ls) + 1 PROVE t + m < Len(r) /\ r[t + m + 1] = NUL
      OBVIOUS
    <3>1. s + m < Len(q) /\ q[s + m + 1] = NUL
      BY <2>3 DEF LineAt
    <3>2. Len(r) = Len(q) - n /\ Len(q) \in Nat /\ n \in Nat
      BY <1>1, <1>2
    <3>3. t + m + 1 \in 1 .. Len(q) - n /\ n + (t + m + 1) = s + m + 1 /\ t + m < Len(r)
      BY ONLY <2>2, <2>3, <2>5, <3>1, <3>2
    <3> QED BY <1>2, <3>1, <3>3
  <2>10. LineAt(r, t, l, m, ls, T)
    BY <2>5, <2>6, <2>7, <2>8, <2>9 DEF LineAt
  <2> QED BY <2>4, <2>10 DEF m
<1> QED BY <1>3 DEF Intact, r

(* The invariant.                                                          *)

Cap == SERIAL_BUFFERS_SIZE

Last(q) == q[Len(q)]

\* The bytes of clean lines stand together in the ring; the line being sent
\* is at its end as long as it is clean, and then counted.
LineInv ==
    /\ Intact(Stored, lens, pos, torn)
    /\ Line \notin torn /\ pos > 0 => Len(Stored) > 0 /\ Last(Stored) = [line |-> Line, pos |-> pos]
    /\ NoneLast(Stored, torn) \/ received_chars > 0

NoneClean(q, T) == \A i \in 1 .. Len(q) : ~Clean(q, i, T)

\* What string_finished_ announces: a terminator to stop at, or a full ring
\* that had no room for it; and that a timed out read withdraws it.
FinishInv ==
    /\ string_finished_ => \/ \E i \in 1 .. Len(Stored) : Stored[i] = NUL
                           \/ Len(Stored) = Cap /\ NoneClean(Stored, torn)
    /\ pc = "read" => string_finished_ /\ ~timeout_detected
    /\ string_finished_ /\ timeout_detected => pc = "flush"

\* The reader may take characters out before another string is finished.
MayPop == string_finished_ \/ pc = "flush"

Marked(q, T, a, b) == \E i \in a .. b : ~Clean(q, i, T)

\* A clean line never fills the ring up to its last place, so that the
\* reader's array, which keeps that place free, cuts no terminator off.
RoomInv ==
    ~timeout_detected =>
        /\ Len(Stored) >= Cap - 1 => Marked(Stored, torn, 1, Cap - 1)
        /\ Len(Stored) = Cap /\ MayPop => Marked(Stored, torn, 2, Cap)
        /\ Len(Stored) = Cap - 1 /\ MayPop => ~Clean(Stored, Cap - 1, torn)

WholeInv == LineInv /\ FinishInv /\ RoomInv /\ WholeLine

\* What the invariant of the order says about the ring.
LEMMA Setting ==
    ASSUME IInv
    PROVE  /\ Lined(Stored, lens, pos) /\ Stored \in Seq(Item) /\ Len(Stored) \in Nat
           /\ Len(Stored) <= Cap /\ Cap \in Nat \ {0}
           /\ is_full(uart_buffer) <=> Len(Stored) = Cap
           /\ space_left(uart_buffer) = Cap - Len(Stored)
           /\ lens \in Seq(Nat) /\ Len(lens) \in Nat /\ pos \in Nat /\ Line = Len(lens) + 1
           /\ torn \in SUBSET (Nat \ {0})
<1>1. TypeOK
  BY DEF IInv
<1>2. Stored \in Seq(Item) /\ Len(Stored) = uart_buffer.current_size
  BY <1>1, StoredFacts
<1>3. uart_buffer.current_size \in 0 .. Cap /\ uart_buffer.capacity = Cap
  BY <1>1, SizeAssumption, RingFields DEF TypeOK, Cap
<1>4. lens \in Seq(Nat) /\ pos \in Nat /\ Line = Len(lens) + 1 /\ torn \in SUBSET (Nat \ {0})
  BY <1>1 DEF TypeOK, Line
<1>5. Lined(Stored, lens, pos)
  BY <1>2, <1>4 DEF IInv, OrderInv, Delivered, Lined
<1> QED BY <1>2, <1>3, <1>4, <1>5, SizeAssumption DEF is_full, space_left, Cap

\* The next byte is sent, or the line is ended.
LEMMA LinedLater ==
    ASSUME NEW q, NEW ls, NEW p, Lined(q, ls, p)
    PROVE  Lined(q, ls, p + 1) /\ Lined(q, Append(ls, p), 0)
<1>1. q \in Seq(Item) /\ ls \in Seq(Nat) /\ p \in Nat /\ Len(ls) \in Nat
  BY DEF Lined
<1>2. Append(ls, p) \in Seq(Nat) /\ Len(Append(ls, p)) = Len(ls) + 1
  BY <1>1
<1>3. SentBy(q, Len(ls) + 1, p + 1) /\ SentBy(q, Len(ls) + 1 + 1, 0)
  BY <1>1 DEF Lined, SentBy, Byte
<1> QED BY <1>1, <1>2, <1>3 DEF Lined

\* The line being sent tears.
LEMMA TornLast ==
    ASSUME NEW q, NEW ls, NEW p, NEW T, Lined(q, ls, p), Intact(q, ls, p, T), Len(ls) + 1 \in T
    PROVE  NoneLast(q, T)
<1> SUFFICES ASSUME Len(q) > 0, Clean(q, Len(q), T) PROVE FALSE
  BY DEF NoneLast
<1>1. q[Len(q)].line = Len(ls) + 1
  BY LastClean
<1> QED BY <1>1 DEF Clean

\* Marks and clean bytes when lines tear.
LEMMA CleanTorn ==
    ASSUME NEW q, NEW T, NEW U, T \subseteq U
    PROVE  /\ \A i : Clean(q, i, U) => Clean(q, i, T)
           /\ NoneLast(q, T) => NoneLast(q, U)
           /\ NoneClean(q, T) => NoneClean(q, U)
           /\ \A a, b : Marked(q, T, a, b) => Marked(q, U, a, b)
BY DEF Clean, NoneLast, NoneClean, Marked

\* A string that was handed out stays a whole line.
LEMMA WholeStays ==
    ASSUME IInv, WholeLine, got' = got, torn \subseteq torn',
           lens' = lens \/ lens' = Append(lens, pos)
    PROVE  WholeLine'
<1>1. lens \in Seq(Nat) /\ pos \in Nat
  BY Setting
<1>2. \A l \in DOMAIN lens : l \in DOMAIN lens' /\ lens'[l] = lens[l]
  BY <1>1
<1> SUFFICES ASSUME Lines(got) # {}, Lines(got) \cap torn' = {}
             PROVE  \E l \in DOMAIN lens' :
                       /\ Len(got) = lens'[l] + 1
                       /\ \A i \in 1 .. lens'[l] : got[i] = [line |-> l, pos |-> i]
                       /\ got[Len(got)] = NUL
  BY DEF WholeLine, Lines
<1>3. Lines(got) \cap torn = {}
  OBVIOUS
<1>4. PICK l \in DOMAIN lens :
         /\ Len(got) = lens[l] + 1
         /\ \A i \in 1 .. lens[l] : got[i] = [line |-> l, pos |-> i]
         /\ got[Len(got)] = NUL
  BY <1>3 DEF WholeLine
<1>5. l \in DOMAIN lens' /\ lens'[l] = lens[l]
  BY <1>2
<1> QED BY <1>4, <1>5

\* What the branches of the interrupt do to the ring, with room and without.
LEMMA BranchesExact ==
    ASSUME IInv, NEW b \in Byte
    PROVE  /\ RxEndOfLine => IF Len(Stored) = Cap THEN Stored' = Stored ELSE Stored' = Append(Stored, NUL)
           /\ RxNormal(b) => IF Len(Stored) = Cap THEN Stored' = Stored ELSE Stored' = Append(Stored, b)
           /\ RxNearlyFull(b) => /\ Len(Stored) = Cap - 2
                                 /\ Stored' = Append(Append(Stored, b), NUL)
<1> USE ItemFacts
<1>1. /\ uart_buffer \in Ring(SERIAL_BUFFERS_SIZE, Item) /\ Consistent(uart_buffer)
      /\ SERIAL_BUFFERS_SIZE \in Nat \ {0} /\ b \in Item
  BY SizeAssumption DEF IInv, TypeOK, RingConsistent
<1>2. \A it \in Item : /\ is_full(uart_buffer) => push(uart_buffer, it) = uart_buffer
                       /\ ~is_full(uart_buffer) => Contents(push(uart_buffer, it)) = Append(Stored, it)
  BY <1>1, PushAppends DEF Stored
<1>3. RxEndOfLine => IF Len(Stored) = Cap THEN Stored' = Stored ELSE Stored' = Append(Stored, NUL)
  BY <1>2, Setting DEF RxEndOfLine, Stored
<1>4. RxNormal(b) => IF Len(Stored) = Cap THEN Stored' = Stored ELSE Stored' = Append(Stored, b)
  BY <1>1, <1>2, Setting DEF RxNormal, Stored
<1>5. ASSUME RxNearlyFull(b)
      PROVE  Len(Stored) = Cap - 2 /\ Stored' = Append(Append(Stored, b), NUL)
  <2>1. Len(Stored) = Cap - 2 /\ Len(Stored) \in Nat /\ Cap \in Nat /\ Stored \in Seq(Item)
    BY <1>5, Setting DEF RxNearlyFull
  <2> DEFINE one == push(uart_buffer, b)
  <2>2. /\ one \in Ring(SERIAL_BUFFERS_SIZE, Item) /\ Consistent(one)
        /\ Contents(one) = Append(Stored, b)
    BY <1>1, <1>2, <2>1, Setting, PushAppends
  <2>3. Stored' = Contents(push(one, NUL))
    BY <1>5 DEF RxNearlyFull, Stored
  <2> HIDE DEF one
  <2>4. Len(Contents(one)) = one.current_size /\ one.capacity = Cap
    BY <1>1, <2>2, ContentsSeq, RingFields DEF Cap
  <2>5. ~is_full(one)
    BY <1>1, <2>1, <2>2, <2>4 DEF is_full
  <2>6. Stored' = Append(Contents(one), NUL)
    BY <1>1, <2>2, <2>3, <2>5, PushAppends
  <2> QED BY <2>1, <2>2, <2>6
<1> QED BY <1>3, <1>4, <1>5

(* The steps.                                                              *)

\* The interrupt's step as the sensor and the reader see it.
Arrival ==
    /\ (pos' = pos + 1 /\ lens' = lens) \/ (pos' = 0 /\ lens' = Append(lens, pos))
    /\ UNCHANGED <<pc, got>>

LEMMA ResetWhole ==
    ASSUME IInv, WholeInv, Cap > 2, Arrival, RxAfterTimeout
    PROVE  WholeInv'
<1> USE DEF WholeInv
<1>1. Stored' = << >> /\ Len(Stored') = 0
  <2>1. Contents(reset(uart_buffer)) = << >>
    BY ResetStored DEF IInv
  <2> QED BY <2>1 DEF RxAfterTimeout, Stored
<1>2. Line \in torn' /\ torn \subseteq torn' /\ ~string_finished_' /\ ~timeout_detected'
  BY DEF RxAfterTimeout
<1>3. LineInv'
  <2>1. Intact(Stored', lens', pos', torn') /\ NoneLast(Stored', torn')
    BY <1>1 DEF Intact, NoneLast
  <2>2. Line' \notin torn' => pos' = 0
    BY <1>2 DEF Arrival, Line
  <2> QED BY <2>1, <2>2 DEF LineInv
<1>4. FinishInv'
  <2>1. pc = "read" => ~timeout_detected
    BY DEF FinishInv
  <2> QED BY <1>2, <2>1 DEF FinishInv, Arrival, RxAfterTimeout
<1>5. RoomInv'
  BY <1>1, Setting DEF RoomInv
<1>6. WholeLine'
  BY <1>2, WholeStays DEF Arrival
<1> QED BY <1>3, <1>4, <1>5, <1>6

\* The line being sent tears and nothing is stored: a character was lost in
\* the hardware or found the ring full.
LEMMA LostWhole ==
    ASSUME IInv, WholeInv, Cap > 2, Arrival, Stored' = Stored, torn' = torn \cup {Line},
           UNCHANGED timeout_detected,
           \/ UNCHANGED string_finished_
           \/ string_finished_' /\ ~timeout_detected /\ Len(Stored) = Cap
    PROVE  WholeInv'
<1> USE DEF WholeInv
<1>1. Lined(Stored, lens, pos) /\ Line = Len(lens) + 1 /\ pos \in Nat /\ Len(Stored) \in Nat
  BY Setting
<1>2. Intact(Stored, lens, pos, torn')
  BY IntactTorn DEF LineInv
<1>3. NoneLast(Stored, torn')
  BY <1>1, <1>2, TornLast
<1>4. LineInv'
  <2>1. pos + 1 \in Nat
    BY <1>1
  <2>2. Intact(Stored, lens, pos + 1, torn') /\ Intact(Stored, Append(lens, pos), 0, torn')
    BY <1>1, <1>2, <1>3, <2>1, IntactUnseen
  <2>3. Intact(Stored', lens', pos', torn')
    BY <2>2 DEF Arrival
  <2>4. Line' \notin torn' => pos' = 0
    BY DEF Arrival, Line
  <2> QED BY <1>3, <2>3, <2>4 DEF LineInv
<1>5. FinishInv'
  <2>1. NoneClean(Stored, torn) => NoneClean(Stored, torn')
    BY CleanTorn
  <2>2. CASE \E i \in 1 .. Len(Stored) : Stored[i] = NUL
    BY <2>2 DEF FinishInv, Arrival
  <2>3. CASE \A i \in 1 .. Len(Stored) : Stored[i] # NUL
    <3>1. ASSUME NEW i \in 1 .. Len(Stored), Clean(Stored, i, torn') PROVE FALSE
      <4> DEFINE q == Stored
                 m == SentOf(lens, pos, q[i].line)
                 s == i - q[i].pos
      <4>1. q[i].line \in 1 .. Len(lens)
        BY <1>1, <1>2, <1>3, <3>1, NoneLastEarlier
      <4>2. q[i].pos \in Nat \ {0} /\ m \in Nat
        BY <1>1, <3>1, CleanFacts
      <4>3. LineAt(q, s, q[i].line, m, lens, torn')
        BY <1>2, <3>1 DEF Intact
      <4>0. s \in Int /\ q[i].line # Len(lens) + 1
        BY <1>1, <4>1, <4>2, Setting
      <4> HIDE DEF q, m, s
      <4>4. s >= 0 /\ s + m < Len(q) /\ q[s + m + 1] = NUL
        BY <4>0, <4>3 DEF LineAt
      <4>5. s + m + 1 \in 1 .. Len(q)
        BY <1>1, <4>0, <4>2, <4>4 DEF q
      <4> QED BY <2>3, <4>4, <4>5 DEF q
    <3>2. NoneClean(Stored, torn')
      BY <3>1 DEF NoneClean
    <3>3. string_finished_ => Len(Stored) = Cap
      BY <2>3 DEF FinishInv
    <3> QED BY <3>2, <3>3 DEF FinishInv, Arrival
  <2> QED BY <2>2, <2>3
<1>6. RoomInv'
  <2>1. \A a, b : Marked(Stored, torn, a, b) => Marked(Stored, torn', a, b)
    BY CleanTorn
  <2>2. ~Clean(Stored, Cap - 1, torn) => ~Clean(Stored, Cap - 1, torn')
    BY DEF Clean
  <2>3. Len(Stored) = Cap => Marked(Stored, torn', 2, Cap)
    <3>1. Len(Stored) = Cap => Cap \in 2 .. Cap /\ ~Clean(Stored, Cap, torn')
      BY <1>1, <1>3 DEF NoneLast
    <3> QED BY <3>1 DEF Marked
  <2>4. Len(Stored) = Cap - 1 => (MayPop' => MayPop)
    <3>1. Len(Stored) = Cap - 1 => Len(Stored) # Cap
      BY Setting
    <3> QED BY <3>1 DEF MayPop, Arrival
  <2> QED BY <2>1, <2>2, <2>3, <2>4 DEF RoomInv
<1>7. WholeLine'
  BY WholeStays DEF Arrival
<1> QED BY <1>4, <1>5, <1>6, <1>7

\* A terminator ends the line being sent.
LEMMA EndWhole ==
    ASSUME IInv, WholeInv, Cap > 2, pos' = 0, lens' = Append(lens, pos), UNCHANGED <<pc, got>>,
           Stored' = Append(Stored, NUL), Len(Stored) # Cap, UNCHANGED <<torn, timeout_detected>>,
           string_finished_', ~timeout_detected
    PROVE  WholeInv'
<1> USE DEF WholeInv
<1>1. /\ Lined(Stored, lens, pos) /\ Stored \in Seq(Item) /\ Len(Stored) \in Nat /\ Cap \in Nat
      /\ Len(Stored) <= Cap
  BY Setting
<1>2. /\ Len(Stored') = Len(Stored) + 1 /\ Stored'[Len(Stored) + 1] = NUL
      /\ \A i \in 1 .. Len(Stored) : Clean(Stored', i, torn) <=> Clean(Stored, i, torn)
  BY <1>1, ItemFacts, AppendFacts
<1>3. ~Clean(Stored', Len(Stored) + 1, torn)
  BY <1>2, ItemAssumption DEF Clean
<1>4. LineInv'
  <2>1. Intact(Stored', lens', pos', torn')
    BY <1>1, IntactEnd DEF LineInv
  <2>2. NoneLast(Stored', torn')
    BY <1>2, <1>3 DEF NoneLast
  <2> QED BY <2>1, <2>2 DEF LineInv
<1>5. FinishInv'
  <2>1. Len(Stored) + 1 \in 1 .. Len(Stored') /\ Stored'[Len(Stored) + 1] = NUL
    BY <1>1, <1>2
  <2> QED BY <2>1 DEF FinishInv
<1>6. RoomInv'
  <2>1. CASE Len(Stored) < Cap - 2
    BY <1>1, <1>2, <2>1 DEF RoomInv
  <2>2. CASE Len(Stored) = Cap - 2
    <3>1. Len(Stored') = Cap - 1 /\ ~Clean(Stored', Cap - 1, torn') /\ Cap - 1 \in 1 .. Cap - 1
      BY <1>1, <1>2, <1>3, <2>2
    <3> QED BY <1>1, <3>1 DEF RoomInv, Marked
  <2>3. CASE Len(Stored) = Cap - 1
    <3>1. Len(Stored') = Cap /\ ~Clean(Stored', Cap, torn') /\ Cap \in 2 .. Cap
      BY <1>1, <1>2, <1>3, <2>3
    <3>2. Marked(Stored', torn', 2, Cap)
      BY <3>1 DEF Marked
    <3>3. PICK i \in 1 .. Cap - 1 : ~Clean(Stored, i, torn)
      BY <1>1, <2>3 DEF RoomInv, Marked
    <3>4. Marked(Stored', torn', 1, Cap - 1)
      BY <1>2, <2>3, <3>3 DEF Marked
    <3>5. Cap' = Cap /\ Cap # Cap - 1
      BY <1>1 DEF Cap
    <3> QED BY ONLY <3>1, <3>2, <3>4, <3>5 DEF RoomInv
  <2>4. Len(Stored) < Cap - 2 \/ Len(Stored) = Cap - 2 \/ Len(Stored) = Cap - 1
    BY ONLY <1>1, Len(Stored) # Cap
  <2> QED BY ONLY <2>1, <2>2, <2>3, <2>4
<1>7. WholeLine'
  BY WholeStays
<1> QED BY <1>4, <1>5, <1>6, <1>7

\* A byte is stored.
LEMMA ByteWhole ==
    ASSUME IInv, WholeInv, Cap > 2, pos' = pos + 1, UNCHANGED <<lens, pc, got>>,
           NEW b \in Byte, b = [line |-> Line, pos |-> pos + 1],
           Stored' = Append(Stored, b), Len(Stored) # Cap, Len(Stored) # Cap - 2,
           UNCHANGED <<torn, timeout_detected, string_finished_>>, received_chars' > 0
    PROVE  WholeInv'
<1> USE DEF WholeInv
<1>1. /\ Lined(Stored, lens, pos) /\ Stored \in Seq(Item) /\ Len(Stored) \in Nat /\ Cap \in Nat
      /\ Len(Stored) <= Cap /\ Line = Len(lens) + 1 /\ pos \in Nat
  BY Setting
<1>2. /\ Len(Stored') = Len(Stored) + 1 /\ Stored'[Len(Stored) + 1] = b
      /\ \A i \in 1 .. Len(Stored) : Stored'[i] = Stored[i]
      /\ \A i \in 1 .. Len(Stored) : Clean(Stored', i, torn) <=> Clean(Stored, i, torn)
  BY <1>1, ItemFacts, AppendFacts
<1>3. LineInv'
  <2>1. Intact(Stored', lens, pos + 1, torn)
    <3>1. CASE Line \in torn
      <4>1. NoneLast(Stored, torn)
        BY <1>1, <3>1, TornLast DEF LineInv
      <4>2. Intact(Stored, lens, pos + 1, torn)
        <5>1. Intact(Stored, lens, pos, torn) /\ pos + 1 \in Nat
          BY <1>1 DEF LineInv
        <5> QED BY <1>1, <4>1, <5>1, IntactUnseen
      <4>3. Lined(Stored, lens, pos + 1)
        BY <1>1, LinedLater
      <4>4. b \in Item /\ b.line \in torn
        BY <3>1, ItemFacts
      <4> QED BY <4>1, <4>2, <4>3, <4>4, IntactAppend
    <3>2. CASE Line \notin torn
      <4>1. pos > 0 => Len(Stored) > 0 /\ Stored[Len(Stored)] = [line |-> Line, pos |-> pos]
        BY <3>2 DEF LineInv, Last
      <4>2. Intact(Stored, lens, pos, torn)
        BY DEF LineInv
      <4> QED BY <1>1, <3>2, <4>1, <4>2, IntactByte
    <3> QED BY <3>1, <3>2
  <2>2. Line' = Line /\ Len(Stored') > 0 /\ Last(Stored)' = b
    BY <1>1, <1>2 DEF Line, Last
  <2> QED BY <2>1, <2>2 DEF LineInv
<1>4. FinishInv'
  <2>1. (\E i \in 1 .. Len(Stored) : Stored[i] = NUL) => (\E i \in 1 .. Len(Stored') : Stored'[i] = NUL)
    BY <1>1, <1>2
  <2> QED BY <2>1 DEF FinishInv
<1>5. RoomInv'
  <2>1. CASE Len(Stored) < Cap - 2
    BY <1>1, <1>2, <2>1 DEF RoomInv
  <2>2. CASE Len(Stored) = Cap - 1 /\ ~timeout_detected
    <3>1. Len(Stored') = Cap /\ MayPop' = MayPop
      BY <1>1, <1>2, <2>2 DEF MayPop
    <3>2. PICK i \in 1 .. Cap - 1 : ~Clean(Stored, i, torn)
      BY <1>1, <2>2 DEF RoomInv, Marked
    <3>3. Marked(Stored', torn', 1, Cap - 1)
      BY <1>2, <2>2, <3>2 DEF Marked
    <3>4. MayPop => ~Clean(Stored', Cap - 1, torn') /\ Cap - 1 \in 2 .. Cap
      <4>1. Cap - 1 \in 1 .. Len(Stored) /\ Cap - 1 \in 2 .. Cap
        BY <1>1, <2>2
      <4>2. MayPop => ~Clean(Stored, Cap - 1, torn)
        BY <2>2 DEF RoomInv
      <4> QED BY <1>2, <4>1, <4>2
    <3>5. MayPop => Marked(Stored', torn', 2, Cap)
      BY <3>4 DEF Marked
    <3> QED BY <1>1, <3>1, <3>3, <3>5 DEF RoomInv, MayPop
  <2>3. CASE timeout_detected
    BY <2>3 DEF RoomInv
  <2>4. Len(Stored) < Cap - 2 \/ Len(Stored) = Cap - 1
    BY <1>1
  <2> QED BY <2>1, <2>2, <2>3, <2>4
<1>6. WholeLine'
  BY WholeStays
<1> QED BY <1>3, <1>4, <1>5, <1>6

\* The last byte the ring has room for, with a terminator: the line is torn.
LEMMA NearlyFullWhole ==
    ASSUME IInv, WholeInv, Cap > 2, pos' = pos + 1, UNCHANGED <<lens, pc, got>>,
           NEW b \in Byte, b = [line |-> Line, pos |-> pos + 1],
           Stored' = Append(Append(Stored, b), NUL), Len(Stored) = Cap - 2,
           torn' = torn \cup {Line}, ~timeout_detected, ~timeout_detected', string_finished_'
    PROVE  WholeInv'
<1> USE DEF WholeInv
<1>1. /\ Lined(Stored, lens, pos) /\ Stored \in Seq(Item) /\ Len(Stored) \in Nat /\ Cap \in Nat
      /\ Line = Len(lens) + 1 /\ pos \in Nat /\ NUL \in Item /\ b \in Item
  BY Setting, ItemFacts
<1> DEFINE one == Append(Stored, b)
<1>2. one \in Seq(Item) /\ Len(one) = Cap - 1 /\ one[Cap - 1] = b
  BY <1>1
<1>3. one \in Seq(Item) /\ Stored' = Append(one, NUL)
  BY <1>2
<1>4. /\ Len(Stored') = Cap /\ Stored'[Cap] = NUL /\ Stored'[Cap - 1] = b
      /\ Cap - 1 \in 1 .. Cap - 1 /\ Cap - 1 \in 2 .. Cap
  BY <1>1, <1>2
<1>5. ~Clean(Stored', Cap - 1, torn') /\ ~Clean(Stored', Cap, torn')
  BY <1>4, ItemAssumption DEF Clean
<1>6. LineInv'
  <2>1. Intact(Stored, lens, pos, torn')
    BY IntactTorn DEF LineInv
  <2>2. NoneLast(Stored, torn')
    BY <1>1, <2>1, TornLast
  <2>3. pos + 1 \in Nat /\ Lined(Stored, lens, pos + 1)
    BY <1>1, LinedLater
  <2>4. Intact(Stored, lens, pos + 1, torn')
    BY <1>1, <2>1, <2>2, <2>3, IntactUnseen
  <2>5. Intact(one, lens, pos + 1, torn') /\ NoneLast(one, torn')
    <3>1. b.line \in torn'
      OBVIOUS
    <3> QED BY <1>1, <2>2, <2>3, <2>4, <3>1, IntactAppend
  <2>6. Lined(one, lens, pos + 1)
    <3>1. SentBy(one, Line, pos + 1)
      <4>1. Delivered(got, one, Line, pos + 1)
        BY <1>1, DeliveredByte DEF IInv, OrderInv, TypeOK
      <4> QED BY <4>1 DEF Delivered
    <3> QED BY <1>1, <1>3, <3>1, <2>3 DEF Lined
  <2> HIDE DEF one
  <2>7. Intact(Append(one, NUL), lens, pos + 1, torn') /\ NoneLast(Append(one, NUL), torn')
    BY <1>1, <2>5, <2>6, ItemAssumption, IntactAppend
  <2>8. Line' \in torn'
    BY DEF Line
  <2> QED BY <1>3, <2>7, <2>8 DEF LineInv
<1>7. FinishInv'
  <2>1. Cap \in 1 .. Len(Stored') /\ Stored'[Cap] = NUL
    BY <1>1, <1>4
  <2> QED BY <2>1 DEF FinishInv
<1>8. RoomInv'
  <2>1. Marked(Stored', torn', 1, Cap - 1) /\ Marked(Stored', torn', 2, Cap)
    BY <1>4, <1>5 DEF Marked
  <2> QED BY <1>1, <1>4, <1>5, <2>1 DEF RoomInv
<1>9. WholeLine'
  BY WholeStays
<1> QED BY <1>6, <1>7, <1>8, <1>9

\* A terminator behind no character is ignored.
LEMMA EmptyWhole ==
    ASSUME IInv, WholeInv, Cap > 2, pos' = 0, lens' = Append(lens, pos), UNCHANGED <<pc, got>>,
           RxEmptyLine
    PROVE  WholeInv'
<1> USE DEF WholeInv
<1>1. Lined(Stored, lens, pos) /\ pos \in Nat
  BY Setting
<1>2. /\ Stored' = Stored /\ torn' = torn /\ received_chars' = received_chars /\ received_chars = 0
      /\ UNCHANGED <<string_finished_, timeout_detected>>
  BY DEF RxEmptyLine, serial, Stored
<1>3. NoneLast(Stored, torn)
  BY <1>2 DEF LineInv
<1>4. LineInv'
  <2>1. Intact(Stored, Append(lens, pos), 0, torn)
    BY <1>1, <1>3, IntactUnseen DEF LineInv
  <2> QED BY <1>2, <1>3, <2>1 DEF LineInv
<1>5. FinishInv' /\ RoomInv'
  BY <1>2 DEF FinishInv, RoomInv, MayPop
<1>6. WholeLine'
  BY <1>2, WholeStays
<1> QED BY <1>4, <1>5, <1>6

\* The reader takes n characters and cuts no clean line.
LEMMA PopWhole ==
    ASSUME IInv, WholeInv, Cap > 2, MayPop, NEW n \in 0 .. Len(Stored), LoopEnds(n),
           Stored' = SubSeq(Stored, n + 1, Len(Stored)), torn \subseteq torn',
           UNCHANGED <<lens, pos, received_chars, timeout_detected>>, ~string_finished_', pc' = "wait",
           \A i \in n + 1 .. Len(Stored) : Clean(Stored, i, torn') => i - Stored[i].pos >= n,
           n = Len(Stored) => Line \in torn' \/ pos = 0
    PROVE  LineInv' /\ FinishInv' /\ RoomInv'
<1> USE DEF WholeInv
<1>1. /\ Lined(Stored, lens, pos) /\ Stored \in Seq(Item) /\ Len(Stored) \in Nat /\ Cap \in Nat
      /\ Len(Stored) <= Cap /\ n \in Nat /\ n <= Len(Stored) /\ pos \in Nat
  BY Setting
<1>2. /\ Len(Stored') = Len(Stored) - n
      /\ \A i \in 1 .. Len(Stored) - n : Stored'[i] = Stored[n + i]
  BY <1>1
<1>3. LineInv'
  <2>1. Intact(Stored, lens, pos, torn')
    BY IntactTorn DEF LineInv
  <2>2. Intact(Stored', lens', pos', torn')
    BY <1>1, <2>1, IntactPop
  <2>3. n < Len(Stored) => Last(Stored') = Last(Stored) /\ Len(Stored') > 0 /\ Len(Stored) > 0
    <3> SUFFICES ASSUME n < Len(Stored)
                 PROVE  Last(Stored') = Last(Stored) /\ Len(Stored') > 0 /\ Len(Stored) > 0
      OBVIOUS
    <3>1. /\ Len(Stored) - n \in 1 .. Len(Stored) - n /\ n + (Len(Stored) - n) = Len(Stored)
          /\ Len(Stored) - n > 0 /\ Len(Stored) > 0
      BY <1>1
    <3> QED BY <1>2, <3>1 DEF Last
  <2>4. Line' \notin torn' /\ pos' > 0
          => Len(Stored') > 0 /\ Last(Stored') = [line |-> Line', pos |-> pos']
    <3> SUFFICES ASSUME Line \notin torn', pos > 0
                 PROVE  Len(Stored') > 0 /\ Last(Stored') = [line |-> Line, pos |-> pos]
      BY DEF Line
    <3>1. n < Len(Stored)
      BY <1>1
    <3> QED BY <2>3, <3>1 DEF LineInv
  <2>5. NoneLast(Stored, torn) => NoneLast(Stored', torn')
    <3> SUFFICES ASSUME NoneLast(Stored, torn), Len(Stored') > 0 PROVE ~Clean(Stored', Len(Stored'), torn')
      BY DEF NoneLast
    <3>1. n < Len(Stored)
      BY <1>1, <1>2
    <3>2. Stored'[Len(Stored')] = Stored[Len(Stored)] /\ Len(Stored) > 0
      BY <2>3, <3>1 DEF Last
    <3> QED BY <3>2 DEF NoneLast, Clean
  <2> QED BY <2>2, <2>4, <2>5 DEF LineInv
<1>4. FinishInv'
  BY DEF FinishInv
<1>5. RoomInv'
  <2>1. ~MayPop'
    BY DEF MayPop
  <2>2. ASSUME ~timeout_detected, Len(Stored') >= Cap - 1
        PROVE  Marked(Stored', torn', 1, Cap - 1)
    <3>1. Len(Stored) # 0 /\ n # 0
      BY <1>1, <1>2, <2>2 DEF LoopEnds
    <3>2. n = 1 /\ Len(Stored) = Cap
      BY <1>1, <1>2, <2>2, <3>1
    <3>3. PICK i \in 2 .. Cap : ~Clean(Stored, i, torn)
      BY <2>2, <3>2 DEF RoomInv, Marked
    <3>4. i - 1 \in 1 .. Cap - 1 /\ Stored'[i - 1] = Stored[i]
      <4>1. i - 1 \in 1 .. Len(Stored) - n /\ n + (i - 1) = i
        BY <1>1, <3>2
      <4> QED BY <1>2, <3>2, <4>1
    <3>5. ~Clean(Stored', i - 1, torn')
      BY <3>3, <3>4 DEF Clean
    <3> QED BY <3>4, <3>5 DEF Marked
  <2> QED BY <2>1, <2>2 DEF RoomInv
<1> QED BY <1>3, <1>4, <1>5

\* Where a clean byte's line begins.
LEMMA CleanStart ==
    ASSUME NEW q, NEW ls, NEW p, NEW T, Lined(q, ls, p), Intact(q, ls, p, T),
           NEW i \in 1 .. Len(q), Clean(q, i, T)
    PROVE  /\ i - q[i].pos \in 0 .. i - 1
           /\ \A j \in i - q[i].pos + 1 .. i : q[j] \in Byte /\ q[j].line = q[i].line
<1> DEFINE m == SentOf(ls, p, q[i].line)
           s == i - q[i].pos
<1>1. q[i].line \in Nat \ {0} /\ q[i].pos \in Nat \ {0} /\ m \in Nat
  BY CleanFacts DEF Clean, Byte
<1>2. q[i].pos <= m /\ LineAt(q, s, q[i].line, m, ls, T)
  BY DEF Intact
<1>3. i \in Nat /\ s \in Int /\ s < i /\ i <= s + m
  BY <1>1, <1>2 DEF Lined
<1> HIDE DEF m, s
<1>4. s >= 0
  BY <1>2 DEF LineAt
<1>5. ASSUME NEW j \in s + 1 .. i PROVE q[j] \in Byte /\ q[j].line = q[i].line
  <2>1. j - s \in 1 .. m /\ s + (j - s) = j /\ j - s \in Nat \ {0}
    BY <1>1, <1>3
  <2>2. q[s + (j - s)] = [line |-> q[i].line, pos |-> j - s]
    BY <1>2, <2>1 DEF LineAt
  <2>3. q[j] = [line |-> q[i].line, pos |-> j - s]
    BY <2>1, <2>2
  <2> QED BY <1>1, <2>1, <2>3 DEF Byte
<1> QED BY <1>3, <1>4, <1>5 DEF s

LEMMA TimedOutWhole ==
    ASSUME IInv, WholeInv, Cap > 2, ReadTimedOut
    PROVE  WholeInv'
<1> USE DEF WholeInv
<1>1. /\ Lined(Stored, lens, pos) /\ Stored \in Seq(Item) /\ Len(Stored) \in Nat /\ pos \in Nat
  BY Setting
<1>2. PICK n \in 0 .. Len(Stored) : /\ read_from_receive_buffer(n)
                                    /\ torn' = torn \cup Lines(SubSeq(Stored, 1, n))
  BY DEF ReadTimedOut
<1>3. /\ LoopEnds(n) /\ ~string_finished_' /\ UNCHANGED <<received_chars, timeout_detected>>
      /\ Stored' = SubSeq(Stored, n + 1, Len(Stored))
  BY <1>2, PopStored DEF read_from_receive_buffer, Stored, IInv
<1>4. pc = "flush" /\ pc' = "wait" /\ UNCHANGED <<lens, pos, got>> /\ MayPop
  BY DEF ReadTimedOut, env, MayPop
<1>5. \A i \in 1 .. n : Stored[i] \in Byte => Stored[i].line \in torn'
  <2>1. DOMAIN SubSeq(Stored, 1, n) = 1 .. n /\ \A i \in 1 .. n : SubSeq(Stored, 1, n)[i] = Stored[i]
    BY <1>1
  <2> QED BY <1>2, <2>1 DEF Lines
<1>6. ASSUME NEW i \in n + 1 .. Len(Stored), Clean(Stored, i, torn')
      PROVE  i - Stored[i].pos >= n
  <2>1. i \in 1 .. Len(Stored) /\ i \in Nat /\ n \in Nat
    BY <1>1
  <2>2. Intact(Stored, lens, pos, torn')
    BY <1>2, IntactTorn DEF LineInv
  <2>3. /\ i - Stored[i].pos \in 0 .. i - 1
        /\ \A j \in i - Stored[i].pos + 1 .. i : Stored[j] \in Byte /\ Stored[j].line = Stored[i].line
    BY <1>1, <1>6, <2>1, <2>2, CleanStart
  <2>4. SUFFICES ASSUME i - Stored[i].pos < n PROVE FALSE
    BY <2>1, <2>3
  <2>5. n \in i - Stored[i].pos + 1 .. i /\ n \in 1 .. n
    BY <2>1, <2>3, <2>4
  <2>6. Stored[i].line \in torn'
    BY <1>5, <2>3, <2>5
  <2> QED BY <1>6, <2>6 DEF Clean
<1>7. n = Len(Stored) => Line \in torn' \/ pos = 0
  <2> SUFFICES ASSUME n = Len(Stored), Line \notin torn', pos > 0 PROVE FALSE
    BY <1>1
  <2>1. Len(Stored) > 0 /\ Stored[Len(Stored)] = [line |-> Line, pos |-> pos]
    BY <1>2 DEF LineInv, Last
  <2>2. Stored[n] \in Byte /\ Stored[n].line = Line /\ n \in 1 .. n
    BY <1>1, <2>1, Setting DEF Byte
  <2> QED BY <1>5, <2>2
<1>8. LineInv' /\ FinishInv' /\ RoomInv'
  BY <1>2, <1>3, <1>4, <1>6, <1>7, PopWhole
<1>9. WholeLine'
  BY <1>2, <1>4, WholeStays
<1> QED BY <1>8, <1>9

LEMMA FinishedWhole ==
    ASSUME IInv, WholeInv, Cap > 2, ReadFinished
    PROVE  WholeInv'
<1> USE DEF WholeInv
<1>1. /\ Lined(Stored, lens, pos) /\ Stored \in Seq(Item) /\ Len(Stored) \in Nat /\ pos \in Nat
      /\ Len(Stored) <= Cap /\ Cap \in Nat /\ Line = Len(lens) + 1 /\ Len(lens) \in Nat
  BY Setting
<1>2. PICK n \in 0 .. Len(Stored) : read_from_receive_buffer(n) /\ got' = Returned(n)
  BY DEF ReadFinished
<1>3. /\ LoopEnds(n) /\ ~string_finished_' /\ UNCHANGED <<received_chars, timeout_detected>>
      /\ Stored' = SubSeq(Stored, n + 1, Len(Stored))
  BY <1>2, PopStored DEF read_from_receive_buffer, Stored, IInv
<1>4. /\ pc = "read" /\ pc' = "wait" /\ UNCHANGED <<lens, pos, torn>> /\ string_finished_ /\ MayPop
      /\ ~timeout_detected /\ n \in Nat /\ n <= Len(Stored)
  BY <1>1 DEF ReadFinished, env, FinishInv, MayPop
\* A terminator is in the ring, and the loop ends at the first; or nothing
\* in it is clean, and the loop takes everything.
<1>5. \/ n > 0 /\ Stored[n] = NUL
      \/ NoneClean(Stored, torn) /\ n = Len(Stored)
  <2>1. CASE \E i \in 1 .. Len(Stored) : Stored[i] = NUL
    <3>1. PICK i \in 1 .. Len(Stored) : Stored[i] = NUL
      BY <2>1
    <3>2. i >= n
      BY <1>1, <1>3, <1>4, <3>1 DEF LoopEnds
    <3>3. n = Len(Stored) => i = n /\ n > 0
      BY <1>1, <3>1, <3>2
    <3> QED BY <1>3, <3>1, <3>3 DEF LoopEnds
  <2>2. CASE \A i \in 1 .. Len(Stored) : Stored[i] # NUL
    <3>1. NoneClean(Stored, torn)
      BY <1>4, <2>2 DEF FinishInv
    <3>2. n > 0 => n \in 1 .. Len(Stored)
      BY <1>1, <1>4
    <3> QED BY <1>3, <2>2, <3>1, <3>2 DEF LoopEnds
  <2> QED BY <2>1, <2>2
<1>6. NUL \notin Byte
  BY ItemAssumption
<1>7. ASSUME NEW i \in n + 1 .. Len(Stored), Clean(Stored, i, torn)
      PROVE  i - Stored[i].pos >= n
  <2>1. i \in 1 .. Len(Stored) /\ i \in Nat
    BY <1>1, <1>4
  <2>2. n > 0 /\ Stored[n] = NUL
    BY <1>5, <1>7, <2>1 DEF NoneClean
  <2>3. /\ i - Stored[i].pos \in 0 .. i - 1
        /\ \A j \in i - Stored[i].pos + 1 .. i : Stored[j] \in Byte /\ Stored[j].line = Stored[i].line
    BY <1>1, <1>7, <2>1, CleanStart DEF LineInv
  <2>4. SUFFICES ASSUME i - Stored[i].pos < n PROVE FALSE
    BY <1>4, <2>1, <2>3
  <2>5. n \in i - Stored[i].pos + 1 .. i
    BY <1>4, <2>1, <2>3, <2>4
  <2> QED BY <1>6, <2>2, <2>3, <2>5
<1>8. n = Len(Stored) => Line \in torn \/ pos = 0
  <2> SUFFICES ASSUME n = Len(Stored), Line \notin torn, pos > 0 PROVE FALSE
    BY <1>1
  <2>1. Len(Stored) > 0 /\ Stored[Len(Stored)] = [line |-> Line, pos |-> pos]
    BY DEF LineInv, Last
  <2>2. Stored[n] \in Byte /\ Stored[n].line = Line /\ n \in 1 .. Len(Stored)
    BY <1>1, <2>1 DEF Byte
  <2> QED BY <1>5, <1>6, <2>2 DEF NoneClean, Clean
<1>9. LineInv' /\ FinishInv' /\ RoomInv'
  BY <1>3, <1>4, <1>7, <1>8, PopWhole
<1>10. WholeLine'
  <2> DEFINE k == IF n < SERIAL_BUFFERS_SIZE THEN n ELSE n - 1
  <2>1. got' = SubSeq(Stored, 1, k) /\ k \in 0 .. n
    BY <1>1, <1>2, <1>4 DEF Returned, Cap
  <2>2. Len(got') = k /\ DOMAIN got' = 1 .. k /\ \A i \in 1 .. k : got'[i] = Stored[i]
    BY <1>1, <1>4, <2>1
  <2>3. (n < Cap => k = n) /\ (n = Cap => k = n - 1)
    BY <1>1, <1>4 DEF Cap
  <2> HIDE DEF k
  <2> SUFFICES ASSUME Lines(got') # {}, Lines(got') \cap torn = {}
               PROVE  \E l \in DOMAIN lens :
                         /\ Len(got') = lens[l] + 1
                         /\ \A i \in 1 .. lens[l] : got'[i] = [line |-> l, pos |-> i]
                         /\ got'[Len(got')] = NUL
    BY <1>4 DEF WholeLine, Lines
  <2>4. \A j \in 1 .. k : Stored[j] \in Byte => Stored[j].line \notin torn
    BY <2>2 DEF Lines
  <2>5. PICK i \in 1 .. k : Stored[i] \in Byte
    BY <2>2 DEF Lines
  <2>6. i \in 1 .. Len(Stored) /\ i <= n /\ Clean(Stored, i, torn) /\ i \in Nat
    BY <1>1, <1>4, <2>1, <2>4, <2>5 DEF Clean
  <2>7. n > 0 /\ Stored[n] = NUL /\ i < n
    <3>1. n > 0 /\ Stored[n] = NUL
      BY <1>5, <2>6 DEF NoneClean
    <3> QED BY <1>4, <1>6, <2>5, <2>6, <3>1
  <2> DEFINE q == Stored
             l == q[i].line
             m == SentOf(lens, pos, l)
             s == i - q[i].pos
  <2>8. l \in 1 .. Len(lens) + 1 /\ q[i].pos \in Nat \ {0} /\ m \in Nat
    BY <1>1, <2>6, CleanFacts
  <2>9. Intact(q, lens, pos, torn)
    BY DEF LineInv
  <2>10. q[i].pos <= m /\ LineAt(q, s, l, m, lens, torn)
    BY <2>6, <2>9 DEF Intact
  <2>11. s \in Int /\ s < i /\ i <= s + m
    BY <2>6, <2>8, <2>10
  <2> HIDE DEF q, l, m, s
  <2>12. s >= 0
    BY <2>10 DEF LineAt
  \* No byte of the line is the terminator the loop ended at.
  <2>13. ASSUME n <= s + m PROVE FALSE
    <3>1. n - s \in 1 .. m /\ s + (n - s) = n
      BY <1>4, <2>6, <2>7, <2>8, <2>11, <2>13
    <3>2. q[n] = [line |-> l, pos |-> n - s]
      BY <2>10, <3>1 DEF LineAt
    <3>3. q[n] \in Byte
      BY <2>8, <3>1, <3>2 DEF Byte
    <3> QED BY <1>6, <2>7, <3>3 DEF q
  <2>14. n = s + m + 1 /\ l # Len(lens) + 1
    <3>1. l # Len(lens) + 1
      <4>1. l = Len(lens) + 1 => s + m = Len(q)
        BY <2>10 DEF LineAt
      <4> QED BY <1>4, <2>13, <4>1 DEF q
    <3>2. s + m < Len(q) /\ q[s + m + 1] = NUL
      BY <2>10, <3>1 DEF LineAt
    <3>3. s + m + 1 \notin 1 .. n - 1
      BY <1>3, <3>2 DEF LoopEnds, q
    <3> QED BY <1>4, <2>8, <2>11, <2>12, <2>13, <3>1, <3>3
  <2>15. s = 0
    <3> SUFFICES ASSUME s > 0 PROVE FALSE
      BY <2>11, <2>12
    <3>1. s \in 1 .. n - 1 /\ s \in 1 .. k /\ s \in 1 .. Len(Stored)
      BY <1>1, <1>4, <2>1, <2>3, <2>6, <2>7, <2>11
    <3>2. ~Clean(Stored, s, torn) /\ Stored[s] # NUL
      BY <1>3, <2>10, <3>1 DEF LineAt, LoopEnds, q
    <3>3. Stored[s] # Garbage /\ Stored[s] \in Item
      BY <1>1, <3>1 DEF Lined, SentBy
    <3>4. Stored[s] \in Byte
      BY <3>2, <3>3 DEF Item
    <3> QED BY <2>4, <3>1, <3>2, <3>4 DEF Clean
  \* The terminator did not fall on the place the array keeps free.
  <2>16. n < Cap
    <3> SUFFICES ASSUME n = Cap PROVE FALSE
      BY <1>1, <1>4
    <3>1. PICK j \in 1 .. Cap - 1 : ~Clean(Stored, j, torn)
      BY <1>1, <1>4 DEF RoomInv, Marked
    <3>2. j \in 1 .. n - 1 /\ j \in 1 .. k /\ j \in 1 .. Len(Stored)
      BY <1>1, <1>4, <2>3
    <3>3. Stored[j] # NUL /\ Stored[j] # Garbage /\ Stored[j] \in Item
      BY <1>1, <1>3, <3>2 DEF LoopEnds, Lined, SentBy
    <3>4. Stored[j] \in Byte
      BY <3>3 DEF Item
    <3> QED BY <2>4, <3>1, <3>2, <3>4 DEF Clean
  <2>17. l \in DOMAIN lens /\ m = lens[l]
    <3>1. l \in 1 .. Len(lens)
      BY <1>1, <2>8, <2>14
    <3> QED BY <1>1, <2>14, <3>1, Setting DEF m, SentOf
  <2>18. k = m + 1 /\ n = m + 1
    BY <1>4, <2>3, <2>8, <2>14, <2>15, <2>16
  <2>19. \A j \in 1 .. m : got'[j] = [line |-> l, pos |-> j]
    <3> TAKE j \in 1 .. m
    <3>1. j \in 1 .. k /\ s + j = j
      BY <2>8, <2>15, <2>18
    <3>2. q[s + j] = [line |-> l, pos |-> j]
      BY <2>10 DEF LineAt
    <3> QED BY <2>2, <3>1, <3>2 DEF q
  <2>20. Len(got') = m + 1 /\ got'[Len(got')] = NUL
    BY <2>2, <2>7, <2>8, <2>18
  <2> QED BY <2>17, <2>19, <2>20
<1> QED BY <1>9, <1>10

\* The steps that leave ring and lines alone.
LEMMA QuietWhole ==
    ASSUME IInv, WholeInv,
           \/ SetReceivingTaskHandle \/ NotifyWait \/ WhileNotFinished \/ CheckForTimeOut
           \/ NotifyTake \/ SetTimeoutDetected \/ TimerExpires \/ UNCHANGED vars
    PROVE  WholeInv'
<1> USE DEF WholeInv
<1>1. UNCHANGED <<lens, pos, uart_buffer, received_chars, got, torn, string_finished_>>
  BY DEF SetReceivingTaskHandle, NotifyWait, WhileNotFinished, CheckForTimeOut, NotifyTake,
         SetTimeoutDetected, TimerExpires, vars, env, serial, reading
<1>2. Stored' = Stored /\ Line' = Line
  BY <1>1 DEF Stored, Line
<1>3. LineInv'
  BY <1>1, <1>2 DEF LineInv
<1>4. WholeLine'
  BY <1>1, WholeStays
<1>5. CASE SetTimeoutDetected
  <2>1. timeout_detected' /\ pc' = "flush"
    BY <1>5 DEF SetTimeoutDetected
  <2>2. FinishInv'
    BY <1>1, <1>2, <2>1 DEF FinishInv
  <2>3. RoomInv'
    BY <2>1 DEF RoomInv
  <2> QED BY <1>3, <1>4, <2>2, <2>3
<1>6. CASE ~SetTimeoutDetected
  <2>1. UNCHANGED timeout_detected
    BY <1>6 DEF SetReceivingTaskHandle, NotifyWait, WhileNotFinished, CheckForTimeOut, NotifyTake,
                TimerExpires, vars, serial
  <2>2. pc' = pc \/ (pc = "while" /\ pc' = "read" /\ string_finished_)
                 \/ (pc # "flush" /\ pc' \notin {"read", "flush"})
    BY <1>6 DEF SetReceivingTaskHandle, NotifyWait, WhileNotFinished, CheckForTimeOut, NotifyTake,
                TimerExpires, vars, reading
  <2>3. FinishInv'
    BY <1>1, <1>2, <2>1, <2>2 DEF FinishInv
  <2>4. MayPop' => MayPop
    BY <1>1, <2>2 DEF MayPop
  <2>5. RoomInv'
    BY <1>1, <1>2, <2>1, <2>4 DEF RoomInv
  <2> QED BY <1>3, <1>4, <2>3, <2>5
<1> QED BY <1>5, <1>6

LEMMA NextWhole ==
    ASSUME IInv, WholeInv, Cap > 2, [Next]_vars
    PROVE  WholeInv'
<1>1. CASE RxData
  <2> DEFINE b == [line |-> Line, pos |-> pos + 1]
  <2>1. b \in Byte
    BY Setting DEF Byte
  <2>2. pos' = pos + 1 /\ UNCHANGED <<lens, pc, got>> /\ Arrival
    BY <1>1 DEF RxData, reading, Arrival
  <2> HIDE DEF b
  <2>3. CASE RxAfterTimeout
    BY <2>2, <2>3, ResetWhole
  <2>4. CASE RxNearlyFull(b)
    <3>1. Len(Stored) = Cap - 2 /\ Stored' = Append(Append(Stored, b), NUL)
      BY <2>1, <2>4, BranchesExact
    <3>2. torn' = torn \cup {Line} /\ ~timeout_detected /\ ~timeout_detected' /\ string_finished_'
      BY <2>4 DEF RxNearlyFull
    <3> QED BY <2>1, <2>2, <3>1, <3>2, NearlyFullWhole DEF b
  <2>5. CASE RxNormal(b)
    <3>1. /\ UNCHANGED <<string_finished_, timeout_detected>> /\ Len(Stored) # Cap - 2
          /\ received_chars' > 0
      <4>1. Len(Stored) \in Nat /\ Cap \in Nat /\ space_left(uart_buffer) = Cap - Len(Stored)
        BY Setting
      <4>2. received_chars \in Nat
        BY DEF IInv, TypeOK
      <4> QED BY <2>5, <4>1, <4>2 DEF RxNormal
    <3>2. CASE Len(Stored) = Cap
      <4>1. Stored' = Stored /\ torn' = torn \cup {Line}
        BY <2>1, <2>5, <3>2, BranchesExact, Setting DEF RxNormal
      <4> QED BY <2>2, <3>1, <4>1, LostWhole
    <3>3. CASE Len(Stored) # Cap
      <4>1. Stored' = Append(Stored, b) /\ torn' = torn
        BY <2>1, <2>5, <3>3, BranchesExact, Setting DEF RxNormal
      <4> QED BY <2>1, <2>2, <3>1, <3>3, <4>1, ByteWhole DEF b
    <3> QED BY <3>2, <3>3
  <2> QED BY <1>1, <2>3, <2>4, <2>5 DEF RxData, b
<1>2. CASE RxTerminator
  <2>1. pos' = 0 /\ lens' = Append(lens, pos) /\ UNCHANGED <<pc, got>> /\ Arrival
    BY <1>2 DEF RxTerminator, reading, Arrival
  <2>2. CASE RxAfterTimeout
    BY <2>1, <2>2, ResetWhole
  <2>3. CASE RxEndOfLine
    <3>1. string_finished_' /\ ~timeout_detected /\ UNCHANGED timeout_detected
      BY <2>3 DEF RxEndOfLine
    <3>2. [line |-> 1, pos |-> 1] \in Byte
      BY DEF Byte
    <3>3. CASE Len(Stored) = Cap
      <4>1. Stored' = Stored /\ torn' = torn \cup {Line}
        BY <2>3, <3>2, <3>3, BranchesExact, Setting DEF RxEndOfLine
      <4> QED BY <2>1, <3>1, <3>3, <4>1, LostWhole
    <3>4. CASE Len(Stored) # Cap
      <4>1. Stored' = Append(Stored, NUL) /\ torn' = torn
        BY <2>3, <3>2, <3>4, BranchesExact, Setting DEF RxEndOfLine
      <4> QED BY <2>1, <3>1, <3>4, <4>1, EndWhole
    <3> QED BY <3>3, <3>4
  <2>4. CASE RxEmptyLine
    BY <2>1, <2>4, EmptyWhole
  <2> QED BY <1>2, <2>2, <2>3, <2>4 DEF RxTerminator
<1>3. CASE Overrun
  <2>1. /\ Arrival /\ Stored' = Stored /\ torn' = torn \cup {Line}
        /\ UNCHANGED <<timeout_detected, string_finished_>>
    BY <1>3 DEF Overrun, Arrival, serial, reading, Stored
  <2> QED BY <2>1, LostWhole
<1>4. CASE \/ SetReceivingTaskHandle \/ NotifyWait \/ WhileNotFinished \/ CheckForTimeOut
           \/ NotifyTake \/ SetTimeoutDetected \/ TimerExpires \/ UNCHANGED vars
  BY <1>4, QuietWhole
<1>5. CASE ReadTimedOut
  BY <1>5, TimedOutWhole
<1>6. CASE ReadFinished
  BY <1>6, FinishedWhole
<1> QED BY <1>1, <1>2, <1>3, <1>4, <1>5, <1>6 DEF Next, Interrupt, ReadTask

\* A string none of whose lines lost anything is one whole line with its
\* terminator, for every ring of at least three places and any interleaving
\* of handle_received_char with read_string.  A ring of two can be filled by
\* one byte and its terminator, which the reader's array has no place for.
THEOREM LinesAreWhole == SERIAL_BUFFERS_SIZE > 2 => (Spec => []WholeLine)
<1> SUFFICES ASSUME Cap > 2 PROVE Spec => []WholeLine
  BY DEF Cap
<1>1. Init => WholeInv
  <2> SUFFICES ASSUME Init PROVE WholeInv
    OBVIOUS
  <2>1. Stored = << >> /\ got = << >> /\ Len(Stored) = 0 /\ Cap \in Nat
    BY SizeAssumption, ItemFacts, NewRingEmpty DEF Init, Stored, Cap
  <2>2. LineInv
    BY <2>1 DEF Init, LineInv, Intact, NoneLast
  <2>3. FinishInv
    BY DEF Init, FinishInv
  <2>4. RoomInv
    BY <2>1 DEF RoomInv
  <2>5. WholeLine
    BY <2>1 DEF WholeLine, Lines
  <2> QED BY <2>2, <2>3, <2>4, <2>5 DEF WholeInv
<1>2. IInv /\ WholeInv /\ [Next]_vars => WholeInv'
  BY NextWhole
<1>3. WholeInv => WholeLine
  BY DEF WholeInv
<1> QED BY Inductive, <1>1, <1>2, <1>3, PTL DEF Spec

-----------------------------------------------------------------------------
(***************************************************************************)
(* push and pop of inc/ringbuffer.h, statement by statement, implement the *)
(* bounded queue of Fifo when the interrupt and the task share a core, for *)
(* every capacity and any number of characters.                            *)
(***************************************************************************)

Size == SERIAL_BUFFERS_SIZE

(* The critical section keeps the interrupt out, and a task does not run   *)
(* before the interrupt has returned.                                      *)
Exclusive == isr = "idle" \/ task = "outside"

(* Where push has got to: room was found, the character is in its slot,    *)
(* the pointer has moved, the count was read.                              *)
Pushing ==
    /\ isr \in {"write", "pointer", "load", "save"} => ring.current_size < Size
    /\ isr = "pointer" => ring.buffer[ring.write_ptr] = sent
    /\ isr \in {"load", "save"} => ring.buffer[(ring.read_ptr + ring.current_size) % Size] = sent
    /\ isr = "save" => isr_reg = ring.current_size

(* Where pop has got to. *)
PoppingInv ==
    /\ task \in {"read", "pointer", "load", "save"} => ring.current_size > 0
    /\ task = "save" => task_reg = ring.current_size

(* The items between the pointers: one more than counted once push has     *)
(* moved its pointer, one less once pop has moved the other.               *)
Between ==
    ring.current_size + (IF isr \in {"load", "save"} THEN 1 ELSE 0)
                      - (IF task \in {"load", "save"} THEN 1 ELSE 0)

Distance == ring.write_ptr = (ring.read_ptr + Between) % Size

RaceInv == RaceTypeOK /\ Exclusive /\ Pushing /\ PoppingInv /\ Distance

-----------------------------------------------------------------------------
\* A number below twice the capacity is reduced by subtracting it once.
LEMMA ModOnce ==
    ASSUME NEW M \in Nat \ {0}, NEW a \in M .. 2 * M - 1
    PROVE  a % M = a - M
<1> DEFINE b == a - M
<1>1. b \in 0 .. M - 1 /\ a = b + M
  OBVIOUS
<1>2. b % M = b
  BY <1>1
<1>3. (b + M) % M = b % M
  BY <1>1
<1> QED BY <1>1, <1>2, <1>3

LEMMA Fields ==
    ASSUME RaceTypeOK
    PROVE  /\ Size \in Nat \ {0} /\ MaxPush \in Nat
           /\ ring = [buffer |-> ring.buffer, capacity |-> Size, read_ptr |-> ring.read_ptr,
                    write_ptr |-> ring.write_ptr, current_size |-> ring.current_size]
           /\ ring.buffer \in [0 .. Size - 1 -> 0 .. MaxPush] /\ ring.capacity = Size
           /\ ring.read_ptr \in 0 .. Size - 1 /\ ring.write_ptr \in 0 .. Size - 1
           /\ ring.current_size \in 0 .. Size
BY SizeAssumption, RaceAssumption DEF RaceTypeOK, Ring, Size

LEMMA RaceInitInv == RaceInit => RaceInv
<1> SUFFICES ASSUME RaceInit PROVE RaceInv
  OBVIOUS
<1>1. Size \in Nat \ {0} /\ MaxPush \in Nat /\ 0 % Size = 0
  BY SizeAssumption, RaceAssumption DEF Size
<1>2. RaceTypeOK
  BY <1>1 DEF RaceInit, RaceTypeOK, NewRing, Ring, Size
<1> QED BY <1>1, <1>2 DEF RaceInit, RaceInv, Exclusive, Pushing, PoppingInv, Distance, Between, NewRing, Size

(* Steps that leave the ring alone. *)
LEMMA TestStep ==
    ASSUME RaceInv, OneCore,
           IsrStart \/ PushTest \/ PushLoad \/ EnterCritical \/ PopTest \/ PopRead \/ PopLoad
    PROVE  RaceInv'
<1> USE Fields DEF RaceInv, RaceTypeOK
<1>1. ring' = ring
  BY DEF IsrStart, PushTest, PushLoad, EnterCritical, PopTest, PopRead, PopLoad
<1>2. RaceTypeOK'
  <2>1. CASE PopRead
    <3>1. ring.buffer[ring.read_ptr] \in 0 .. MaxPush
      OBVIOUS
    <3> QED BY <1>1, <2>1, <3>1 DEF PopRead, TaskGoes
  <2>2. CASE IsrStart \/ PushTest \/ PushLoad
    BY <1>1, <2>2 DEF IsrStart, PushTest, PushLoad, IsrGoes, Size
  <2>3. CASE EnterCritical \/ PopTest \/ PopLoad
    BY <1>1, <2>3 DEF EnterCritical, PopTest, PopLoad, TaskGoes, Size
  <2> QED BY <2>1, <2>2, <2>3
<1>3. Exclusive'
  BY DEF IsrStart, PushTest, PushLoad, EnterCritical, PopTest, PopRead, PopLoad, IsrGoes, TaskGoes,
         IsrMayStart, TaskMayRun, Exclusive
<1>4. Pushing'
  <2>1. CASE IsrStart \/ PushTest
    BY <1>1, <2>1 DEF IsrStart, PushTest, IsrGoes, Pushing, is_full
  <2>2. CASE PushLoad
    BY <1>1, <2>2 DEF PushLoad, IsrGoes, Pushing
  <2>3. CASE EnterCritical \/ PopTest \/ PopRead \/ PopLoad
    BY <1>1, <2>3 DEF EnterCritical, PopTest, PopRead, PopLoad, TaskGoes, TaskMayRun, Pushing
  <2> QED BY <2>1, <2>2, <2>3
<1>5. PoppingInv'
  BY DEF IsrStart, PushTest, PushLoad, EnterCritical, PopTest, PopRead, PopLoad, IsrGoes, TaskGoes,
         PoppingInv, is_empty
<1>6. Between' = Between
  BY DEF IsrStart, PushTest, PushLoad, EnterCritical, PopTest, PopRead, PopLoad, IsrGoes, TaskGoes,
         Between
<1>7. Distance'
  BY <1>1, <1>6 DEF Distance
<1> QED BY <1>2, <1>3, <1>4, <1>5, <1>7 DEF RaceInv

LEMMA PushWriteStep ==
    ASSUME RaceInv, PushWrite
    PROVE  RaceInv'
<1> USE Fields DEF RaceInv
<1>1. /\ isr = "write" /\ isr' = "pointer" /\ UNCHANGED <<isr_reg, sent, task, task_reg, item>>
      /\ task = "outside" /\ sent \in 0 .. MaxPush
  BY DEF PushWrite, IsrGoes, Exclusive, RaceTypeOK
<1>2. ring' = [buffer |-> [ring.buffer EXCEPT ![ring.write_ptr] = sent], capacity |-> Size,
             read_ptr |-> ring.read_ptr, write_ptr |-> ring.write_ptr, current_size |-> ring.current_size]
  BY DEF PushWrite
<1>3. [ring.buffer EXCEPT ![ring.write_ptr] = sent] \in [0 .. Size - 1 -> 0 .. MaxPush]
  BY <1>1
<1>4. RaceTypeOK'
  BY <1>1, <1>2, <1>3 DEF RaceTypeOK, Ring, Size
<1>5. Exclusive' /\ PoppingInv'
  BY <1>1 DEF Exclusive, PoppingInv
<1>6. Pushing'
  BY <1>1, <1>2 DEF Pushing
<1>7. Distance'
  BY <1>1, <1>2 DEF Distance, Between
<1> QED BY <1>4, <1>5, <1>6, <1>7

LEMMA PushPointerStep ==
    ASSUME RaceInv, PushPointer
    PROVE  RaceInv'
<1> USE Fields DEF RaceInv
<1>1. /\ isr = "pointer" /\ isr' = "load" /\ UNCHANGED <<isr_reg, sent, task, task_reg, item>>
      /\ task = "outside" /\ ring.current_size < Size
  BY DEF PushPointer, IsrGoes, Exclusive, Pushing
<1>2. ring' = [buffer |-> ring.buffer, capacity |-> Size, read_ptr |-> ring.read_ptr,
             write_ptr |-> (ring.write_ptr + 1) % Size, current_size |-> ring.current_size]
  BY DEF PushPointer
<1>3. (ring.write_ptr + 1) % Size \in 0 .. Size - 1
  OBVIOUS
<1>4. RaceTypeOK'
  BY <1>1, <1>2, <1>3 DEF RaceTypeOK, Ring, Size
<1>5. Exclusive' /\ PoppingInv'
  BY <1>1 DEF Exclusive, PoppingInv
<1>6. ring.write_ptr = (ring.read_ptr + ring.current_size) % Size
  BY <1>1 DEF Distance, Between
<1>7. Pushing'
  BY <1>1, <1>2, <1>6 DEF Pushing
<1>8. (ring.write_ptr + 1) % Size = (ring.read_ptr + ring.current_size + 1) % Size
  <2>1. 1 \in 0 .. Size /\ ring.current_size + 1 <= Size
    BY <1>1
  <2> QED BY <1>6, <2>1, ModPlus
<1>9. Distance'
  BY <1>1, <1>2, <1>8 DEF Distance, Between
<1> QED BY <1>4, <1>5, <1>7, <1>9

LEMMA PushSaveStep ==
    ASSUME RaceInv, PushSave
    PROVE  RaceInv'
<1> USE Fields DEF RaceInv
<1>1. /\ isr = "save" /\ isr' = "idle" /\ UNCHANGED <<isr_reg, sent, task, task_reg, item>>
      /\ task = "outside" /\ ring.current_size < Size /\ isr_reg = ring.current_size
  BY DEF PushSave, IsrGoes, Exclusive, Pushing
<1>2. ring' = [buffer |-> ring.buffer, capacity |-> Size, read_ptr |-> ring.read_ptr,
             write_ptr |-> ring.write_ptr, current_size |-> ring.current_size + 1]
  BY <1>1 DEF PushSave
<1>3. RaceTypeOK'
  BY <1>1, <1>2 DEF RaceTypeOK, Ring, Size
<1>4. Exclusive' /\ PoppingInv' /\ Pushing'
  BY <1>1 DEF Exclusive, PoppingInv, Pushing
<1>5. Distance'
  BY <1>1, <1>2 DEF Distance, Between
<1> QED BY <1>3, <1>4, <1>5

LEMMA PopPointerStep ==
    ASSUME RaceInv, OneCore, PopPointer
    PROVE  RaceInv'
<1> USE Fields DEF RaceInv
<1>1. /\ task = "pointer" /\ task' = "load" /\ UNCHANGED <<isr, isr_reg, sent, task_reg, item>>
      /\ isr = "idle" /\ ring.current_size > 0
  BY DEF PopPointer, TaskGoes, TaskMayRun, PoppingInv
<1>2. ring' = [buffer |-> ring.buffer, capacity |-> Size, read_ptr |-> (ring.read_ptr + 1) % Size,
             write_ptr |-> ring.write_ptr, current_size |-> ring.current_size]
  BY DEF PopPointer
<1>3. (ring.read_ptr + 1) % Size \in 0 .. Size - 1
  OBVIOUS
<1>4. RaceTypeOK'
  BY <1>1, <1>2, <1>3 DEF RaceTypeOK, Ring, Size
<1>5. Exclusive' /\ Pushing' /\ PoppingInv'
  BY <1>1, <1>2 DEF Exclusive, Pushing, PoppingInv
<1>6. (((ring.read_ptr + 1) % Size) + (ring.current_size - 1)) % Size
        = (ring.read_ptr + 1 + (ring.current_size - 1)) % Size
  <2>1. 1 \in 0 .. Size /\ ring.current_size - 1 \in 0 .. Size /\ 1 + (ring.current_size - 1) <= Size
    BY <1>1
  <2> QED BY <2>1, ModPlus
<1>7. Distance'
  BY <1>1, <1>2, <1>3, <1>6 DEF Distance, Between
<1> QED BY <1>4, <1>5, <1>7

LEMMA PopSaveStep ==
    ASSUME RaceInv, OneCore, PopSave
    PROVE  RaceInv'
<1> USE Fields DEF RaceInv
<1>1. /\ task = "save" /\ task' \in {"empty?", "outside"}
      /\ UNCHANGED <<isr, isr_reg, sent, task_reg, item>>
      /\ isr = "idle" /\ ring.current_size > 0 /\ task_reg = ring.current_size
  BY DEF PopSave, TaskGoes, TaskMayRun, PoppingInv
<1>2. ring' = [buffer |-> ring.buffer, capacity |-> Size, read_ptr |-> ring.read_ptr,
             write_ptr |-> ring.write_ptr, current_size |-> ring.current_size - 1]
  BY <1>1 DEF PopSave
<1>3. RaceTypeOK'
  <2>1. ring.current_size - 1 \in 0 .. Size
    BY <1>1
  <2>2. ring' \in Ring(SERIAL_BUFFERS_SIZE, 0 .. MaxPush)
    BY <1>2, <2>1 DEF Ring, Size
  <2> QED BY ONLY <1>1, <2>2, RaceTypeOK DEF RaceTypeOK
<1>4. Exclusive' /\ Pushing' /\ PoppingInv'
  BY <1>1 DEF Exclusive, Pushing, PoppingInv
<1>5. Distance'
  <2>1. Between = ring.current_size - 1
    BY <1>1 DEF Between
  <2>2. ring'.current_size = ring.current_size - 1 /\ ring'.write_ptr = ring.write_ptr
        /\ ring'.read_ptr = ring.read_ptr
    BY <1>2
  <2>3. Between' = ring.current_size - 1
    BY <1>1, <2>2 DEF Between
  <2> QED BY <2>1, <2>2, <2>3 DEF Distance
<1> QED BY <1>3, <1>4, <1>5

(* The inductive invariant: where push and pop are, and how far the count  *)
(* is from the distance of the pointers in between.                        *)
THEOREM RaceInvariance == OneCore => (RaceSpec => []RaceInv)
<1> SUFFICES ASSUME OneCore PROVE RaceSpec => []RaceInv
  OBVIOUS
<1>1. RaceInv /\ UNCHANGED raceVars => RaceInv'
  BY DEF raceVars, RaceInv, RaceTypeOK, Exclusive, Pushing, PoppingInv, Distance, Between
<1>2. RaceInv /\ [RaceNext]_raceVars => RaceInv'
  BY <1>1, TestStep, PushWriteStep, PushPointerStep, PushSaveStep, PopPointerStep, PopSaveStep
     DEF RaceNext, Push, Pop
<1> QED BY RaceInitInv, <1>2, PTL DEF RaceSpec

-----------------------------------------------------------------------------
(* Refinement.  Queue is the abstract queue of a state: how long it is,    *)
(* and that a slot not in it may change.                                   *)

LEMMA FunctionIsSeq ==
    ASSUME NEW S, NEW n \in Nat, NEW f \in [1 .. n -> S]
    PROVE  f \in Seq(S) /\ Len(f) = n
OBVIOUS

LEMMA QueueFacts ==
    ASSUME RaceInv
    PROVE  /\ QueueLen \in 0 .. Size
           /\ QueueHead \in 0 .. Size
           /\ QueueLen < Size \/ QueueHead < Size
           /\ Queue \in Seq(0 .. MaxPush) /\ Len(Queue) = QueueLen
           /\ Queue = [i \in 1 .. QueueLen |-> ring.buffer[(QueueHead + i - 1) % Size]]
<1> USE Fields DEF RaceInv
<1>1. QueueLen \in 0 .. Size /\ QueueHead \in 0 .. Size /\ (QueueLen < Size \/ QueueHead < Size)
  BY DEF QueueLen, QueueHead, PoppingInv, Popping
<1>2. Queue = [i \in 1 .. QueueLen |-> ring.buffer[(QueueHead + i - 1) % Size]]
  BY DEF Queue
<1>3. \A i \in 1 .. QueueLen : (QueueHead + i - 1) % Size \in 0 .. Size - 1
  BY <1>1
<1>4. Queue \in [1 .. QueueLen -> 0 .. MaxPush]
  BY <1>2, <1>3
<1>5. QueueLen \in Nat
  BY <1>1
<1>6. Queue \in Seq(0 .. MaxPush) /\ Len(Queue) = QueueLen
  BY <1>4, <1>5, FunctionIsSeq
<1> QED BY ONLY <1>1, <1>2, <1>6

LEMMA InitRefines == RaceInit => F!Init
<1> SUFFICES ASSUME RaceInit PROVE F!Init
  OBVIOUS
<1>1. QueueLen = 0
  BY DEF RaceInit, QueueLen, Popping, NewRing
<1>2. Queue = << >>
  BY <1>1 DEF Queue
<1>3. item \in 0 .. MaxPush
  BY RaceAssumption DEF RaceInit
<1> QED BY <1>2, <1>3 DEF F!Init

(* Most statements change nothing of the queue. *)
LEMMA TestStutters ==
    ASSUME RaceInv, IsrStart \/ PushTest \/ PushLoad \/ EnterCritical \/ PopTest \/ PopLoad
    PROVE  UNCHANGED <<Queue, item>>
<1>1. ring' = ring /\ item' = item
  BY DEF IsrStart, PushTest, PushLoad, EnterCritical, PopTest, PopLoad
<1>2. QueueLen' = QueueLen /\ QueueHead' = QueueHead
  BY <1>1 DEF IsrStart, PushTest, PushLoad, EnterCritical, PopTest, PopLoad, IsrGoes, TaskGoes,
              QueueLen, QueueHead, Popping
<1> QED BY <1>1, <1>2 DEF Queue

(* The slot that push writes is outside the queue. *)
LEMMA PushWriteStutters ==
    ASSUME RaceInv, PushWrite
    PROVE  UNCHANGED <<Queue, item>>
<1> USE Fields
<1> DEFINE s == ring.current_size
           r == ring.read_ptr
<1>1. /\ isr = "write" /\ task = "outside" /\ task' = "outside" /\ item' = item
      /\ s \in 0 .. Size - 1 /\ ring.write_ptr = (r + s) % Size
  BY DEF PushWrite, IsrGoes, RaceInv, Exclusive, Pushing, Distance, Between
<1>2. ring' = [buffer |-> [ring.buffer EXCEPT ![ring.write_ptr] = sent], capacity |-> Size,
             read_ptr |-> r, write_ptr |-> ring.write_ptr, current_size |-> s]
  BY DEF PushWrite, RaceInv
<1>3. Queue = [i \in 1 .. s |-> ring.buffer[(r + i - 1) % Size]]
  BY <1>1 DEF Queue, QueueLen, QueueHead, Popping, RaceInv
<1>4. Queue' = [i \in 1 .. s |-> [ring.buffer EXCEPT ![ring.write_ptr] = sent][(r + i - 1) % Size]]
  BY <1>1, <1>2 DEF Queue, QueueLen, QueueHead, Popping
<1>5. ASSUME NEW i \in 1 .. s
      PROVE  [ring.buffer EXCEPT ![ring.write_ptr] = sent][(r + i - 1) % Size] = ring.buffer[(r + i - 1) % Size]
  <2>1. r \in 0 .. Size - 1 /\ (r + i - 1) % Size \in 0 .. Size - 1
    BY <1>1 DEF RaceInv
  <2>2. (r + i - 1) % Size # (r + s) % Size
    BY <1>1, <2>1, ModDistinct DEF RaceInv
  <2> QED BY <1>1, <2>1, <2>2 DEF RaceInv
<1> HIDE DEF s, r
<1>6. Queue' = Queue
  BY <1>3, <1>4, <1>5
<1> QED BY <1>1, <1>6

LEMMA PushPointerStutters ==
    ASSUME RaceInv, PushPointer
    PROVE  UNCHANGED <<Queue, item>>
<1>1. task = "outside" /\ task' = "outside" /\ item' = item
  BY DEF PushPointer, IsrGoes, RaceInv, Exclusive
<1>2. ring' = [buffer |-> ring.buffer, capacity |-> Size, read_ptr |-> ring.read_ptr,
             write_ptr |-> (ring.write_ptr + 1) % Size, current_size |-> ring.current_size]
  BY Fields DEF PushPointer, RaceInv
<1> QED BY <1>1, <1>2, Fields DEF Queue, QueueLen, QueueHead, Popping, RaceInv

(* Saving the count is the push. *)
LEMMA PushSaveRefines ==
    ASSUME RaceInv, PushSave
    PROVE  F!Push(sent) /\ sent \in 0 .. MaxPush
<1> USE Fields
<1> DEFINE s == ring.current_size
           r == ring.read_ptr
<1>1. /\ task = "outside" /\ task' = "outside" /\ item' = item /\ sent \in 0 .. MaxPush
      /\ s \in 0 .. Size - 1 /\ isr_reg = s /\ ring.buffer[(r + s) % Size] = sent
  BY DEF PushSave, IsrGoes, RaceInv, Exclusive, Pushing, RaceTypeOK
<1>2. ring' = [buffer |-> ring.buffer, capacity |-> Size, read_ptr |-> r,
             write_ptr |-> ring.write_ptr, current_size |-> s + 1]
  BY <1>1 DEF PushSave, RaceInv
<1>3. Queue' = [i \in 1 .. s + 1 |-> ring.buffer[(r + i - 1) % Size]]
  BY <1>1, <1>2 DEF Queue, QueueLen, QueueHead, Popping
<1>4. QueueLen = s /\ QueueHead = r
  BY <1>1 DEF QueueLen, QueueHead, Popping
<1>5. /\ Queue \in Seq(0 .. MaxPush) /\ Len(Queue) = s
      /\ Queue = [i \in 1 .. s |-> ring.buffer[(r + i - 1) % Size]]
  BY <1>4, QueueFacts
<1>6. r + (s + 1) - 1 = r + s
  BY <1>1 DEF RaceInv
<1> HIDE DEF s, r
<1>7. Queue' = Append(Queue, sent)
  BY <1>1, <1>3, <1>5, <1>6
<1>8. Len(Queue) < Size
  BY <1>1, <1>5 DEF RaceInv
<1> QED BY ONLY <1>1, <1>7, <1>8 DEF F!Push, Size

(* Reading the item is the pop. *)
LEMMA PopReadRefines ==
    ASSUME RaceInv, OneCore, PopRead
    PROVE  F!Pop
<1> USE Fields
<1> DEFINE s == ring.current_size
           r == ring.read_ptr
<1>1. /\ task = "read" /\ task' = "pointer" /\ ring' = ring /\ item' = ring.buffer[r]
      /\ s \in 1 .. Size /\ r \in 0 .. Size - 1
  BY DEF PopRead, TaskGoes, RaceInv, PoppingInv
<1>2. QueueLen = s /\ QueueHead = r
  BY <1>1 DEF QueueLen, QueueHead, Popping
<1>3. /\ Queue \in Seq(0 .. MaxPush) /\ Len(Queue) = s
      /\ Queue = [i \in 1 .. s |-> ring.buffer[(r + i - 1) % Size]]
  BY <1>2, QueueFacts
<1>4. Queue' = [i \in 1 .. s - 1 |-> ring.buffer[(r + 1 + i - 1) % Size]]
  BY <1>1 DEF Queue, QueueLen, QueueHead, Popping, RaceInv
<1>5. Size \in Nat \ {0}
  BY DEF RaceInv
<1> HIDE DEF s, r
<1>6. r % Size = r /\ r + 1 - 1 = r
  BY ONLY <1>1, <1>5
<1>7. item' = Head(Queue) /\ Queue # << >>
  BY <1>1, <1>3, <1>6
<1>8. Queue' = Tail(Queue)
  <2>1. Tail(Queue) = [i \in 1 .. s - 1 |-> Queue[i + 1]]
    BY <1>1, <1>3
  <2>2. \A i \in 1 .. s - 1 : Queue[i + 1] = ring.buffer[(r + 1 + i - 1) % Size]
    <3> TAKE i \in 1 .. s - 1
    <3>1. i + 1 \in 1 .. s /\ r + (i + 1) - 1 = r + 1 + i - 1
      BY <1>1
    <3> QED BY <1>3, <3>1
  <2> QED BY <1>4, <2>1, <2>2
<1> QED BY <1>7, <1>8 DEF F!Pop

(* The head of the queue is ahead of the read pointer in between. *)
LEMMA PopPointerStutters ==
    ASSUME RaceInv, OneCore, PopPointer
    PROVE  UNCHANGED <<Queue, item>>
<1> USE Fields
<1> DEFINE s == ring.current_size
           r == ring.read_ptr
<1>1. task = "pointer" /\ task' = "load" /\ item' = item /\ s \in 1 .. Size /\ r \in 0 .. Size - 1
  BY DEF PopPointer, TaskGoes, RaceInv, PoppingInv
<1>2. ring' = [buffer |-> ring.buffer, capacity |-> Size, read_ptr |-> (r + 1) % Size,
             write_ptr |-> ring.write_ptr, current_size |-> s]
  BY DEF PopPointer, RaceInv
<1>3. Queue = [i \in 1 .. s - 1 |-> ring.buffer[(r + 1 + i - 1) % Size]]
  BY <1>1 DEF Queue, QueueLen, QueueHead, Popping, RaceInv
<1>4. Queue' = [i \in 1 .. s - 1 |-> ring.buffer[(((r + 1) % Size) + i - 1) % Size]]
  BY <1>1, <1>2 DEF Queue, QueueLen, QueueHead, Popping
<1>5. Size \in Nat \ {0}
  BY DEF RaceInv
<1> HIDE DEF s, r
<1>6. ASSUME NEW i \in 1 .. s - 1
      PROVE  (((r + 1) % Size) + i - 1) % Size = (r + 1 + i - 1) % Size
  <2>1. 1 \in 0 .. Size /\ i - 1 \in 0 .. Size /\ 1 + (i - 1) <= Size
    BY <1>1, <1>5
  <2>2. (((r + 1) % Size) + (i - 1)) % Size = (r + 1 + (i - 1)) % Size
    BY <1>1, <1>5, <2>1, ModPlus
  <2>3. (r + 1) % Size \in 0 .. Size - 1
    BY <1>1, <1>5
  <2>4. ((r + 1) % Size) + (i - 1) = ((r + 1) % Size) + i - 1 /\ r + 1 + (i - 1) = r + 1 + i - 1
    BY <1>1, <2>3
  <2> QED BY <2>2, <2>4
<1> QED BY <1>1, <1>3, <1>4, <1>6

LEMMA PopSaveStutters ==
    ASSUME RaceInv, OneCore, PopSave
    PROVE  UNCHANGED <<Queue, item>>
<1> USE Fields
<1>1. /\ task = "save" /\ task' \in {"empty?", "outside"} /\ item' = item
      /\ task_reg = ring.current_size
  BY DEF PopSave, TaskGoes, RaceInv, PoppingInv
<1>2. ring' = [buffer |-> ring.buffer, capacity |-> Size, read_ptr |-> ring.read_ptr,
             write_ptr |-> ring.write_ptr, current_size |-> ring.current_size - 1]
  BY <1>1 DEF PopSave, RaceInv
<1>3. QueueLen' = QueueLen /\ QueueHead' = QueueHead
  BY <1>1, <1>2 DEF QueueLen, QueueHead, Popping
<1>4. ring'.buffer = ring.buffer /\ ring'.capacity = ring.capacity
  BY <1>2 DEF RaceInv
<1> QED BY <1>1, <1>3, <1>4 DEF Queue

(* On one core push and pop, taken statement by statement, implement the   *)
(* bounded queue, for every capacity: nothing is lost, duplicated or       *)
(* reordered between the interrupt and read_from_receive_buffer.           *)
THEOREM Refinement == OneCore => (RaceSpec => ImplementsFifo)
<1> SUFFICES ASSUME OneCore PROVE RaceSpec => ImplementsFifo
  OBVIOUS
<1>1. RaceInv /\ [RaceNext]_raceVars => [F!Next]_<<Queue, item>>
  <2> SUFFICES ASSUME RaceInv, [RaceNext]_raceVars PROVE [F!Next]_<<Queue, item>>
    OBVIOUS
  <2>1. CASE UNCHANGED raceVars
    BY <2>1 DEF raceVars, Queue, QueueLen, QueueHead, Popping
  <2>2. CASE PushSave
    BY <2>2, PushSaveRefines DEF F!Next
  <2>3. CASE PopRead
    BY <2>3, PopReadRefines DEF F!Next
  <2> QED BY <2>1, <2>2, <2>3, TestStutters, PushWriteStutters, PushPointerStutters,
             PopPointerStutters, PopSaveStutters DEF RaceNext, Push, Pop
<1>2. RaceSpec => []RaceInv
  BY RaceInvariance
<1> QED BY InitRefines, <1>1, <1>2, PTL DEF RaceSpec, ImplementsFifo, F!Spec
=============================================================================
