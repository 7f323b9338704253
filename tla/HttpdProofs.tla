---------------------------- MODULE HttpdProofs ----------------------------
(***************************************************************************)
(* Proofs about the web server of httpserver/httpd.cpp and the handlers of *)
(* src/post.cpp, for any number of connections and blocks of memory, all   *)
(* lengths of headers, files and bodies and any room in the send buffer:   *)
(* every block has one owner, a handler gets the body as it was sent and   *)
(* its result answers its own POST, and a response is sent whole.          *)
(*                                                                         *)
(* A callback works on a copy of the connection's state (Now) and ends in  *)
(* Keep or http_close_conn.  Ready and Posted say of that copy what        *)
(* HttpdInv says of the connection: each of the functions that a callback  *)
(* calls leads from one to the other, and KeepStep, LeaveStep and SendStep *)
(* lead back to HttpdInv.                                                  *)
(***************************************************************************)
EXTENDS Httpd, FiniteSetTheorems, SequenceTheorems, NaturalsInduction, WellFoundedInduction, TLAPS

-----------------------------------------------------------------------------
(* What an http_state and its history are. *)

HState ==
    [block : Ptr, handle : BOOLEAN, file : Ptr \cup {ROM}, off : Nat, left : Nat, retries : Nat,
     req : Nat, status : {"none", "ok", "not_found", "bad_request", "found"}, hdrs : SUBSET Hdrs,
     hdr_index : 0..NUM_FILE_HDR_STRINGS, hdr_pos : Nat, post_uri : BOOLEAN, post_content : Ptr,
     post_content_len_left : Nat, content : Seq(Nat), post_response_buf : Ptr]

Hist ==
    [out : Seq(Nat), due : SUBSET Nat, overlap : BOOLEAN, odd : BOOLEAN, again : BOOLEAN,
     twice : BOOLEAN, posted : Nat, handled : {"no", "as_sent", "otherwise"}, recvs : Nat]

(* The units that h has still to send. *)
HdrRem(h) ==
    {t \in Nat : \E i \in h.hdrs : \E p \in 0..Units(i) - 1 :
                    /\ t = HdrTok(i, p)
                    /\ i > h.hdr_index \/ (i = h.hdr_index /\ p >= h.hdr_pos)}
BodyRem(h) == {t \in Nat : BodyTok(h.off) <= t /\ t < BodyTok(h.off + h.left)}
Rem(h) == HdrRem(h) \cup BodyRem(h)

(* Of the units due, out has been sent, in order, and rem is left. *)
Sending(out, rem, due) ==
    /\ {out[i] : i \in DOMAIN out} \cup rem = due
    /\ \A i, j \in DOMAIN out : i < j => out[i] < out[j]
    /\ \A i \in DOMAIN out, t \in rem : out[i] < t

(* Nothing has been set up to be sent. *)
Fresh(h) == h.hdr_index = NUM_FILE_HDR_STRINGS /\ h.file = NULL

Header(h) ==
    h.hdr_index < NUM_FILE_HDR_STRINGS =>
        h.hdr_index \in h.hdrs /\ h.hdr_pos \in 0..Units(h.hdr_index) - 1

Source(h) ==
    /\ h.file = NULL => h.off = 0 /\ h.left = 0 /\ ~h.handle /\ h.post_response_buf = NULL
    /\ h.post_content_len_left > 0 => h.file = NULL /\ h.post_content # NULL

(* The body so far is at its place, as far as the client keeps to what it  *)
(* announced.                                                              *)
Body(h, g) ==
    h.post_content_len_left > 0 /\ ~g.odd =>
        /\ g.posted + h.post_content_len_left = Len(h.content)
        /\ \A i \in 1..Len(h.content) : h.content[i] = IF i <= g.posted THEN i ELSE 0

Answered(h, g) ==
    /\ g.handled = "otherwise" => g.odd
    /\ g.handled # "no" /\ ~g.overlap => h.status = "ok" /\ h.post_response_buf # NULL

Response(h, g) ==
    ~g.again =>
        /\ Sending(g.out, Rem(h), g.due) /\ (Fresh(h) => g.out = <<>>)
        /\ h.post_content_len_left > 0 => Fresh(h)

Local(h, g) == Header(h) /\ Source(h) /\ Body(h, g) /\ Answered(h, g) /\ Response(h, g)

Opened == {c \in Conns : conn[c] = "open"}

(* No block of a connection is two things at once. *)
Apart(h) ==
    /\ h.post_content_len_left > 0 => h.post_content \in Blocks \ {h.block}
    /\ h.post_response_buf # h.block

Types ==
    /\ conn \in [Conns -> {"new", "open", "closing", "closed"}]
    /\ hs \in [Conns -> HState] /\ gh \in [Conns -> Hist] /\ tcp \in [Conns -> Seq(Ptr \cup {ROM})]
    /\ heap \subseteq Blocks /\ lost \subseteq Blocks
    /\ current_connection \in Conns \cup {NULL} /\ nullLeft \in {0, 1}

(* What holds of each connection by itself. *)
Each(c) ==
    /\ Len(tcp[c]) <= SndBuf
    /\ conn[c] = "new" =>
          gh[c].out = <<>> /\ gh[c].due = {} /\ gh[c].handled = "no" /\ tcp[c] = <<>>
    /\ conn[c] = "open" =>
          /\ Local(hs[c], gh[c]) /\ hs[c].block \in Blocks
          /\ Fresh(hs[c]) /\ ~gh[c].again => tcp[c] = <<>>
    /\ conn[c] \in {"closing", "closed"} =>
          Complete(gh[c]) /\ (gh[c].handled = "otherwise" => gh[c].odd)

(* current_connection is the one POST that no other has overlapped. *)
Current == \A c \in Posting : gh[c].overlap <=> current_connection # c

Memory == Cardinality(Blocks \ heap) >= Cardinality(Posting)

Ownership ==
    (\A c \in Conns : ~gh[c].twice) =>
        /\ HeapExact /\ lost \subseteq heap
        /\ \A c \in Opened : Apart(hs[c])

HttpdInv == Types /\ (\A c \in Conns : Each(c)) /\ Current /\ Memory /\ Ownership
-----------------------------------------------------------------------------
(* Sending. *)

LEMMA Constants ==
    /\ HdrLen \in Nat \ {0} /\ SndBuf \in Nat \ {0} /\ BodyLen \in Nat \ {0}
    /\ HTTPD_MAX_RETRIES \in Nat \ {0} /\ LWIP_HTTPD_REQ_QUEUELEN \in Nat
    /\ Blocks \subseteq Nat \ {0} /\ ContentLens \subseteq Nat
    /\ IsFiniteSet(Blocks) /\ IsFiniteSet(Conns)
    /\ NULL \notin Conns /\ NULL \notin Blocks /\ NULL # ROM /\ ROM \notin Blocks
BY HttpdAssumption DEF ROM

(* The least element of a set of naturals. *)
LEMMA Least ==
    ASSUME NEW S \in SUBSET Nat, S # {}
    PROVE  Min(S) \in S /\ \A y \in S : Min(S) <= y
<1>1. \E x \in S : \A y \in S : <<y, x>> \notin OpToRel(<, Nat)
  BY NatLessThanWellFounded, WFMin
<1>2. \A x, y \in S : y < x => <<y, x>> \in OpToRel(<, Nat)
  BY DEF OpToRel
<1>3. \E x \in S : \A y \in S : ~(y < x)
  BY <1>1, <1>2
<1>4. \E x \in S : \A y \in S : x <= y
  BY <1>3
<1> QED BY <1>4 DEF Min

(* The greatest one of a bounded set. *)
LEMMA Greatest ==
    ASSUME NEW k \in Nat, NEW S \in SUBSET (0..k), S # {}
    PROVE  Max(S) \in S
<1> DEFINE T == {k - x : x \in S}
<1>1. T \in SUBSET Nat /\ T # {}
  <2>1. \A x \in S : k - x \in Nat
    OBVIOUS
  <2> QED BY <2>1
<1>2. Min(T) \in T /\ \A y \in T : Min(T) <= y
  <2> HIDE DEF T
  <2> QED BY <1>1, Least
<1>3. PICK x \in S : Min(T) = k - x
  BY <1>2
<1>4. ASSUME NEW y \in S PROVE x >= y
  <2>1. k - y \in T
    OBVIOUS
  <2>2. k - x <= k - y
    BY <1>2, <1>3, <2>1
  <2>3. x \in Int /\ y \in Int
    OBVIOUS
  <2> QED BY <2>2, <2>3
<1>5. \E z \in S : \A y \in S : z >= y
  BY <1>4
<1> QED BY <1>5 DEF Max

(* The fields that sending leaves alone. *)
Kept(h, k) ==
    /\ k.block = h.block /\ k.handle = h.handle /\ k.file = h.file /\ k.retries = h.retries
    /\ k.req = h.req /\ k.status = h.status /\ k.hdrs = h.hdrs /\ k.post_uri = h.post_uri
    /\ k.post_content = h.post_content /\ k.post_content_len_left = h.post_content_len_left
    /\ k.content = h.content /\ k.post_response_buf = h.post_response_buf

(* Units have been sent of rem, in order, and rest is left. *)
Passed(sent, rem, rest) ==
    /\ {sent[i].tok : i \in DOMAIN sent} \cup rest = rem
    /\ \A i, j \in DOMAIN sent : i < j => sent[i].tok < sent[j].tok
    /\ \A i \in DOMAIN sent, t \in rest : sent[i].tok < t

Unit == [tok : Nat, mem : Ptr \cup {ROM}]

LEMMA Fields ==
    ASSUME NEW h \in HState
    PROVE  /\ h.block \in Ptr /\ h.handle \in BOOLEAN /\ h.file \in Ptr \cup {ROM} /\ h.off \in Nat
           /\ h.left \in Nat /\ h.retries \in Nat /\ h.req \in Nat /\ h.hdrs \in SUBSET Hdrs
           /\ h.hdr_index \in 0..NUM_FILE_HDR_STRINGS /\ h.hdr_pos \in Nat /\ h.post_uri \in BOOLEAN
           /\ h.post_content \in Ptr /\ h.post_content_len_left \in Nat /\ h.content \in Seq(Nat)
           /\ h.post_response_buf \in Ptr
BY DEF HState

LEMMA Indices ==
    ASSUME NEW h \in HState
    PROVE  h.hdrs \subseteq 0..5 /\ h.hdr_index \in 0..6 /\ h.hdr_pos \in Nat
BY Fields DEF Hdrs, NUM_FILE_HDR_STRINGS

Moved(h, n, p) == [h EXCEPT !.hdr_index = n, !.hdr_pos = p]

LEMMA HeaderFields ==
    ASSUME NEW h \in HState, NEW n \in 0..NUM_FILE_HDR_STRINGS, NEW p \in Nat, NEW k, k = Moved(h, n, p)
    PROVE  /\ k \in HState /\ Kept(h, k) /\ k.off = h.off /\ k.left = h.left
           /\ k.hdr_index = n /\ k.hdr_pos = p
BY DEF HState, Kept, Moved

LEMMA NextIs ==
    ASSUME NEW h \in HState
    PROVE  /\ NextHeader(h) \in h.hdrs \cup {NUM_FILE_HDR_STRINGS}
           /\ h.hdr_index < NUM_FILE_HDR_STRINGS => NextHeader(h) > h.hdr_index
           /\ \A i \in h.hdrs : i > h.hdr_index => NextHeader(h) <= i
<1> DEFINE S == {i \in h.hdrs : i > h.hdr_index} \cup {NUM_FILE_HDR_STRINGS}
<1>1. h.hdrs \subseteq 0..5 /\ h.hdr_index \in 0..6
  BY Indices
<1>2. S \in SUBSET Nat /\ S # {}
  BY <1>1 DEF NUM_FILE_HDR_STRINGS
<1>3. NextHeader(h) = Min(S)
  BY DEF NextHeader
<1>4. NextHeader(h) \in S /\ \A y \in S : NextHeader(h) <= y
  <2> HIDE DEF S
  <2> QED BY <1>2, <1>3, Least
<1> QED BY <1>1, <1>4

(* One unit of the headers. *)
LEMMA HeaderUnit ==
    ASSUME NEW h \in HState, Header(h), h.hdr_index < NUM_FILE_HDR_STRINGS
    PROVE  /\ AfterHdrUnit(h) \in HState /\ Header(AfterHdrUnit(h)) /\ Kept(h, AfterHdrUnit(h))
           /\ AfterHdrUnit(h).off = h.off /\ AfterHdrUnit(h).left = h.left
           /\ HdrUnit(h) \in Unit
           /\ HdrRem(h) = {HdrUnit(h).tok} \cup HdrRem(AfterHdrUnit(h))
           /\ \A t \in HdrRem(AfterHdrUnit(h)) : HdrUnit(h).tok < t
           /\ \A n \in Nat : HdrUnit(h).tok < BodyTok(n)
<1> DEFINE k == AfterHdrUnit(h)
           i0 == h.hdr_index
           p0 == h.hdr_pos
           t0 == HdrUnit(h).tok
<1>1. /\ h.hdrs \subseteq 0..5 /\ i0 \in 0..5 /\ i0 \in h.hdrs /\ p0 \in 0..Units(i0) - 1
      /\ HdrLen \in Nat \ {0}
  BY Constants, Indices DEF NUM_FILE_HDR_STRINGS, Header
<1>2. t0 = HdrTok(i0, p0) /\ HdrUnit(h) \in Unit
  <2>1. HdrTok(i0, p0) \in Nat
    BY <1>1 DEF HdrTok, HTTP_STATUS, Units
  <2>2. h.block \in Ptr
    BY Fields
  <2> QED BY <2>1, <2>2 DEF HdrUnit, Unit
<1>3. t0 \in Nat /\ \A n \in Nat : t0 < BodyTok(n)
  BY <1>1, <1>2 DEF HdrTok, HTTP_STATUS, Units, BodyTok, NUM_FILE_HDR_STRINGS
<1>4. CASE p0 + 1 = Units(i0)
  <2> DEFINE n == NextHeader(h)
  <2>1. n \in h.hdrs \cup {6} /\ n > i0 /\ n \in 0..6 /\ \A i \in h.hdrs : i > i0 => n <= i
    BY <1>1, NextIs DEF NUM_FILE_HDR_STRINGS
  <2> HIDE DEF n
  <2>2. k = Moved(h, n, 0)
    BY <1>4 DEF AfterHdrUnit, Moved, n
  <2>3. /\ k \in HState /\ Kept(h, k) /\ k.off = h.off /\ k.left = h.left
        /\ k.hdr_index = n /\ k.hdr_pos = 0
    <3>1. n \in 0..NUM_FILE_HDR_STRINGS /\ 0 \in Nat
      BY <2>1 DEF NUM_FILE_HDR_STRINGS
    <3> HIDE DEF k
    <3> QED BY <2>2, <3>1, HeaderFields
  <2> HIDE DEF k
  <2>4. Header(k)
    BY <1>1, <2>1, <2>3 DEF Header, Kept, Units, HTTP_STATUS, NUM_FILE_HDR_STRINGS
  <2>5. HdrRem(k) = {t \in Nat : \E i \in h.hdrs : \E p \in 0..Units(i) - 1 : t = HdrTok(i, p) /\ i > i0}
    <3>1. ASSUME NEW i \in h.hdrs, NEW p \in 0..Units(i) - 1
          PROVE  (i > n \/ (i = n /\ p >= 0)) <=> i > i0
      BY <1>1, <2>1, <3>1
    <3> QED BY <2>3, <3>1 DEF HdrRem, Kept
  <2>6. ASSUME NEW i \in h.hdrs, NEW p \in 0..Units(i) - 1
        PROVE  (i > i0 \/ (i = i0 /\ p >= p0)) <=> (i > i0 \/ (i = i0 /\ p = p0))
    BY <1>1, <1>4 DEF Units
  <2>7. HdrRem(h) = {t0} \cup HdrRem(k)
    <3>1. ASSUME NEW t \in HdrRem(h) PROVE t \in {t0} \cup HdrRem(k)
      BY <1>2, <2>5, <2>6 DEF HdrRem
    <3>2. t0 \in HdrRem(h)
      BY <1>1, <1>2, <1>3 DEF HdrRem
    <3>3. ASSUME NEW t \in HdrRem(k) PROVE t \in HdrRem(h)
      BY <2>5 DEF HdrRem
    <3> QED BY <3>1, <3>2, <3>3
  <2>8. ASSUME NEW t \in HdrRem(k) PROVE t0 < t
    <3>1. PICK i \in h.hdrs, p \in Nat : p \in 0..Units(i) - 1 /\ t = HdrTok(i, p) /\ i > i0
      BY <2>5
    <3> QED BY <1>1, <1>2, <3>1 DEF HdrTok, HTTP_STATUS, Units
  <2> QED BY <1>2, <1>3, <2>3, <2>4, <2>7, <2>8 DEF k
<1>5. CASE p0 + 1 # Units(i0)
  <2>1. k = Moved(h, i0, p0 + 1)
    BY <1>5 DEF AfterHdrUnit, HState, Moved
  <2>2. /\ k \in HState /\ Kept(h, k) /\ k.off = h.off /\ k.left = h.left
        /\ k.hdr_index = i0 /\ k.hdr_pos = p0 + 1
    <3>1. p0 + 1 \in Nat /\ i0 \in 0..NUM_FILE_HDR_STRINGS
      BY <1>1, Fields
    <3> HIDE DEF k
    <3> QED BY <2>1, <3>1, HeaderFields
  <2> HIDE DEF k
  <2>3. i0 = 0 /\ Units(i0) = HdrLen /\ p0 + 1 \in 0..HdrLen - 1
    BY <1>1, <1>5 DEF Units, HTTP_STATUS
  <2>4. Header(k)
    BY <1>1, <2>2, <2>3 DEF Header, Kept
  <2>5. HdrRem(h) = {t0} \cup HdrRem(k)
    <3>1. ASSUME NEW t \in HdrRem(h) PROVE t \in {t0} \cup HdrRem(k)
      <4>1. PICK i \in h.hdrs, p \in Nat :
                 p \in 0..Units(i) - 1 /\ t = HdrTok(i, p) /\ (i > i0 \/ (i = i0 /\ p >= p0))
        BY DEF HdrRem
      <4>2. i > i0 \/ (i = i0 /\ p >= p0 + 1) \/ (i = i0 /\ p = p0)
        BY <1>1, <2>3, <4>1
      <4>3. k.hdrs = h.hdrs /\ t \in Nat
        BY <2>2 DEF Kept, HdrRem
      <4> QED BY <1>2, <2>2, <4>1, <4>2, <4>3 DEF HdrRem
    <3>2. t0 \in HdrRem(h)
      BY <1>1, <1>2, <1>3 DEF HdrRem
    <3>3. ASSUME NEW t \in HdrRem(k) PROVE t \in HdrRem(h)
      <4>1. PICK i \in h.hdrs, p \in Nat :
                 p \in 0..Units(i) - 1 /\ t = HdrTok(i, p) /\ (i > i0 \/ (i = i0 /\ p >= p0 + 1))
        BY <2>2 DEF HdrRem, Kept
      <4>2. i > i0 \/ (i = i0 /\ p >= p0)
        BY <1>1, <2>3, <4>1
      <4> QED BY <4>1, <4>2 DEF HdrRem
    <3> QED BY <3>1, <3>2, <3>3
  <2>6. ASSUME NEW t \in HdrRem(k) PROVE t0 < t
    <3>1. PICK i \in h.hdrs, p \in Nat :
               p \in 0..Units(i) - 1 /\ t = HdrTok(i, p) /\ (i > i0 \/ (i = i0 /\ p >= p0 + 1))
      BY <2>2 DEF HdrRem, Kept
    <3> QED BY <1>1, <1>2, <2>3, <3>1 DEF HdrTok, HTTP_STATUS
  <2> QED BY <1>2, <1>3, <2>2, <2>4, <2>5, <2>6 DEF k
<1> QED BY <1>4, <1>5

(* The recursion of http_send_headers. *)
Steps(h, room, f) == [n \in 0..room |-> IF n = 0 THEN h ELSE AfterHdrUnit(f[n - 1])]

LEMMA StepsExist ==
    ASSUME NEW h, NEW room \in Nat
    PROVE  \E f : f = Steps(h, room, f)
<1> DEFINE Bad == {r \in Nat : ~ \E f : f = Steps(h, r, f)}
<1>1. SUFFICES ASSUME Bad # {} PROVE FALSE
  OBVIOUS
<1>2. PICK m \in Bad : \A y \in Bad : m <= y
  <2>1. Bad \in SUBSET Nat
    OBVIOUS
  <2> HIDE DEF Bad
  <2> QED BY <1>1, <2>1, Least
<1>3. m # 0
  <2> SUFFICES ASSUME m = 0 PROVE FALSE
    OBVIOUS
  <2> DEFINE f == [n \in 0..0 |-> h]
  <2>1. f = Steps(h, 0, f)
    BY DEF Steps
  <2> HIDE DEF f
  <2> QED BY <2>1
<1>4. m - 1 \in Nat /\ m - 1 \notin Bad
  BY <1>2, <1>3
<1>5. PICK f : f = Steps(h, m - 1, f)
  BY <1>4
<1> DEFINE g == [n \in 0..m |-> IF n = 0 THEN h ELSE AfterHdrUnit(f[n - 1])]
<1>6. ASSUME NEW n \in 0..m, n # 0 PROVE g[n - 1] = f[n - 1]
  <2>1. n - 1 \in 0..m - 1 /\ n - 1 \in 0..m
    BY <1>6
  <2>2. f[n - 1] = IF n - 1 = 0 THEN h ELSE AfterHdrUnit(f[(n - 1) - 1])
    <3> DEFINE s == Steps(h, m - 1, f)
    <3>1. s[n - 1] = IF n - 1 = 0 THEN h ELSE AfterHdrUnit(f[(n - 1) - 1])
      BY <2>1 DEF Steps
    <3> HIDE DEF s
    <3>2. f = s
      BY <1>5 DEF s
    <3> QED BY <3>1, <3>2
  <2> QED BY <2>1, <2>2
<1>7. g = Steps(h, m, g)
  <2> DEFINE s == Steps(h, m, g)
  <2>1. s = [n \in 0..m |-> IF n = 0 THEN h ELSE AfterHdrUnit(g[n - 1])]
    BY DEF Steps
  <2>2. \A n \in 0..m : (IF n = 0 THEN h ELSE AfterHdrUnit(f[n - 1]))
                          = (IF n = 0 THEN h ELSE AfterHdrUnit(g[n - 1]))
    BY <1>6
  <2> HIDE DEF s
  <2>3. g = s
    BY <2>1, <2>2
  <2> QED BY <2>3 DEF s
<1> HIDE DEF g
<1> QED BY <1>7

AfterUnits(h, room) == CHOOSE f : f = Steps(h, room, f)

LEMMA StepsAre ==
    ASSUME NEW h, NEW room \in Nat, NEW f, f = AfterUnits(h, room)
    PROVE  f[0] = h /\ \A n \in 1..room : f[n] = AfterHdrUnit(f[n - 1])
<1>1. f = Steps(h, room, f)
  BY StepsExist DEF AfterUnits
<1> DEFINE s == Steps(h, room, f)
<1>2. \A n \in 0..room : s[n] = IF n = 0 THEN h ELSE AfterHdrUnit(f[n - 1])
  BY DEF Steps
<1> HIDE DEF s
<1>3. f = s
  BY <1>1 DEF s
<1>4. \A n \in 0..room : f[n] = IF n = 0 THEN h ELSE AfterHdrUnit(f[n - 1])
  BY <1>2, <1>3
<1>5. 0 \in 0..room /\ \A n \in 1..room : n \in 0..room /\ n # 0
  OBVIOUS
<1> QED BY <1>4, <1>5

(* What has been sent of the headers after m units. *)
Gone(f, m, rem, rest) ==
    /\ {f[i].tok : i \in 1..m} \cup rest = rem
    /\ \A i, j \in 1..m : i < j => f[i].tok < f[j].tok
    /\ \A i \in 1..m, t \in rest : f[i].tok < t

LEMMA GoneOne ==
    ASSUME NEW f, NEW m \in Nat, NEW rem, NEW rest, NEW rest2, Gone(f, m, rem, rest),
           rest = {f[m + 1].tok} \cup rest2, \A t \in rest2 : f[m + 1].tok < t
    PROVE  Gone(f, m + 1, rem, rest2)
<1>1. \A i \in 1..m + 1 : i \in 1..m \/ i = m + 1
  OBVIOUS
<1>2. m + 1 \in 1..m + 1 /\ \A i \in 1..m : i \in 1..m + 1
  OBVIOUS
<1>3. {f[i].tok : i \in 1..m + 1} \cup rest2 = rem
  BY <1>1, <1>2 DEF Gone
<1>4. ASSUME NEW i \in 1..m + 1, NEW j \in 1..m + 1, i < j PROVE f[i].tok < f[j].tok
  <2>1. CASE j = m + 1
    <3>1. i \in 1..m
      BY <1>1, <1>4, <2>1
    <3> QED BY <2>1, <3>1 DEF Gone
  <2>2. CASE j \in 1..m
    <3>1. i \in 1..m
      BY <1>4, <2>2
    <3> QED BY <1>4, <2>2, <3>1 DEF Gone
  <2> QED BY <1>1, <2>1, <2>2
<1>5. ASSUME NEW i \in 1..m + 1, NEW t \in rest2 PROVE f[i].tok < t
  BY <1>1 DEF Gone
<1> QED BY <1>3, <1>4, <1>5 DEF Gone

LEMMA HeadersSent ==
    ASSUME NEW h \in HState, Header(h), NEW room \in Nat, NEW short \in BOOLEAN,
           NEW r \in http_send_headers(h, room, short)
    PROVE  /\ r = [h |-> r.h, sent |-> r.sent]
           /\ r.h \in HState /\ Header(r.h) /\ Kept(h, r.h) /\ r.h.off = h.off /\ r.h.left = h.left
           /\ r.sent \in Seq(Unit) /\ Len(r.sent) <= room /\ Passed(r.sent, Rem(h), Rem(r.h))
<1> DEFINE after == AfterUnits(h, room)
           possible == {n \in 0..room : \A i \in 0..n - 1 : after[i].hdr_index < NUM_FILE_HDR_STRINGS}
           sent(n) == [i \in 1..n |-> HdrUnit(after[i - 1])]
<1>1. PICK n \in Taken(short, Max(possible)) : r = [h |-> after[n], sent |-> sent(n)]
  BY DEF http_send_headers, Steps, AfterUnits
<1>2. after[0] = h /\ \A k \in 1..room : after[k] = AfterHdrUnit(after[k - 1])
  <2> HIDE DEF after
  <2> QED BY StepsAre DEF after
<1> HIDE DEF after
<1>3. n \in 0..room /\ \A i \in 0..n - 1 : after[i].hdr_index < NUM_FILE_HDR_STRINGS
  <2>1. possible \in SUBSET (0..room) /\ 0 \in possible
    OBVIOUS
  <2>2. Max(possible) \in possible
    <3> HIDE DEF possible
    <3> QED BY <2>1, Greatest
  <2> HIDE DEF possible
  <2>3. Max(possible) \in Nat /\ Max(possible) \in 0..room
    <3>1. Max(possible) \in 0..room
      BY <2>1, <2>2, Zenon
    <3> QED BY <3>1
  <2>4. n \in 0..Max(possible)
    BY <2>3 DEF Taken
  <2>5. n \in 0..room /\ \A i \in 0..n - 1 : i \in 0..Max(possible) - 1
    BY <2>3, <2>4
  <2> QED BY <2>2, <2>5 DEF possible
<1> DEFINE f == sent(n)
           Good(m) == /\ after[m] \in HState /\ Header(after[m]) /\ Kept(h, after[m])
                      /\ after[m].off = h.off /\ after[m].left = h.left
                      /\ \A i \in 1..m : f[i] \in Unit /\ \A k \in Nat : f[i].tok < BodyTok(k)
                      /\ Gone(f, m, HdrRem(h), HdrRem(after[m]))
<1>4. Good(0)
  <2>1. \A i \in 1..0 : FALSE
    OBVIOUS
  <2>2. Kept(h, h)
    BY DEF Kept
  <2>3. Gone(f, 0, HdrRem(h), HdrRem(h))
    BY <2>1 DEF Gone
  <2> QED BY <1>2, <2>1, <2>2, <2>3
<1>5. ASSUME NEW m \in 0..n - 1, Good(m) PROVE Good(m + 1)
  <2> DEFINE k == after[m]
  <2>1. /\ m \in Nat /\ m + 1 \in 1..room /\ m + 1 \in 1..n /\ (m + 1) - 1 = m
        /\ after[m].hdr_index < NUM_FILE_HDR_STRINGS
    BY <1>3
  <2>2. after[m + 1] = AfterHdrUnit(after[m]) /\ f[m + 1] = HdrUnit(after[m])
    <3> HIDE DEF f
    <3>1. after[m + 1] = AfterHdrUnit(after[m])
      BY <1>2, <2>1
    <3> USE DEF f
    <3>2. f[m + 1] = HdrUnit(after[(m + 1) - 1])
      BY <2>1
    <3> QED BY <2>1, <3>1, <3>2
  <2> HIDE DEF f
  <2>3. /\ AfterHdrUnit(k) \in HState /\ Header(AfterHdrUnit(k)) /\ Kept(k, AfterHdrUnit(k))
        /\ AfterHdrUnit(k).off = k.off /\ AfterHdrUnit(k).left = k.left
        /\ HdrUnit(k) \in Unit
        /\ HdrRem(k) = {HdrUnit(k).tok} \cup HdrRem(AfterHdrUnit(k))
        /\ \A t \in HdrRem(AfterHdrUnit(k)) : HdrUnit(k).tok < t
        /\ \A j \in Nat : HdrUnit(k).tok < BodyTok(j)
    BY <1>5, <2>1, HeaderUnit
  <2>4. Kept(h, AfterHdrUnit(k))
    BY <1>5, <2>3 DEF Kept
  <2>5. Gone(f, m + 1, HdrRem(h), HdrRem(after[m + 1]))
    BY <1>5, <2>1, <2>2, <2>3, GoneOne
  <2>6. ASSUME NEW i \in 1..m + 1 PROVE f[i] \in Unit /\ \A j \in Nat : f[i].tok < BodyTok(j)
    <3>1. i \in 1..m \/ i = m + 1
      BY <2>1
    <3> QED BY <1>5, <2>2, <2>3, <3>1
  <2> QED BY <1>5, <2>2, <2>3, <2>4, <2>5, <2>6
<1>6. Good(n)
  <2> DEFINE Bad == {m \in 0..n : ~Good(m)}
  <2> SUFFICES ASSUME ~Good(n) PROVE FALSE
    OBVIOUS
  <2> HIDE DEF Good
  <2>1. Bad \in SUBSET Nat /\ n \in Bad
    BY <1>3
  <2>2. PICK m \in Bad : \A y \in Bad : m <= y
    <3> HIDE DEF Bad
    <3> QED BY <2>1, Least
  <2>3. m \in 0..n /\ ~Good(m) /\ m # 0
    BY <1>4, <2>2
  <2>4. m - 1 \in 0..n - 1 /\ (m - 1) + 1 = m /\ m - 1 \in 0..n
    BY <1>3, <2>3
  <2>5. Good(m - 1)
    <3>1. ~(m <= m - 1)
      BY <2>3, <2>4, <1>3
    <3> QED BY <2>2, <2>4, <3>1
  <2>6. Good((m - 1) + 1)
    BY <1>5, <2>4, <2>5
  <2> QED BY <2>3, <2>4, <2>6
<1>7. f \in Seq(Unit) /\ Len(f) = n /\ DOMAIN f = 1..n
  <2>1. \A i \in 1..n : f[i] \in Unit
    BY <1>6
  <2>2. \A i \in 1..n : HdrUnit(after[i - 1]) \in Unit
    BY <2>1
  <2> QED BY <1>3, <2>2
<1>8. /\ Rem(after[n]) = HdrRem(after[n]) \cup BodyRem(h) /\ \A t \in BodyRem(h) : BodyTok(h.off) <= t
      /\ h.off \in Nat
  <2>1. BodyRem(after[n]) = BodyRem(h)
    BY <1>6 DEF BodyRem
  <2> QED BY <2>1, Fields DEF Rem, BodyRem
<1> HIDE DEF f
<1>9. Passed(f, Rem(h), Rem(after[n]))
  <2>1. Gone(f, n, HdrRem(h), HdrRem(after[n]))
    BY <1>6
  <2>2. \A i \in 1..n : f[i] \in Unit /\ f[i].tok < BodyTok(h.off)
    BY <1>6, <1>8
  <2>3. ASSUME NEW i \in 1..n, NEW t \in BodyRem(h) PROVE f[i].tok < t
    <3>1. f[i].tok \in Nat /\ f[i].tok < BodyTok(h.off) /\ BodyTok(h.off) <= t /\ t \in Nat
      BY <1>8, <2>2 DEF Unit, BodyRem
    <3>2. BodyTok(h.off) \in Nat
      BY <1>8, Constants DEF BodyTok, NUM_FILE_HDR_STRINGS
    <3> QED BY <3>1, <3>2
  <2> QED BY <1>7, <1>8, <2>1, <2>3 DEF Passed, Gone, Rem
<1> USE DEF f
<1>10. r.h = after[n] /\ r.sent = f /\ r = [h |-> r.h, sent |-> r.sent]
  BY <1>1
<1> HIDE DEF f
<1> QED BY <1>3, <1>6, <1>7, <1>9, <1>10

Toks(sent) == [i \in DOMAIN sent |-> sent[i].tok]

LEMMA Strung ==
    ASSUME NEW S, NEW a \in Seq(S), NEW b \in Seq(S)
    PROVE  /\ a \o b \in Seq(S) /\ Len(a \o b) = Len(a) + Len(b) /\ Len(a) \in Nat /\ Len(b) \in Nat
           /\ DOMAIN a = 1..Len(a) /\ DOMAIN b = 1..Len(b) /\ DOMAIN (a \o b) = 1..Len(a) + Len(b)
           /\ \A i \in 1..Len(a) : (a \o b)[i] = a[i]
           /\ \A i \in 1..Len(b) : (a \o b)[Len(a) + i] = b[i]
<1>1. /\ a \o b \in Seq(S) /\ Len(a \o b) = Len(a) + Len(b)
      /\ \A i \in 1..Len(a) + Len(b) : (a \o b)[i] = IF i <= Len(a) THEN a[i] ELSE b[i - Len(a)]
  BY ConcatProperties
<1>2. /\ Len(a) \in Nat /\ Len(b) \in Nat /\ DOMAIN a = 1..Len(a) /\ DOMAIN b = 1..Len(b)
      /\ DOMAIN (a \o b) = 1..Len(a \o b)
  BY <1>1, LenProperties
<1> DEFINE c == a \o b
           m == Len(a)
           n == Len(b)
<1> HIDE DEF c, m, n
<1>3. ASSUME NEW i \in 1..m PROVE c[i] = a[i]
  <2>1. i \in 1..m + n /\ i <= m
    BY <1>2 DEF m, n
  <2> QED BY <1>1, <2>1 DEF c, m, n
<1>4. ASSUME NEW i \in 1..n PROVE c[m + i] = b[i]
  <2>1. m + i \in 1..m + n /\ ~(m + i <= m) /\ (m + i) - m = i
    BY <1>2 DEF m, n
  <2>2. c[m + i] = IF m + i <= m THEN a[m + i] ELSE b[(m + i) - m]
    BY <1>1, <2>1 DEF c, m, n
  <2> QED BY <2>1, <2>2
<1> QED BY <1>1, <1>2, <1>3, <1>4 DEF c, m, n

(* What is sent first is less than what is sent then. *)
LEMMA SendingOn ==
    ASSUME NEW a \in Seq(Nat), NEW b \in Seq(Nat), NEW r0, NEW r1, NEW r2,
           Sending(a, r1, r0), Sending(b, r2, r1)
    PROVE  Sending(a \o b, r2, r0)
<1> DEFINE c == a \o b
           m == Len(a)
           n == Len(b)
<1>1. /\ m \in Nat /\ n \in Nat /\ DOMAIN a = 1..m /\ DOMAIN b = 1..n /\ DOMAIN c = 1..m + n
      /\ \A i \in 1..m : c[i] = a[i]
      /\ \A i \in 1..n : c[m + i] = b[i]
  BY Strung
<1> HIDE DEF c, m, n
<1>2. ASSUME NEW i \in 1..m + n
      PROVE  (i \in 1..m /\ c[i] = a[i]) \/ \E k \in 1..n : i = m + k /\ c[i] = b[k]
  <2>1. CASE i <= m
    BY <1>1, <2>1
  <2>2. CASE ~(i <= m)
    <3>1. i - m \in 1..n /\ i = m + (i - m)
      BY <1>1, <2>2
    <3> QED BY <1>1, <3>1
  <2> QED BY <2>1, <2>2
<1>3. {b[k] : k \in 1..n} \cup r2 = r1 /\ {a[k] : k \in 1..m} \cup r1 = r0
  BY <1>1 DEF Sending
<1>4. (\A k \in 1..m : k \in 1..m + n) /\ (\A k \in 1..n : m + k \in 1..m + n)
  BY <1>1
<1>5. {c[i] : i \in 1..m + n} \cup r2 = r0
  <2>1. ASSUME NEW x \in {c[i] : i \in 1..m + n} PROVE x \in r0
    BY <1>2, <1>3
  <2>2. \A k \in 1..m : a[k] \in {c[i] : i \in 1..m + n}
    BY <1>1, <1>4
  <2>3. \A k \in 1..n : b[k] \in {c[i] : i \in 1..m + n}
    BY <1>1, <1>4
  <2>4. r2 \subseteq r0
    BY <1>3
  <2>5. \A x \in r0 : x \in r2 \/ (\E k \in 1..m : x = a[k]) \/ (\E k \in 1..n : x = b[k])
    BY <1>3
  <2> QED BY <2>1, <2>2, <2>3, <2>4, <2>5
<1>6. ASSUME NEW i \in 1..m + n, NEW j \in 1..m + n, i < j PROVE c[i] < c[j]
  <2>1. CASE j \in 1..m
    <3>1. i \in 1..m
      BY <1>1, <1>6, <2>1
    <3> QED BY <1>1, <1>6, <2>1, <3>1 DEF Sending
  <2>2. CASE j \notin 1..m
    <3>1. PICK k \in 1..n : j = m + k /\ c[j] = b[k]
      BY <1>2, <2>2
    <3>2. CASE i \in 1..m
      <4>1. b[k] \in r1
        BY <1>3
      <4> QED BY <1>1, <3>1, <3>2, <4>1 DEF Sending
    <3>3. CASE i \notin 1..m
      <4>1. PICK l \in 1..n : i = m + l /\ c[i] = b[l]
        BY <1>2, <3>3
      <4>2. l < k
        BY <1>1, <1>6, <3>1, <4>1
      <4> QED BY <1>1, <3>1, <4>1, <4>2 DEF Sending
    <3> QED BY <3>2, <3>3
  <2> QED BY <2>1, <2>2
<1>7. ASSUME NEW i \in 1..m + n, NEW t \in r2 PROVE c[i] < t
  <2>1. t \in r1
    BY <1>3
  <2>2. \A k \in 1..m : a[k] < t
    BY <1>1, <2>1 DEF Sending
  <2>3. \A k \in 1..n : b[k] < t
    BY <1>1 DEF Sending
  <2> QED BY <1>2, <2>2, <2>3
<1>8. Sending(c, r2, r0)
  BY <1>1, <1>5, <1>6, <1>7 DEF Sending
<1> QED BY <1>8 DEF c

LEMMA ToksOf ==
    ASSUME NEW s \in Seq(Unit)
    PROVE  Toks(s) \in Seq(Nat) /\ Len(Toks(s)) = Len(s)
<1>1. Len(s) \in Nat /\ DOMAIN s = 1..Len(s) /\ \A i \in 1..Len(s) : s[i] \in Unit
  BY LenProperties, ElementOfSeq
<1>2. \A i \in 1..Len(s) : s[i].tok \in Nat
  BY <1>1 DEF Unit
<1> QED BY <1>1, <1>2 DEF Toks

LEMMA PassedIs ==
    ASSUME NEW s \in Seq(Unit), NEW rem, NEW rest
    PROVE  Passed(s, rem, rest) <=> Sending(Toks(s), rest, rem)
<1>1. DOMAIN Toks(s) = DOMAIN s /\ \A i \in DOMAIN s : Toks(s)[i] = s[i].tok
  BY DEF Toks
<1> QED BY <1>1 DEF Passed, Sending

LEMMA ToksJoined ==
    ASSUME NEW a \in Seq(Unit), NEW b \in Seq(Unit)
    PROVE  Toks(a \o b) = Toks(a) \o Toks(b)
<1> DEFINE x == Toks(a \o b)
           y == Toks(a) \o Toks(b)
           m == Len(a)
           n == Len(b)
<1>1. /\ a \o b \in Seq(Unit) /\ Len(a \o b) = m + n /\ DOMAIN (a \o b) = 1..m + n
      /\ DOMAIN a = 1..m /\ DOMAIN b = 1..n /\ m \in Nat /\ n \in Nat
      /\ \A i \in 1..m : (a \o b)[i] = a[i]
      /\ \A i \in 1..n : (a \o b)[m + i] = b[i]
  BY Strung
<1>2. /\ x \in Seq(Nat) /\ Len(x) = m + n /\ Toks(a) \in Seq(Nat) /\ Len(Toks(a)) = m
      /\ Toks(b) \in Seq(Nat) /\ Len(Toks(b)) = n
  BY <1>1, ToksOf, Zenon
<1>3. /\ y \in Seq(Nat) /\ Len(y) = m + n
      /\ \A i \in 1..m : y[i] = Toks(a)[i]
      /\ \A i \in 1..n : y[m + i] = Toks(b)[i]
  <2> DEFINE u == Toks(a)
             v == Toks(b)
  <2> HIDE DEF u, v
  <2>1. /\ u \o v \in Seq(Nat) /\ Len(u \o v) = Len(u) + Len(v)
        /\ \A i \in 1..Len(u) : (u \o v)[i] = u[i]
        /\ \A i \in 1..Len(v) : (u \o v)[Len(u) + i] = v[i]
    <3>1. u \in Seq(Nat) /\ v \in Seq(Nat)
      BY <1>2 DEF u, v
    <3> QED BY <3>1, Strung
  <2> QED BY <1>2, <2>1 DEF u, v
<1>4. /\ \A i \in 1..m : x[i] = a[i].tok /\ Toks(a)[i] = a[i].tok
      /\ \A i \in 1..n : x[m + i] = b[i].tok /\ Toks(b)[i] = b[i].tok
  <2>1. (\A i \in 1..m : i \in 1..m + n) /\ (\A i \in 1..n : m + i \in 1..m + n)
    BY <1>1
  <2> QED BY <1>1, <2>1 DEF Toks
<1> HIDE DEF x, y, m, n
<1>5. ASSUME NEW i \in 1..m + n PROVE x[i] = y[i]
  <2>1. CASE i <= m
    <3>1. i \in 1..m
      BY <1>1, <2>1
    <3> QED BY <1>3, <1>4, <3>1
  <2>2. CASE ~(i <= m)
    <3>1. i - m \in 1..n /\ i = m + (i - m)
      BY <1>1, <2>2
    <3> QED BY <1>3, <1>4, <3>1
  <2> QED BY <2>1, <2>2
<1>6. x = y
  BY <1>2, <1>3, <1>5, SeqEqual
<1> QED BY <1>6 DEF x, y

Further(h, n) == [h EXCEPT !.off = @ + n, !.left = @ - n]

LEMMA FurtherFields ==
    ASSUME NEW h \in HState, NEW n \in Nat, n <= h.left, NEW k, k = Further(h, n)
    PROVE  /\ k \in HState /\ Kept(h, k) /\ k.hdr_index = h.hdr_index /\ k.hdr_pos = h.hdr_pos
           /\ k.off = h.off + n /\ k.left = h.left - n
<1>1. h.off \in Nat /\ h.left \in Nat
  BY Fields
<1>2. h.off + n \in Nat /\ h.left - n \in Nat
  BY <1>1
<1> QED BY <1>2 DEF HState, Kept, Further

LEMMA NoHeaders ==
    ASSUME NEW h \in HState, h.hdr_index = NUM_FILE_HDR_STRINGS
    PROVE  HdrRem(h) = {}
<1>1. h.hdrs \subseteq 0..5 /\ h.hdr_index = 6
  BY Indices DEF NUM_FILE_HDR_STRINGS
<1>2. \A i \in h.hdrs : ~(i > h.hdr_index) /\ i # h.hdr_index
  BY <1>1
<1> QED BY <1>2 DEF HdrRem

LEMMA DataSent ==
    ASSUME NEW h \in HState, h.hdr_index = NUM_FILE_HDR_STRINGS, NEW room \in Nat,
           NEW short \in BOOLEAN, NEW d \in http_send_data_nonssi(h, room, short)
    PROVE  /\ d.h \in HState /\ Kept(h, d.h) /\ d.h.hdr_index = h.hdr_index
           /\ d.sent \in Seq(Unit) /\ Len(d.sent) <= room /\ Passed(d.sent, Rem(h), Rem(d.h))
<1> DEFINE sent(n) == [i \in 1..n |-> [tok |-> BodyTok(h.off + i - 1), mem |-> h.file]]
<1>1. PICK n \in Taken(short, Min({h.left, room})) : d = [h |-> Further(h, n), sent |-> sent(n)]
  BY DEF http_send_data_nonssi, Further
<1>2. h.off \in Nat /\ h.left \in Nat /\ h.file \in Ptr \cup {ROM} /\ HdrLen \in Nat
  BY Fields, Constants
<1>3. n \in Nat /\ n <= h.left /\ n <= room
  <2> DEFINE m == Min({h.left, room})
  <2>1. {h.left, room} \in SUBSET Nat /\ {h.left, room} # {}
    BY <1>2
  <2>2. m \in {h.left, room} /\ \A y \in {h.left, room} : m <= y
    BY <2>1, Least, Zenon
  <2> HIDE DEF m
  <2>3. m \in Nat /\ m <= h.left /\ m <= room
    BY <1>2, <2>2
  <2>4. n \in 0..m
    BY <2>3 DEF Taken, m
  <2> QED BY <1>2, <2>3, <2>4
<1> DEFINE f == sent(n)
           k == Further(h, n)
<1>4. d.h = k /\ d.sent = f
  BY <1>1
<1>5. /\ k \in HState /\ Kept(h, k) /\ k.hdr_index = h.hdr_index /\ k.hdr_pos = h.hdr_pos
      /\ k.off = h.off + n /\ k.left = h.left - n
  <2> HIDE DEF k
  <2> QED BY <1>3, FurtherFields DEF k
<1> HIDE DEF k
<1>6. ASSUME NEW i \in 1..n
      PROVE  f[i] \in Unit /\ f[i].tok = HdrLen + NUM_FILE_HDR_STRINGS + (h.off + i - 1)
  <2>1. BodyTok(h.off + i - 1) \in Nat
    BY <1>2, <1>3 DEF BodyTok, NUM_FILE_HDR_STRINGS
  <2> QED BY <1>2, <2>1 DEF Unit, BodyTok
<1>7. f \in Seq(Unit) /\ Len(f) = n /\ DOMAIN f = 1..n
  <2>1. \A i \in 1..n : [tok |-> BodyTok(h.off + i - 1), mem |-> h.file] \in Unit
    BY <1>6
  <2> QED BY <1>3, <2>1
<1> HIDE DEF f
<1>8. Rem(h) = BodyRem(h) /\ Rem(k) = BodyRem(k)
  BY <1>5, NoHeaders DEF Rem
<1>9. Passed(f, BodyRem(h), BodyRem(k))
  <2>1. {f[i].tok : i \in 1..n} \cup BodyRem(k) = BodyRem(h)
    <3>1. \A i \in 1..n : f[i].tok \in BodyRem(h)
      BY <1>2, <1>3, <1>6 DEF BodyRem, BodyTok, NUM_FILE_HDR_STRINGS
    <3>2. BodyRem(k) \subseteq BodyRem(h)
      BY <1>2, <1>3, <1>5 DEF BodyRem, BodyTok, NUM_FILE_HDR_STRINGS
    <3>3. ASSUME NEW t \in BodyRem(h), t \notin BodyRem(k) PROVE \E i \in 1..n : t = f[i].tok
      <4> DEFINE i == t - (HdrLen + NUM_FILE_HDR_STRINGS + h.off) + 1
      <4>1. i \in 1..n /\ t = HdrLen + NUM_FILE_HDR_STRINGS + (h.off + i - 1)
        BY <1>2, <1>3, <1>5, <3>3 DEF BodyRem, BodyTok, NUM_FILE_HDR_STRINGS
      <4> HIDE DEF i
      <4> QED BY <1>6, <4>1
    <3> QED BY <3>1, <3>2, <3>3
  <2>2. \A i, j \in 1..n : i < j => f[i].tok < f[j].tok
    BY <1>2, <1>3, <1>6 DEF NUM_FILE_HDR_STRINGS
  <2>3. \A i \in 1..n, t \in BodyRem(k) : f[i].tok < t
    BY <1>2, <1>3, <1>5, <1>6 DEF BodyRem, BodyTok, NUM_FILE_HDR_STRINGS
  <2> QED BY <1>7, <2>1, <2>2, <2>3 DEF Passed
<1> QED BY <1>3, <1>4, <1>5, <1>7, <1>8, <1>9

LEMMA SumFits ==
    ASSUME NEW a \in Nat, NEW b \in Nat, NEW n \in Nat, b <= n - a
    PROVE  a + b <= n
OBVIOUS

(* What a call of http_send comes to. *)
LEMMA HttpSend ==
    ASSUME NEW h \in HState, Header(h), Source(h), NEW room \in Nat, NEW short \in BOOLEAN,
           NEW s \in http_send(h, room, short)
    PROVE  /\ s.h \in HState /\ Header(s.h) /\ Source(s.h) /\ Kept(h, s.h)
           /\ s.sent \in Seq(Unit) /\ Len(s.sent) <= room /\ Passed(s.sent, Rem(h), Rem(s.h))
           /\ s.eof \in BOOLEAN /\ (s.eof => Rem(s.h) = {}) /\ (~s.eof => ~Fresh(s.h))
<1> DEFINE heads == IF h.hdr_index < NUM_FILE_HDR_STRINGS THEN http_send_headers(h, room, short)
                    ELSE {[h |-> h, sent |-> <<>>]}
           rest(r) == IF r.h.hdr_index < NUM_FILE_HDR_STRINGS
                      THEN {[h |-> r.h, sent |-> r.sent, eof |-> FALSE]}
                      ELSE IF r.h.file = NULL \/ r.h.left = 0
                      THEN {[h |-> r.h, sent |-> r.sent, eof |-> http_check_eof(r.h)]}
                      ELSE {[h |-> d.h, sent |-> r.sent \o d.sent,
                             eof |-> d.h.left = 0 /\ fs_bytes_left(d.h.handle) <= 0] :
                               d \in http_send_data_nonssi(r.h, room - Len(r.sent), short)}
<1>1. PICK r \in heads : s \in rest(r)
  BY DEF http_send
<1>2. /\ r.h \in HState /\ Header(r.h) /\ Kept(h, r.h) /\ r.h.off = h.off /\ r.h.left = h.left
      /\ r.sent \in Seq(Unit) /\ Len(r.sent) <= room /\ Passed(r.sent, Rem(h), Rem(r.h))
  <2>1. CASE h.hdr_index < NUM_FILE_HDR_STRINGS
    BY <2>1, HeadersSent
  <2>2. CASE ~(h.hdr_index < NUM_FILE_HDR_STRINGS)
    <3>1. r.h = h /\ r.sent = <<>>
      BY <2>2
    <3>2. Passed(<<>>, Rem(h), Rem(h))
      BY DEF Passed
    <3> QED BY <3>1, <3>2 DEF Kept
  <2> QED BY <2>1, <2>2
<1> HIDE DEF heads
<1>3. /\ r.h.hdr_index \in 0..6 /\ h.left \in Nat /\ r.h.handle \in BOOLEAN /\ h.off \in Nat
      /\ Len(r.sent) \in Nat
  BY <1>2, Fields, Indices, LenProperties
<1>4. Source(r.h)
  BY <1>2 DEF Source, Kept
<1>5. CASE r.h.hdr_index < NUM_FILE_HDR_STRINGS
  <2>1. s = [h |-> r.h, sent |-> r.sent, eof |-> FALSE]
    BY <1>1, <1>5
  <2>2. s.h = r.h /\ s.sent = r.sent /\ s.eof = FALSE
    BY <2>1
  <2>3. ~Fresh(r.h)
    BY <1>5 DEF Fresh, NUM_FILE_HDR_STRINGS
  <2> QED BY <1>2, <1>4, <2>2, <2>3
<1>6. CASE ~(r.h.hdr_index < NUM_FILE_HDR_STRINGS) /\ (r.h.file = NULL \/ r.h.left = 0)
  <2>1. s = [h |-> r.h, sent |-> r.sent, eof |-> http_check_eof(r.h)]
    BY <1>1, <1>6
  <2>2. s.h = r.h /\ s.sent = r.sent /\ s.eof = http_check_eof(r.h)
    BY <2>1
  <2>3. r.h.left = 0 /\ r.h.hdr_index = NUM_FILE_HDR_STRINGS
    BY <1>3, <1>4, <1>6 DEF Source, NUM_FILE_HDR_STRINGS
  <2>4. Rem(r.h) = {}
    <3>1. BodyRem(r.h) = {}
      BY <1>2, <1>3, <2>3, Constants DEF BodyRem, BodyTok, NUM_FILE_HDR_STRINGS
    <3> QED BY <1>2, <2>3, <3>1, NoHeaders DEF Rem
  <2>5. http_check_eof(r.h) \in BOOLEAN
    BY DEF http_check_eof
  <2>6. ~http_check_eof(r.h) => ~Fresh(r.h)
    BY <1>4 DEF http_check_eof, Source, Fresh
  <2> QED BY <1>2, <1>4, <2>2, <2>4, <2>5, <2>6
<1>7. CASE ~(r.h.hdr_index < NUM_FILE_HDR_STRINGS) /\ ~(r.h.file = NULL \/ r.h.left = 0)
  <2> DEFINE room2 == room - Len(r.sent)
             eof(k) == k.left = 0 /\ fs_bytes_left(k.handle) <= 0
  <2>1. PICK d \in http_send_data_nonssi(r.h, room2, short) :
               s = [h |-> d.h, sent |-> r.sent \o d.sent, eof |-> eof(d.h)]
    BY <1>1, <1>7
  <2>2. s.h = d.h /\ s.sent = r.sent \o d.sent /\ s.eof = eof(d.h)
    BY <2>1
  <2>3. room2 \in Nat /\ r.h.hdr_index = NUM_FILE_HDR_STRINGS
    BY <1>2, <1>3, <1>7 DEF NUM_FILE_HDR_STRINGS
  <2> HIDE DEF room2
  <2>4. /\ d.h \in HState /\ Kept(r.h, d.h) /\ d.h.hdr_index = r.h.hdr_index
        /\ d.sent \in Seq(Unit) /\ Len(d.sent) <= room2 /\ Passed(d.sent, Rem(r.h), Rem(d.h))
    BY <1>2, <2>3, DataSent
  <2>5. Kept(h, d.h) /\ d.h.file # NULL
    BY <1>2, <1>7, <2>4 DEF Kept
  <2>6. Header(d.h) /\ ~Fresh(d.h)
    BY <2>3, <2>4, <2>5 DEF Header, Fresh, NUM_FILE_HDR_STRINGS
  <2>7. Source(d.h)
    BY <1>4, <1>7, <2>4 DEF Source, Kept
  <2>8. Passed(r.sent \o d.sent, Rem(h), Rem(d.h)) /\ r.sent \o d.sent \in Seq(Unit)
    <3>1. r.sent \o d.sent \in Seq(Unit) /\ Toks(r.sent \o d.sent) = Toks(r.sent) \o Toks(d.sent)
      BY <1>2, <2>4, Strung, ToksJoined
    <3>2. Sending(Toks(r.sent), Rem(r.h), Rem(h)) /\ Sending(Toks(d.sent), Rem(d.h), Rem(r.h))
      BY <1>2, <2>4, PassedIs
    <3>3. Toks(r.sent) \in Seq(Nat) /\ Toks(d.sent) \in Seq(Nat)
      BY <1>2, <2>4, ToksOf
    <3>4. Sending(Toks(r.sent) \o Toks(d.sent), Rem(d.h), Rem(h))
      BY <3>2, <3>3, SendingOn
    <3> QED BY <3>1, <3>4, PassedIs
  <2>9. Len(r.sent \o d.sent) <= room
    <3>1. Len(r.sent \o d.sent) = Len(r.sent) + Len(d.sent)
      BY <1>2, <2>4, Strung
    <3>4. Len(d.sent) \in Nat
      BY <2>4, LenProperties
    <3>2. Len(d.sent) <= room - Len(r.sent)
      BY <2>4 DEF room2
    <3>3. Len(r.sent) + Len(d.sent) <= room
      BY <1>3, <3>2, <3>4, SumFits
    <3> QED BY <3>1, <3>3
  <2>10. eof(d.h) => Rem(d.h) = {}
    <3> SUFFICES ASSUME d.h.left = 0 PROVE Rem(d.h) = {}
      OBVIOUS
    <3>1. d.h.off \in Nat
      BY <2>4, Fields
    <3>2. BodyRem(d.h) = {}
      BY <3>1, Constants DEF BodyRem, BodyTok, NUM_FILE_HDR_STRINGS
    <3> QED BY <2>3, <2>4, <3>2, NoHeaders DEF Rem
  <2>11. eof(d.h) \in BOOLEAN
    OBVIOUS
  <2> HIDE DEF eof
  <2> QED BY <2>2, <2>4, <2>5, <2>6, <2>7, <2>8, <2>9, <2>10, <2>11
<1> QED BY <1>5, <1>6, <1>7

-----------------------------------------------------------------------------
(* A change of one connection: it is left in state k, with http_state h,   *)
(* history g and queue q, and the memory and current_connection as given;  *)
(* post: a POST began or ended.                                            *)

Overlapped(g, b) == [g EXCEPT !.overlap = @ \/ b]

Moves(c, k, h, g, q, mem, gone, cur, post) ==
    /\ conn' = [conn EXCEPT ![c] = k]
    /\ hs' = [hs EXCEPT ![c] = h]
    /\ tcp' = [tcp EXCEPT ![c] = q]
    /\ gh' = [d \in Conns |-> IF d = c THEN g ELSE Overlapped(gh[d], post /\ d \in Posting)]
    /\ heap' = mem /\ lost' = gone /\ current_connection' = cur /\ UNCHANGED nullLeft

IsPosting(k, h) == k = "open" /\ h.post_content_len_left > 0

Owned(h) ==
    {h.block} \cup (IF h.post_content_len_left > 0 THEN {h.post_content} ELSE {})
    \cup ({h.post_response_buf} \ {NULL})

OwnedIn(k, h) == IF k = "open" THEN Owned(h) ELSE {}

(* What the other connections own, and whether they keep to it. *)
Rest(c) == UNION {OwnedBy(d) : d \in Opened \ {c}}
CalmBut(c) == \A d \in Conns \ {c} : ~gh[d].twice
Others(c) == Cardinality(Posting \ {c})

(* Of the memory, own is the connection's. *)
Holds(c, mem, gone, own) ==
    gone \subseteq mem /\ mem \ gone = own \cup Rest(c) /\ own \cap Rest(c) = {}

Fit(c, k, h, g, q, mem, gone, cur, post) ==
    /\ k \in {"open", "closing", "closed"} /\ h \in HState /\ g \in Hist
    /\ q \in Seq(Ptr \cup {ROM}) /\ Len(q) <= SndBuf
    /\ mem \in SUBSET Blocks /\ gone \in SUBSET Blocks /\ cur \in Conns \cup {NULL}
    /\ k = "open" => /\ Local(h, g) /\ h.block \in Blocks
                     /\ Fresh(h) /\ ~g.again => q = <<>>
    /\ k # "open" => Complete(g) /\ (g.handled = "otherwise" => g.odd)
    /\ (post /\ cur \in {c, NULL}) \/ (~post /\ cur = current_connection)
    /\ IsPosting(k, h) => (g.overlap <=> cur # c)
    /\ Cardinality(Blocks \ mem) >= Others(c) + (IF IsPosting(k, h) THEN 1 ELSE 0)
    /\ gh[c].twice => g.twice
    /\ ~g.twice /\ CalmBut(c) =>
          Holds(c, mem, gone, OwnedIn(k, h)) /\ (k = "open" => Apart(h))

LEMMA OverlappedFields ==
    ASSUME NEW g \in Hist, NEW b \in BOOLEAN, NEW o, o = Overlapped(g, b)
    PROVE  /\ o \in Hist /\ o.out = g.out /\ o.due = g.due /\ o.odd = g.odd /\ o.again = g.again
           /\ o.twice = g.twice /\ o.posted = g.posted /\ o.handled = g.handled
           /\ o.overlap <=> (g.overlap \/ b)
BY DEF Hist, Overlapped

LEMMA HistFields ==
    ASSUME NEW g \in Hist
    PROVE  /\ g.out \in Seq(Nat) /\ g.due \in SUBSET Nat /\ g.overlap \in BOOLEAN /\ g.odd \in BOOLEAN
           /\ g.again \in BOOLEAN /\ g.twice \in BOOLEAN /\ g.posted \in Nat
           /\ g.handled \in {"no", "as_sent", "otherwise"} /\ g.recvs \in Nat
BY DEF Hist

LEMMA LocalKept ==
    ASSUME NEW h, NEW g \in Hist, NEW b \in BOOLEAN, NEW o, o = Overlapped(g, b), Local(h, g)
    PROVE  Local(h, o)
<1>1. /\ o.out = g.out /\ o.due = g.due /\ o.odd = g.odd /\ o.again = g.again
      /\ o.posted = g.posted /\ o.handled = g.handled /\ (o.overlap <=> (g.overlap \/ b))
  BY OverlappedFields
<1>2. Answered(h, o)
  BY <1>1 DEF Local, Answered
<1>3. Body(h, o) /\ Response(h, o)
  BY <1>1 DEF Local, Body, Response
<1> QED BY <1>2, <1>3 DEF Local

LEMMA Change ==
    ASSUME HttpdInv, NEW c \in Conns, NEW k, NEW h, NEW g, NEW q, NEW mem, NEW gone, NEW cur,
           NEW post \in BOOLEAN, Fit(c, k, h, g, q, mem, gone, cur, post),
           Moves(c, k, h, g, q, mem, gone, cur, post)
    PROVE  HttpdInv'
<1> DEFINE o(d) == Overlapped(gh[d], post /\ d \in Posting)
<1>1. /\ conn \in [Conns -> {"new", "open", "closing", "closed"}]
      /\ hs \in [Conns -> HState] /\ gh \in [Conns -> Hist] /\ tcp \in [Conns -> Seq(Ptr \cup {ROM})]
  BY DEF HttpdInv, Types
<1>2. /\ conn'[c] = k /\ \A d \in Conns \ {c} : conn'[d] = conn[d]
      /\ hs'[c] = h /\ \A d \in Conns \ {c} : hs'[d] = hs[d]
      /\ tcp'[c] = q /\ \A d \in Conns \ {c} : tcp'[d] = tcp[d]
  BY <1>1 DEF Moves
<1>3. gh'[c] = g /\ \A d \in Conns \ {c} : gh'[d] = o(d)
  BY DEF Moves
<1>4. ASSUME NEW d \in Conns
      PROVE  /\ o(d) \in Hist /\ o(d).out = gh[d].out /\ o(d).due = gh[d].due /\ o(d).odd = gh[d].odd
             /\ o(d).again = gh[d].again /\ o(d).twice = gh[d].twice /\ o(d).handled = gh[d].handled
             /\ o(d).overlap <=> (gh[d].overlap \/ (post /\ d \in Posting))
  <2>1. (post /\ d \in Posting) \in BOOLEAN /\ gh[d] \in Hist
    BY <1>1
  <2> DEFINE b == post /\ d \in Posting
             x == Overlapped(gh[d], b)
  <2>2. b \in BOOLEAN /\ x = Overlapped(gh[d], b)
    BY <2>1
  <2> HIDE DEF b, x
  <2>3. /\ x \in Hist /\ x.out = gh[d].out /\ x.due = gh[d].due /\ x.odd = gh[d].odd
        /\ x.again = gh[d].again /\ x.twice = gh[d].twice /\ x.handled = gh[d].handled
        /\ x.overlap <=> (gh[d].overlap \/ b)
    BY <2>1, <2>2, OverlappedFields
  <2> QED BY <2>3 DEF x, b
<1>5. /\ k \in {"open", "closing", "closed"} /\ h \in HState /\ g \in Hist
      /\ q \in Seq(Ptr \cup {ROM}) /\ Len(q) <= SndBuf
      /\ mem \in SUBSET Blocks /\ gone \in SUBSET Blocks /\ cur \in Conns \cup {NULL}
  BY DEF Fit
<1> HIDE DEF o
<1>6. Types'
  <2>1. conn' \in [Conns -> {"new", "open", "closing", "closed"}]
    BY <1>1, <1>5 DEF Moves
  <2>2. hs' \in [Conns -> HState]
    BY <1>1, <1>5 DEF Moves
  <2>3. tcp' \in [Conns -> Seq(Ptr \cup {ROM})]
    BY <1>1, <1>5 DEF Moves
  <2>4. gh' \in [Conns -> Hist]
    <3>1. gh' = [d \in Conns |-> IF d = c THEN g ELSE o(d)]
      BY DEF Moves, o
    <3> QED BY <1>4, <1>5, <3>1
  <2>5. heap' \subseteq Blocks /\ lost' \subseteq Blocks /\ current_connection' \in Conns \cup {NULL}
        /\ nullLeft' \in {0, 1}
    BY <1>5 DEF Moves, HttpdInv, Types
  <2> QED BY <2>1, <2>2, <2>3, <2>4, <2>5 DEF Types
<1>7. ASSUME NEW d \in Conns PROVE Each(d)'
  <2>1. CASE d = c
    <3>1. Each(c)'
      BY <1>2, <1>3, <1>5 DEF Each, Fit
    <3> QED BY <2>1, <3>1
  <2>2. CASE d # c
    <3>1. conn'[d] = conn[d] /\ hs'[d] = hs[d] /\ tcp'[d] = tcp[d] /\ gh'[d] = o(d) /\ Each(d)
      BY <1>2, <1>3, <2>2 DEF HttpdInv
    <3>2. conn[d] = "open" => Local(hs[d], o(d))
      <4>1. (post /\ d \in Posting) \in BOOLEAN /\ gh[d] \in Hist
        BY <1>1
      <4> DEFINE b == post /\ d \in Posting
      <4>2. b \in BOOLEAN /\ o(d) = Overlapped(gh[d], b)
        BY <4>1 DEF o
      <4> HIDE DEF b
      <4> QED BY <3>1, <4>1, <4>2, LocalKept DEF Each
    <3>3. conn[d] = "new" => o(d).out = <<>> /\ o(d).due = {} /\ o(d).handled = "no"
      BY <1>4, <3>1 DEF Each
    <3>4. conn[d] \in {"closing", "closed"} => Complete(o(d)) /\ (o(d).handled = "otherwise" => o(d).odd)
      BY <1>4, <3>1 DEF Each, Complete
    <3>5. Len(tcp[d]) <= SndBuf
      BY <3>1 DEF Each
    <3>6. conn[d] = "open" => /\ hs[d].block \in Blocks
                              /\ Fresh(hs[d]) /\ ~o(d).again => tcp[d] = <<>>
      BY <1>4, <3>1 DEF Each
    <3>7. conn[d] = "new" => tcp[d] = <<>>
      BY <3>1 DEF Each
    <3> QED BY <3>1, <3>2, <3>3, <3>4, <3>5, <3>6, <3>7 DEF Each
  <2> QED BY <2>1, <2>2
<1>8. /\ \A d \in Conns \ {c} : d \in Posting' <=> d \in Posting
      /\ c \in Posting' <=> IsPosting(k, h)
  BY <1>2 DEF Posting, IsPosting
<1>9. Current'
  <2> SUFFICES ASSUME NEW d \in Posting' PROVE gh'[d].overlap <=> current_connection' # d
    BY DEF Current
  <2>1. d \in Conns /\ current_connection' = cur
    BY DEF Posting, Moves
  <2>2. CASE d = c
    <3>1. IsPosting(k, h)
      BY <1>8, <2>2
    <3> QED BY <1>3, <2>1, <2>2, <3>1 DEF Fit
  <2>3. CASE d # c
    <3>1. d \in Posting /\ gh'[d] = o(d) /\ (o(d).overlap <=> (gh[d].overlap \/ post))
      BY <1>3, <1>4, <1>8, <2>1, <2>3
    <3>2. gh[d].overlap <=> current_connection # d
      BY <3>1 DEF HttpdInv, Current
    <3>3. d # NULL
      BY <2>1, Constants
    <3>4. (post /\ cur \in {c, NULL}) \/ (~post /\ cur = current_connection)
      BY DEF Fit
    <3> QED BY <2>1, <2>3, <3>1, <3>2, <3>3, <3>4
  <2> QED BY <2>2, <2>3
<1>10. Memory'
  <2> DEFINE P == Posting \ {c}
  <2>1. IsFiniteSet(P) /\ Cardinality(P) \in Nat /\ c \notin P
    <3>1. P \subseteq Conns /\ IsFiniteSet(Conns)
      BY Constants DEF Posting
    <3> QED BY <3>1, FS_Subset, FS_CardinalityType
  <2>2. Posting' = IF IsPosting(k, h) THEN P \cup {c} ELSE P
    <3>1. Posting' \subseteq Conns /\ Posting \subseteq Conns
      BY DEF Posting
    <3> QED BY <1>8, <3>1
  <2>3. Cardinality(Posting') = Cardinality(P) + (IF IsPosting(k, h) THEN 1 ELSE 0)
    <3> HIDE DEF P
    <3>1. Cardinality(P \cup {c}) = Cardinality(P) + 1
      BY <2>1, FS_AddElement
    <3> QED BY <2>1, <2>2, <3>1
  <2>4. Cardinality(Blocks \ mem) >= Cardinality(P) + (IF IsPosting(k, h) THEN 1 ELSE 0)
    BY DEF Fit, Others
  <2> HIDE DEF P
  <2>5. heap' = mem
    BY DEF Moves
  <2> QED BY <2>3, <2>4, <2>5 DEF Memory
<1>11. Ownership'
  <2> SUFFICES ASSUME \A d \in Conns : ~gh'[d].twice PROVE
             /\ HeapExact' /\ lost' \subseteq heap' /\ \A d \in Opened' : Apart(hs'[d])
    BY DEF Ownership
  <2>1. ~g.twice /\ ~gh[c].twice /\ CalmBut(c)
    <3>1. ~g.twice /\ \A d \in Conns \ {c} : ~gh[d].twice
      BY <1>3, <1>4
    <3> QED BY <3>1 DEF Fit, CalmBut
  <2>2. /\ gone \subseteq mem /\ mem \ gone = OwnedIn(k, h) \cup Rest(c)
        /\ OwnedIn(k, h) \cap Rest(c) = {} /\ (k = "open" => Apart(h))
    BY <2>1 DEF Fit, Holds
  <2>3. HeapExact /\ \A d \in Opened : Apart(hs[d])
    BY <2>1 DEF HttpdInv, Ownership, CalmBut
  <2>4. \A d, e \in Opened : d # e => OwnedBy(d) \cap OwnedBy(e) = {}
    <3>1. \A d \in Conns : ~gh[d].twice
      BY <2>1 DEF CalmBut
    <3> QED BY <2>3, <3>1 DEF HeapExact, Opened
  <2>5. /\ \A d \in Conns \ {c} : d \in Opened' <=> d \in Opened
        /\ c \in Opened' <=> k = "open"
        /\ Opened' \subseteq Conns
    BY <1>2 DEF Opened
  <2>6. \A d \in Conns \ {c} : OwnedBy(d)' = OwnedBy(d)
    BY <1>2, <1>8 DEF OwnedBy
  <2>7. k = "open" => OwnedBy(c)' = Owned(h)
    BY <1>2, <1>8 DEF OwnedBy, Owned, IsPosting
  <2>8. UNION {OwnedBy(d)' : d \in Opened'} = OwnedIn(k, h) \cup Rest(c)
    <3>1. ASSUME NEW d \in Opened' PROVE OwnedBy(d)' \subseteq OwnedIn(k, h) \cup Rest(c)
      BY <2>5, <2>6, <2>7 DEF OwnedIn, Rest
    <3>2. OwnedIn(k, h) \subseteq UNION {OwnedBy(d)' : d \in Opened'}
      BY <2>5, <2>7 DEF OwnedIn
    <3>3. Rest(c) \subseteq UNION {OwnedBy(d)' : d \in Opened'}
      <4>1. ASSUME NEW d \in Opened \ {c} PROVE OwnedBy(d) \subseteq UNION {OwnedBy(e)' : e \in Opened'}
        <5>1. d \in Opened' /\ OwnedBy(d)' = OwnedBy(d)
          BY <2>5, <2>6 DEF Opened
        <5> QED BY <5>1
      <4> QED BY <4>1 DEF Rest
    <3> QED BY <3>1, <3>2, <3>3
  <2>9. ASSUME NEW d \in Opened', NEW e \in Opened', d # e PROVE OwnedBy(d)' \cap OwnedBy(e)' = {}
    <3>1. ASSUME NEW x \in Opened' \ {c} PROVE x \in Opened /\ OwnedBy(x)' = OwnedBy(x)
                                               /\ OwnedBy(x) \subseteq Rest(c)
      BY <2>5, <2>6 DEF Rest
    <3>2. CASE d = c
      <4>1. k = "open" /\ OwnedBy(d)' = Owned(h) /\ OwnedIn(k, h) = Owned(h)
        BY <2>5, <2>7, <3>2 DEF OwnedIn
      <4>2. e \in Opened' \ {c}
        BY <2>9, <3>2
      <4> QED BY <2>2, <3>1, <4>1, <4>2
    <3>3. CASE e = c
      <4>1. k = "open" /\ OwnedBy(e)' = Owned(h) /\ OwnedIn(k, h) = Owned(h)
        BY <2>5, <2>7, <3>3 DEF OwnedIn
      <4>2. d \in Opened' \ {c}
        BY <2>9, <3>3
      <4> QED BY <2>2, <3>1, <4>1, <4>2
    <3>4. CASE d # c /\ e # c
      BY <2>4, <2>9, <3>1, <3>4
    <3> QED BY <3>2, <3>3, <3>4
  <2>10. HeapExact'
    <3>1. heap' \ lost' = UNION {OwnedBy(d)' : d \in Opened'}
      BY <2>2, <2>8 DEF Moves
    <3> QED BY <2>9, <3>1 DEF HeapExact, Opened
  <2>11. ASSUME NEW d \in Opened' PROVE Apart(hs'[d])
    <3>1. CASE d = c
      BY <1>2, <2>2, <2>5, <3>1
    <3>2. CASE d # c
      BY <1>2, <2>3, <2>5, <3>2
    <3> QED BY <3>1, <3>2
  <2>12. lost' \subseteq heap'
    BY <2>2 DEF Moves
  <2> QED BY <2>10, <2>11, <2>12
<1> QED BY <1>6, <1>7, <1>9, <1>10, <1>11 DEF HttpdInv

(* The memory that is left. *)
LEMMA Free ==
    ASSUME NEW m \in SUBSET Blocks
    PROVE  IsFiniteSet(Blocks \ m) /\ Cardinality(Blocks \ m) \in Nat
<1>1. IsFiniteSet(Blocks) /\ Blocks \ m \subseteq Blocks
  BY Constants
<1> QED BY <1>1, FS_Subset, FS_CardinalityType

LEMMA OthersNat == ASSUME NEW c PROVE Others(c) \in Nat
<1>1. Posting \ {c} \subseteq Conns /\ IsFiniteSet(Conns)
  BY Constants DEF Posting
<1> QED BY <1>1, FS_Subset, FS_CardinalityType DEF Others

(* The state a step starts from, seen from one connection. *)
LEMMA Before ==
    ASSUME HttpdInv, NEW c \in Conns
    PROVE  /\ hs[c] \in HState /\ gh[c] \in Hist /\ tcp[c] \in Seq(Ptr \cup {ROM}) /\ Len(tcp[c]) <= SndBuf
           /\ heap \in SUBSET Blocks /\ lost \in SUBSET Blocks
           /\ current_connection \in Conns \cup {NULL} /\ conn[c] \in {"new", "open", "closing", "closed"}
           /\ Each(c)
           /\ IsPosting(conn[c], hs[c]) => (gh[c].overlap <=> current_connection # c)
           /\ Cardinality(Blocks \ heap) >= Others(c) + (IF IsPosting(conn[c], hs[c]) THEN 1 ELSE 0)
           /\ Cardinality(Blocks \ heap) >= Others(c) /\ Cardinality(Blocks \ heap) \in Nat
           /\ ~gh[c].twice /\ CalmBut(c) =>
                 /\ Holds(c, heap, lost, OwnedIn(conn[c], hs[c]))
                 /\ conn[c] = "open" => Apart(hs[c])
<1>1. /\ hs[c] \in HState /\ gh[c] \in Hist /\ tcp[c] \in Seq(Ptr \cup {ROM})
      /\ heap \in SUBSET Blocks /\ lost \in SUBSET Blocks
      /\ current_connection \in Conns \cup {NULL} /\ conn[c] \in {"new", "open", "closing", "closed"}
      /\ Each(c) /\ Len(tcp[c]) <= SndBuf
  BY DEF HttpdInv, Types, Each
<1>2. c \in Posting <=> IsPosting(conn[c], hs[c])
  BY DEF Posting, IsPosting
<1>3. Cardinality(Posting) = Others(c) + (IF c \in Posting THEN 1 ELSE 0)
  <2> DEFINE P == Posting \ {c}
  <2>1. IsFiniteSet(P) /\ Cardinality(P) \in Nat /\ c \notin P
    <3>1. P \subseteq Conns /\ IsFiniteSet(Conns)
      BY Constants DEF Posting
    <3> QED BY <3>1, FS_Subset, FS_CardinalityType
  <2>2. Posting = IF c \in Posting THEN P \cup {c} ELSE P
    OBVIOUS
  <2> HIDE DEF P
  <2>3. Cardinality(P \cup {c}) = Cardinality(P) + 1
    BY <2>1, FS_AddElement
  <2>4. Others(c) = Cardinality(P)
    BY DEF Others, P
  <2>5. CASE c \in Posting
    <3>1. Cardinality(Posting) = Cardinality(P \cup {c})
      BY <2>2, <2>5
    <3> QED BY <2>3, <2>4, <2>5, <3>1
  <2>6. CASE c \notin Posting
    <3>1. Cardinality(Posting) = Cardinality(P)
      BY <2>2, <2>6
    <3> QED BY <2>1, <2>4, <2>6, <3>1
  <2> QED BY <2>5, <2>6
<1>4. Cardinality(Blocks \ heap) >= Others(c) + (IF IsPosting(conn[c], hs[c]) THEN 1 ELSE 0)
  BY <1>2, <1>3 DEF HttpdInv, Memory
<1>7. Cardinality(Blocks \ heap) >= Others(c) /\ Cardinality(Blocks \ heap) \in Nat
  <2>1. Cardinality(Blocks \ heap) \in Nat /\ Others(c) \in Nat
    BY <1>1, Free, OthersNat
  <2> QED BY <1>4, <2>1
<1>5. IsPosting(conn[c], hs[c]) => (gh[c].overlap <=> current_connection # c)
  BY <1>2 DEF HttpdInv, Current
<1>6. ASSUME ~gh[c].twice, CalmBut(c)
      PROVE  Holds(c, heap, lost, OwnedIn(conn[c], hs[c])) /\ (conn[c] = "open" => Apart(hs[c]))
  <2>1. \A d \in Conns : ~gh[d].twice
    BY <1>6 DEF CalmBut
  <2>2. HeapExact /\ lost \subseteq heap /\ \A d \in Opened : Apart(hs[d])
    BY <2>1 DEF HttpdInv, Ownership
  <2>3. /\ heap \ lost = UNION {OwnedBy(d) : d \in Opened}
        /\ \A d, e \in Opened : d # e => OwnedBy(d) \cap OwnedBy(e) = {}
    BY <2>1, <2>2 DEF HeapExact, Opened
  <2>4. CASE conn[c] = "open"
    <3>1. c \in Opened /\ OwnedBy(c) = Owned(hs[c]) /\ OwnedIn(conn[c], hs[c]) = Owned(hs[c])
      BY <1>2, <2>4 DEF Opened, OwnedBy, Owned, OwnedIn, IsPosting
    <3>2. UNION {OwnedBy(d) : d \in Opened} = OwnedBy(c) \cup Rest(c)
      BY <3>1 DEF Rest
    <3>3. OwnedBy(c) \cap Rest(c) = {}
      BY <2>3, <3>1 DEF Rest
    <3> QED BY <2>2, <2>3, <3>1, <3>2, <3>3 DEF Holds
  <2>5. CASE conn[c] # "open"
    <3>1. OwnedIn(conn[c], hs[c]) = {} /\ Opened \ {c} = Opened
      BY <2>5 DEF OwnedIn, Opened
    <3> QED BY <2>2, <2>3, <2>5, <3>1 DEF Holds, Rest
  <2> QED BY <2>4, <2>5
<1> QED BY <1>1, <1>4, <1>5, <1>6, <1>7

LEMMA NoOverlap ==
    ASSUME NEW g \in Hist, NEW b, b = FALSE
    PROVE  Overlapped(g, b) = g
<1> DEFINE x == g.overlap \/ b
<1>1. x = g.overlap
  BY HistFields
<1>2. Overlapped(g, b) = [g EXCEPT !.overlap = x]
  BY DEF Overlapped
<1> HIDE DEF x
<1> QED BY <1>1, <1>2 DEF Hist

LEMMA NewIs ==
    ASSUME NEW m \in SUBSET Blocks, Cardinality(Blocks \ m) >= 1
    PROVE  /\ NewBlock(m) \in Blocks \ m
           /\ Cardinality(Blocks \ (m \cup {NewBlock(m)})) = Cardinality(Blocks \ m) - 1
<1> DEFINE F == Blocks \ m
           b == NewBlock(m)
<1>1. IsFiniteSet(F) /\ F # {} /\ F \in SUBSET Nat
  <2>1. F = {} => Cardinality(F) = 0
    BY FS_EmptySet
  <2> QED BY <2>1, Free, Constants
<1>2. b \in F
  <2> HIDE DEF F
  <2>1. Min(F) \in F
    BY <1>1, Least
  <2> QED BY <2>1 DEF NewBlock, F
<1>3. Cardinality(F \ {b}) = Cardinality(F) - 1
  <2> HIDE DEF F, b
  <2> QED BY <1>1, <1>2, FS_RemoveElement
<1>4. F \ {b} = Blocks \ (m \cup {b})
  OBVIOUS
<1> QED BY <1>2, <1>3, <1>4

LEMMA Freed ==
    ASSUME NEW m \in SUBSET Blocks, NEW n \in SUBSET m
    PROVE  Cardinality(Blocks \ n) >= Cardinality(Blocks \ m)
<1>1. IsFiniteSet(Blocks \ n) /\ Blocks \ m \subseteq Blocks \ n
  BY Free
<1>2. Cardinality(Blocks \ m) <= Cardinality(Blocks \ n)
  BY <1>1, FS_Subset
<1> QED BY <1>2, Free

-----------------------------------------------------------------------------
(* Steps that do not go through http_send. *)

LEMMA NewState ==
    ASSUME NEW b \in Ptr
    PROVE  /\ http_state_init(b) \in HState /\ http_state_init(b).block = b
           /\ http_state_init(b).hdr_index = NUM_FILE_HDR_STRINGS /\ http_state_init(b).file = NULL
           /\ http_state_init(b).off = 0 /\ http_state_init(b).left = 0
           /\ http_state_init(b).handle = FALSE /\ http_state_init(b).post_response_buf = NULL
           /\ http_state_init(b).post_content_len_left = 0
<1>1. NULL \in Ptr /\ {} \in SUBSET Hdrs /\ NUM_FILE_HDR_STRINGS \in 0..NUM_FILE_HDR_STRINGS
      /\ <<>> \in Seq(Nat) /\ 0 \in Nat
  BY DEF Ptr, NUM_FILE_HDR_STRINGS
<1> QED BY <1>1 DEF http_state_init, HState

LEMMA Nothing ==
    ASSUME NEW h \in HState, h.hdr_index = NUM_FILE_HDR_STRINGS, h.off = 0, h.left = 0
    PROVE  Rem(h) = {}
<1>1. BodyRem(h) = {}
  BY Constants DEF BodyRem, BodyTok, NUM_FILE_HDR_STRINGS
<1> QED BY <1>1, NoHeaders DEF Rem

LEMMA InitInv == HttpdInit => HttpdInv
<1> SUFFICES ASSUME HttpdInit PROVE HttpdInv
  OBVIOUS
<1>1. /\ \A c \in Conns : conn[c] = "new" /\ hs[c] = http_state_init(NULL) /\ tcp[c] = <<>>
                          /\ gh[c] = NewHistory
      /\ heap = {} /\ lost = {} /\ Posting = {} /\ Opened = {}
  BY DEF HttpdInit, Posting, Opened
<1>2. Types
  <2>1. NewHistory \in Hist
    BY DEF NewHistory, Hist
  <2>2. http_state_init(NULL) \in HState
    BY NewState DEF Ptr
  <2> QED BY <2>1, <2>2 DEF HttpdInit, Types
<1>3. ASSUME NEW c \in Conns PROVE Each(c)
  BY <1>1, Constants DEF Each, NewHistory
<1>4. Current
  BY <1>1 DEF Current
<1>5. Memory
  <2>1. Cardinality(Blocks \ heap) \in Nat
    BY <1>1, Free
  <2>2. Cardinality(Posting) = 0
    BY <1>1, FS_EmptySet
  <2> QED BY <2>1, <2>2 DEF Memory
<1>6. Ownership
  <2>1. HeapExact
    BY <1>1 DEF HeapExact, Opened
  <2> QED BY <1>1, <2>1 DEF Ownership
<1> QED BY <1>2, <1>3, <1>4, <1>5, <1>6 DEF HttpdInv

LEMMA SameHistory ==
    ASSUME HttpdInv, NEW c \in Conns, NEW g
    PROVE  [gh EXCEPT ![c] = g] =
              [d \in Conns |-> IF d = c THEN g ELSE Overlapped(gh[d], FALSE /\ d \in Posting)]
<1>1. gh \in [Conns -> Hist]
  BY DEF HttpdInv, Types
<1>2. \A d \in Conns : Overlapped(gh[d], FALSE /\ d \in Posting) = gh[d]
  <2> SUFFICES ASSUME NEW d \in Conns PROVE Overlapped(gh[d], FALSE /\ d \in Posting) = gh[d]
    OBVIOUS
  <2> DEFINE b == FALSE /\ d \in Posting
  <2>1. b = FALSE /\ gh[d] \in Hist
    BY <1>1
  <2> HIDE DEF b
  <2>2. Overlapped(gh[d], b) = gh[d]
    BY <2>1, NoOverlap
  <2> QED BY <2>2 DEF b
<1> DEFINE o(d) == Overlapped(gh[d], FALSE /\ d \in Posting)
<1> HIDE DEF o
<1>3. [gh EXCEPT ![c] = g] = [d \in Conns |-> IF d = c THEN g ELSE o(d)]
  BY <1>1, <1>2 DEF o
<1> QED BY <1>3 DEF o

LEMMA Unchanged == ASSUME HttpdInv, NEW c \in Conns PROVE gh = [gh EXCEPT ![c] = gh[c]]
BY DEF HttpdInv, Types

LEMMA AcceptStep ==
    ASSUME HttpdInv, NEW c \in Conns, http_accept(c)
    PROVE  HttpdInv'
<1> DEFINE b == NewBlock(heap)
           h == http_state_init(b)
           mem == heap \cup {b}
<1>1. /\ gh[c] \in Hist /\ tcp[c] \in Seq(Ptr \cup {ROM}) /\ Len(tcp[c]) <= SndBuf
      /\ heap \in SUBSET Blocks /\ lost \in SUBSET Blocks
      /\ current_connection \in Conns \cup {NULL} /\ Each(c)
      /\ Cardinality(Blocks \ heap) >= Others(c) + (IF IsPosting(conn[c], hs[c]) THEN 1 ELSE 0)
      /\ ~gh[c].twice /\ CalmBut(c) => Holds(c, heap, lost, OwnedIn(conn[c], hs[c]))
  BY Before
<1>2. conn[c] = "new" /\ MemoryLeft /\ c \notin Posting
  BY DEF http_accept, Posting
<1>3. Cardinality(Blocks \ heap) >= Others(c) + 2 /\ Others(c) \in Nat
  <2>1. Posting \ {c} = Posting
    BY <1>2
  <2> QED BY <1>2, <2>1, OthersNat DEF MemoryLeft, Others
<1>4. b \in Blocks \ heap /\ Cardinality(Blocks \ mem) >= Others(c)
  <2>1. Cardinality(Blocks \ heap) \in Nat /\ Cardinality(Blocks \ heap) >= 1
    <3>1. Cardinality(Blocks \ heap) \in Nat
      BY <1>1, Free
    <3> QED BY <1>3, <3>1
  <2>2. b \in Blocks \ heap /\ Cardinality(Blocks \ mem) = Cardinality(Blocks \ heap) - 1
    BY <1>1, <2>1, NewIs
  <2> QED BY <1>3, <2>1, <2>2
<1>5. Moves(c, "open", h, gh[c], tcp[c], mem, lost, current_connection, FALSE)
  <2>1. gh' = [d \in Conns |-> IF d = c THEN gh[c] ELSE Overlapped(gh[d], FALSE /\ d \in Posting)]
    BY SameHistory, Unchanged DEF http_accept
  <2>2. tcp' = [tcp EXCEPT ![c] = tcp[c]]
    BY DEF http_accept, HttpdInv, Types
  <2> QED BY <2>1, <2>2 DEF http_accept, Moves
<1> HIDE DEF b
<1>6. /\ h \in HState /\ h.block = b /\ h.hdr_index = NUM_FILE_HDR_STRINGS /\ h.file = NULL
      /\ h.off = 0 /\ h.left = 0 /\ h.handle = FALSE /\ h.post_response_buf = NULL
      /\ h.post_content_len_left = 0
  BY <1>4, NewState DEF Ptr
<1> HIDE DEF h
<1>7. gh[c].out = <<>> /\ gh[c].due = {} /\ gh[c].handled = "no" /\ tcp[c] = <<>>
  BY <1>1, <1>2 DEF Each
<1>8. Local(h, gh[c])
  <2>1. Rem(h) = {}
    BY <1>6, Nothing
  <2>2. Response(h, gh[c])
    BY <1>6, <1>7, <2>1 DEF Response, Sending
  <2>3. Header(h) /\ Source(h)
    BY <1>6 DEF Header, Source, NUM_FILE_HDR_STRINGS
  <2>4. Body(h, gh[c]) /\ Answered(h, gh[c])
    BY <1>6, <1>7 DEF Body, Answered
  <2> QED BY <2>2, <2>3, <2>4 DEF Local
<1>9. ~gh[c].twice /\ CalmBut(c) => Holds(c, mem, lost, Owned(h)) /\ Apart(h)
  <2> SUFFICES ASSUME ~gh[c].twice /\ CalmBut(c) PROVE Holds(c, mem, lost, Owned(h)) /\ Apart(h)
    OBVIOUS
  <2>1. Owned(h) = {b}
    BY <1>6, Constants DEF Owned
  <2>2. OwnedIn(conn[c], hs[c]) = {}
    BY <1>2 DEF OwnedIn
  <2>3. lost \subseteq heap /\ heap \ lost = Rest(c)
    BY <1>1, <2>2 DEF Holds
  <2>4. Apart(h)
    BY <1>4, <1>6, Constants DEF Apart
  <2> QED BY <1>4, <2>1, <2>3, <2>4 DEF Holds
<1>10. Fit(c, "open", h, gh[c], tcp[c], mem, lost, current_connection, FALSE)
  <2>1. ~IsPosting("open", h) /\ OwnedIn("open", h) = Owned(h)
    BY <1>6 DEF IsPosting, OwnedIn
  <2>2. Cardinality(Blocks \ mem) >= Others(c) + (IF IsPosting("open", h) THEN 1 ELSE 0)
    BY <1>3, <1>4, <2>1
  <2>3. mem \in SUBSET Blocks /\ h.block \in Blocks
    BY <1>1, <1>4, <1>6
  <2> HIDE DEF mem
  <2> QED BY <1>1, <1>6, <1>7, <1>8, <1>9, <2>1, <2>2, <2>3 DEF Fit
<1> HIDE DEF mem
<1>11. FALSE \in BOOLEAN
  OBVIOUS
<1> QED BY <1>5, <1>10, <1>11, Change

LEMMA NewHistoryIs == NewHistory \in Hist
BY DEF NewHistory, Hist

KeptHistory(n, g, x, y) ==
    [n EXCEPT !.odd = g.odd, !.handled = g.handled, !.twice = g.twice, !.out = x, !.due = y]

LEMMA KeptHistoryFields ==
    ASSUME NEW n \in Hist, NEW g \in Hist, NEW x \in Seq(Nat), NEW y \in SUBSET Nat,
           NEW e, e = KeptHistory(n, g, x, y)
    PROVE  /\ e \in Hist /\ e.odd = g.odd /\ e.handled = g.handled /\ e.twice = g.twice
           /\ e.out = x /\ e.due = y
BY DEF Hist, KeptHistory

LEMMA EndedFields ==
    ASSUME NEW g \in Hist, NEW eof \in BOOLEAN, eof /\ ~g.again => Complete(g), NEW e, e = Ended(g, eof)
    PROVE  /\ e \in Hist /\ Complete(e) /\ e.odd = g.odd /\ e.handled = g.handled /\ e.twice = g.twice
<1> DEFINE x == IF eof /\ ~g.again /\ ~Complete(g) THEN g.out ELSE <<>>
           y == IF eof /\ ~g.again /\ ~Complete(g) THEN g.due ELSE {}
<1>1. x = <<>> /\ y = {}
  OBVIOUS
<1>2. e = KeptHistory(NewHistory, g, x, y)
  BY DEF Ended, KeptHistory
<1> HIDE DEF x, y
<1>3. NewHistory \in Hist /\ x \in Seq(Nat) /\ y \in SUBSET Nat
  BY <1>1, NewHistoryIs
<1>4. /\ e \in Hist /\ e.odd = g.odd /\ e.handled = g.handled /\ e.twice = g.twice
      /\ e.out = x /\ e.due = y
  BY <1>2, <1>3, KeptHistoryFields
<1>5. Complete(e)
  BY <1>1, <1>4 DEF Complete
<1> QED BY <1>4, <1>5

LEMMA PollAgainStep ==
    ASSUME HttpdInv, NEW c \in Conns, http_poll_again(c)
    PROVE  HttpdInv'
<1>1. /\ hs[c] \in HState /\ gh[c] \in Hist /\ tcp[c] \in Seq(Ptr \cup {ROM}) /\ Len(tcp[c]) <= SndBuf
      /\ heap \in SUBSET Blocks /\ lost \in SUBSET Blocks
      /\ current_connection \in Conns \cup {NULL} /\ Each(c)
      /\ Cardinality(Blocks \ heap) >= Others(c) + (IF IsPosting(conn[c], hs[c]) THEN 1 ELSE 0)
      /\ ~gh[c].twice /\ CalmBut(c) => Holds(c, heap, lost, OwnedIn(conn[c], hs[c]))
  BY Before
<1>2. Moves(c, "closed", hs[c], gh[c], tcp[c], heap, lost, current_connection, FALSE)
  <2>1. gh' = [d \in Conns |-> IF d = c THEN gh[c] ELSE Overlapped(gh[d], FALSE /\ d \in Posting)]
    BY SameHistory, Unchanged DEF http_poll_again
  <2>2. tcp' = [tcp EXCEPT ![c] = tcp[c]] /\ hs' = [hs EXCEPT ![c] = hs[c]]
    BY DEF http_poll_again, HttpdInv, Types
  <2> QED BY <2>1, <2>2 DEF http_poll_again, Moves
<1>3. Fit(c, "closed", hs[c], gh[c], tcp[c], heap, lost, current_connection, FALSE)
  <2>1. conn[c] = "closing"
    BY DEF http_poll_again
  <2>2. /\ ~IsPosting("closed", hs[c]) /\ ~IsPosting(conn[c], hs[c])
        /\ OwnedIn("closed", hs[c]) = {} /\ OwnedIn(conn[c], hs[c]) = {}
    BY <2>1 DEF IsPosting, OwnedIn
  <2>3. Complete(gh[c]) /\ (gh[c].handled = "otherwise" => gh[c].odd)
    BY <1>1, <2>1 DEF Each
  <2> QED BY <1>1, <2>2, <2>3 DEF Fit
<1>4. FALSE \in BOOLEAN
  OBVIOUS
<1> QED BY <1>2, <1>3, <1>4, Change

LEMMA FinishedStep ==
    ASSUME HttpdInv, NEW c \in Conns, TcpFinished(c)
    PROVE  HttpdInv'
<1>1. /\ hs[c] \in HState /\ gh[c] \in Hist
      /\ heap \in SUBSET Blocks /\ lost \in SUBSET Blocks
      /\ current_connection \in Conns \cup {NULL} /\ Each(c)
      /\ Cardinality(Blocks \ heap) >= Others(c) + (IF IsPosting(conn[c], hs[c]) THEN 1 ELSE 0)
      /\ ~gh[c].twice /\ CalmBut(c) => Holds(c, heap, lost, OwnedIn(conn[c], hs[c]))
  BY Before
<1>2. Moves(c, conn[c], hs[c], gh[c], <<>>, heap, lost, current_connection, FALSE)
  <2>1. gh' = [d \in Conns |-> IF d = c THEN gh[c] ELSE Overlapped(gh[d], FALSE /\ d \in Posting)]
    BY SameHistory, Unchanged DEF TcpFinished
  <2>2. conn' = [conn EXCEPT ![c] = conn[c]] /\ hs' = [hs EXCEPT ![c] = hs[c]]
    BY DEF TcpFinished, HttpdInv, Types
  <2> QED BY <2>1, <2>2 DEF TcpFinished, Moves
<1>3. Fit(c, conn[c], hs[c], gh[c], <<>>, heap, lost, current_connection, FALSE)
  <2>1. conn[c] \in {"closing", "closed"}
    BY DEF TcpFinished
  <2>2. ~IsPosting(conn[c], hs[c]) /\ OwnedIn(conn[c], hs[c]) = {}
    BY <2>1 DEF IsPosting, OwnedIn
  <2>3. Complete(gh[c]) /\ (gh[c].handled = "otherwise" => gh[c].odd)
    BY <1>1, <2>1 DEF Each
  <2>4. <<>> \in Seq(Ptr \cup {ROM}) /\ Len(<<>>) <= SndBuf
    BY Constants
  <2> QED BY <1>1, <2>1, <2>2, <2>3, <2>4 DEF Fit
<1>4. FALSE \in BOOLEAN
  OBVIOUS
<1> QED BY <1>2, <1>3, <1>4, Change

LEMMA ErrStep ==
    ASSUME HttpdInv, NEW c \in Conns, http_err(c)
    PROVE  HttpdInv'
<1> DEFINE h == hs[c]
           g == Ended(gh[c], FALSE)
           mem == http_state_free(heap, h)
           gone == IF c \in Posting THEN lost \cup {h.post_content} ELSE lost
           new == http_state_init(NULL)
<1>1. /\ h \in HState /\ gh[c] \in Hist /\ conn[c] = "open"
      /\ heap \in SUBSET Blocks /\ lost \in SUBSET Blocks
      /\ current_connection \in Conns \cup {NULL} /\ Each(c)
      /\ Cardinality(Blocks \ heap) >= Others(c) /\ Cardinality(Blocks \ heap) \in Nat
      /\ ~gh[c].twice /\ CalmBut(c) => Holds(c, heap, lost, OwnedIn(conn[c], h)) /\ Apart(h)
  BY Before DEF http_err
<1>2. Moves(c, "closed", new, g, <<>>, mem, gone, current_connection, FALSE)
  <2>1. gh' = [d \in Conns |-> IF d = c THEN g ELSE Overlapped(gh[d], FALSE /\ d \in Posting)]
    BY SameHistory DEF http_err
  <2> QED BY <2>1 DEF http_err, Moves
<1>3. /\ g \in Hist /\ Complete(g) /\ g.odd = gh[c].odd /\ g.handled = gh[c].handled
      /\ g.twice = gh[c].twice
  <2>1. FALSE \in BOOLEAN /\ (FALSE /\ ~gh[c].again => Complete(gh[c]))
    OBVIOUS
  <2> HIDE DEF g
  <2> QED BY <1>1, <2>1, EndedFields DEF g
<1>4. /\ c \in Posting <=> h.post_content_len_left > 0
      /\ h.post_content_len_left > 0 => h.post_response_buf = NULL /\ h.post_content \in Blocks
      /\ gh[c].handled = "otherwise" => gh[c].odd
  <2>1. Local(h, gh[c]) /\ h.post_content \in Ptr
    BY <1>1, Fields DEF Each
  <2>2. c \in Posting <=> h.post_content_len_left > 0
    BY <1>1 DEF Posting
  <2> QED BY <2>1, <2>2 DEF Local, Source, Answered, Ptr
<1>5. ~gh[c].twice /\ CalmBut(c) => Holds(c, mem, gone, {})
  <2> SUFFICES ASSUME ~gh[c].twice /\ CalmBut(c) PROVE Holds(c, mem, gone, {})
    OBVIOUS
  <2>1. Holds(c, heap, lost, Owned(h)) /\ Apart(h)
    BY <1>1 DEF OwnedIn
  <2> DEFINE P == h.post_content_len_left > 0
             b == h.block
             r == h.post_response_buf
             t == h.post_content
             O == Rest(c)
             x == IF P THEN {t} ELSE {}
  <2>2. /\ lost \subseteq heap /\ heap \ lost = ({b} \cup x \cup ({r} \ {NULL})) \cup O
        /\ ({b} \cup x \cup ({r} \ {NULL})) \cap O = {} /\ r # b /\ (P => t # b /\ r = NULL /\ t # NULL)
    BY <1>4, <2>1, Constants DEF Holds, Owned, Apart
  <2>3. mem = heap \ {r, b} /\ gone = lost \cup x
    BY <1>4 DEF http_state_free
  <2>4. NULL \notin heap
    BY <1>1, Constants
  <2> HIDE DEF P, b, r, t, O, mem, gone
  <2>5. gone \subseteq mem /\ mem \ gone = O
    BY <2>2, <2>3, <2>4
  <2> QED BY <2>5 DEF Holds, O
<1>6. mem \in SUBSET Blocks /\ Cardinality(Blocks \ mem) >= Others(c)
  <2>1. mem \in SUBSET heap
    BY DEF http_state_free
  <2> HIDE DEF mem
  <2>2. mem \in SUBSET Blocks
    BY <1>1, <2>1
  <2>3. Cardinality(Blocks \ mem) >= Cardinality(Blocks \ heap)
    BY <1>1, <2>1, Freed
  <2>4. Cardinality(Blocks \ mem) \in Nat /\ Others(c) \in Nat
    BY <2>2, Free, OthersNat
  <2> QED BY <1>1, <2>2, <2>3, <2>4
<1>7. gone \in SUBSET Blocks
  BY <1>1, <1>4
<1>8. new \in HState
  BY NewState DEF Ptr
<1> HIDE DEF mem, gone, g, new
<1>9. Fit(c, "closed", new, g, <<>>, mem, gone, current_connection, FALSE)
  <2>1. <<>> \in Seq(Ptr \cup {ROM}) /\ Len(<<>>) <= SndBuf
    BY Constants
  <2>2. ~IsPosting("closed", new) /\ OwnedIn("closed", new) = {}
    BY DEF IsPosting, OwnedIn
  <2>3. Cardinality(Blocks \ mem) >= Others(c) + (IF IsPosting("closed", new) THEN 1 ELSE 0)
    BY <1>6, <2>2, OthersNat
  <2> QED BY <1>1, <1>3, <1>4, <1>5, <1>6, <1>7, <1>8, <2>1, <2>2, <2>3 DEF Fit
<1>10. FALSE \in BOOLEAN
  OBVIOUS
<1> QED BY <1>2, <1>9, <1>10, Change

-----------------------------------------------------------------------------
(* What a callback works on, and the ways it ends. *)

Work == [h : HState, g : Hist, heap : SUBSET Blocks, cur : Conns \cup {NULL}, lost : SUBSET Blocks,
         post : BOOLEAN]

LEMMA WorkFields ==
    ASSUME NEW w \in Work
    PROVE  /\ w.h \in HState /\ w.g \in Hist /\ w.heap \in SUBSET Blocks /\ w.lost \in SUBSET Blocks
           /\ w.cur \in Conns \cup {NULL} /\ w.post \in BOOLEAN
BY DEF Work

(* The open connection c, the memory and current_connection in w agree. *)
Sound(c, w) ==
    /\ w \in Work /\ w.h.block \in Blocks
    /\ (w.post /\ w.cur \in {c, NULL}) \/ (~w.post /\ w.cur = current_connection)
    /\ w.h.post_content_len_left > 0 => (w.g.overlap <=> w.cur # c)
    /\ Cardinality(Blocks \ w.heap) >= Others(c) + (IF w.h.post_content_len_left > 0 THEN 1 ELSE 0)
    /\ gh[c].twice => w.g.twice
    /\ ~w.g.twice /\ CalmBut(c) => Holds(c, w.heap, w.lost, Owned(w.h)) /\ Apart(w.h)

(* w can be left as the state of c. *)
Ready(c, w) == Local(w.h, w.g) /\ Sound(c, w)

Queue(q) == q \in Seq(Ptr \cup {ROM}) /\ Len(q) <= SndBuf

LEMMA HistoryIs ==
    ASSUME NEW c, NEW g, NEW post, History(c, g, post)
    PROVE  gh' = [d \in Conns |-> IF d = c THEN g ELSE Overlapped(gh[d], post /\ d \in Posting)]
BY DEF History, Overlapped

LEMMA KeepStep ==
    ASSUME HttpdInv, NEW c \in Conns, conn[c] = "open", NEW w, Ready(c, w), NEW q, Queue(q),
           Fresh(w.h) /\ ~w.g.again => q = <<>>, Keep(c, w, q)
    PROVE  HttpdInv'
<1>1. conn = [conn EXCEPT ![c] = "open"]
  BY DEF HttpdInv, Types
<1>2. Moves(c, "open", w.h, w.g, q, w.heap, w.lost, w.cur, w.post)
  <2>1. History(c, w.g, w.post)
    BY DEF Keep
  <2>2. gh' = [d \in Conns |-> IF d = c THEN w.g ELSE Overlapped(gh[d], w.post /\ d \in Posting)]
    BY <2>1, HistoryIs
  <2> QED BY <1>1, <2>2 DEF Keep, Moves
<1>3. /\ w.h \in HState /\ w.g \in Hist /\ w.heap \in SUBSET Blocks /\ w.lost \in SUBSET Blocks
      /\ w.cur \in Conns \cup {NULL} /\ w.post \in BOOLEAN
  BY WorkFields DEF Ready, Sound
<1>4. /\ IsPosting("open", w.h) <=> w.h.post_content_len_left > 0
      /\ OwnedIn("open", w.h) = Owned(w.h)
  BY DEF IsPosting, OwnedIn
<1>5. Fit(c, "open", w.h, w.g, q, w.heap, w.lost, w.cur, w.post)
  BY <1>3, <1>4 DEF Fit, Ready, Sound, Queue
<1> QED BY <1>2, <1>3, <1>5, Change

(* A connection that is closed, after the POST on it has been ended. *)
LEMMA LeaveStep ==
    ASSUME HttpdInv, NEW c \in Conns, conn[c] = "open", NEW w \in Work, NEW q, Queue(q),
           NEW eof \in BOOLEAN, eof /\ ~w.g.again => Complete(w.g), Answered(w.h, w.g),
           (w.post /\ w.cur \in {c, NULL}) \/ (~w.post /\ w.cur = current_connection),
           Cardinality(Blocks \ w.heap) >= Others(c), gh[c].twice => w.g.twice,
           ~w.g.twice /\ CalmBut(c) =>
              Holds(c, w.heap, w.lost, {w.h.block} \cup ({w.h.post_response_buf} \ {NULL})),
           NEW k \in {"closing", "closed"},
           Moves(c, k, http_state_init(NULL), Ended(w.g, eof), q, http_state_free(w.heap, w.h),
                 w.lost, w.cur, w.post)
    PROVE  HttpdInv'
<1> DEFINE g == Ended(w.g, eof)
           mem == http_state_free(w.heap, w.h)
           new == http_state_init(NULL)
<1>1. /\ w.h \in HState /\ w.g \in Hist /\ w.heap \in SUBSET Blocks /\ w.lost \in SUBSET Blocks
      /\ w.cur \in Conns \cup {NULL} /\ w.post \in BOOLEAN
  BY WorkFields
<1>2. /\ g \in Hist /\ Complete(g) /\ g.odd = w.g.odd /\ g.handled = w.g.handled
      /\ g.twice = w.g.twice
  <2> HIDE DEF g
  <2> QED BY <1>1, EndedFields DEF g
<1>3. mem \in SUBSET w.heap /\ mem = w.heap \ {w.h.post_response_buf, w.h.block}
  BY DEF http_state_free
<1>4. new \in HState
  BY NewState DEF Ptr
<1>5. Moves(c, k, new, g, q, mem, w.lost, w.cur, w.post)
  OBVIOUS
<1> HIDE DEF g, mem, new
<1>6. mem \in SUBSET Blocks /\ Cardinality(Blocks \ mem) >= Others(c) /\ Others(c) \in Nat
  <2>1. mem \in SUBSET Blocks
    BY <1>1, <1>3
  <2>2. Cardinality(Blocks \ mem) >= Cardinality(Blocks \ w.heap)
    BY <1>1, <1>3, Freed
  <2>3. Cardinality(Blocks \ mem) \in Nat /\ Others(c) \in Nat /\ Cardinality(Blocks \ w.heap) \in Nat
    BY <1>1, <2>1, Free, OthersNat
  <2> QED BY <2>1, <2>2, <2>3
<1>7. ~g.twice /\ CalmBut(c) => Holds(c, mem, w.lost, {})
  <2> SUFFICES ASSUME ~g.twice /\ CalmBut(c) PROVE Holds(c, mem, w.lost, {})
    OBVIOUS
  <2> DEFINE b == w.h.block
             r == w.h.post_response_buf
             O == Rest(c)
             U == w.heap
             L == w.lost
  <2>1. Holds(c, U, L, {b} \cup ({r} \ {NULL}))
    BY <1>2
  <2>2. /\ L \subseteq U /\ U \ L = ({b} \cup ({r} \ {NULL})) \cup O
        /\ ({b} \cup ({r} \ {NULL})) \cap O = {}
    BY <2>1 DEF Holds
  <2>3. mem = U \ {r, b} /\ NULL \notin U
    BY <1>1, <1>3, Constants
  <2> HIDE DEF b, r, O, U, L
  <2>4. L \subseteq mem /\ mem \ L = O
    BY <2>2, <2>3
  <2> QED BY <2>4 DEF Holds, O, L
<1>8. Fit(c, k, new, g, q, mem, w.lost, w.cur, w.post)
  <2>1. ~IsPosting(k, new) /\ OwnedIn(k, new) = {}
    BY DEF IsPosting, OwnedIn
  <2>2. Cardinality(Blocks \ mem) >= Others(c) + (IF IsPosting(k, new) THEN 1 ELSE 0)
    BY <1>6, <2>1
  <2>3. g.handled = "otherwise" => g.odd
    BY <1>2 DEF Answered
  <2> QED BY <1>1, <1>2, <1>4, <1>6, <1>7, <2>1, <2>2, <2>3 DEF Fit, Queue
<1> QED BY <1>1, <1>5, <1>8, Change

-----------------------------------------------------------------------------
(* Setting up a response. *)

(* A response that is set up is what is left to send. *)
LEMMA DueIs ==
    ASSUME NEW h \in HState, h.off = 0,
           (h.hdr_index = 0 /\ h.hdr_pos = 0) \/ h.hdr_index = NUM_FILE_HDR_STRINGS
    PROVE  Due(h) = Rem(h) /\ Rem(h) \in SUBSET Nat
<1>1. h.hdrs \subseteq 0..5 /\ h.hdr_index \in 0..6 /\ h.left \in Nat /\ HdrLen \in Nat \ {0}
  BY Indices, Fields, Constants
<1>2. {BodyTok(j) : j \in 0..h.left - 1} = BodyRem(h)
  <2>1. ASSUME NEW j \in 0..h.left - 1 PROVE BodyTok(j) \in BodyRem(h)
    BY <1>1 DEF BodyTok, BodyRem, NUM_FILE_HDR_STRINGS
  <2>2. ASSUME NEW t \in BodyRem(h) PROVE \E j \in 0..h.left - 1 : t = BodyTok(j)
    <3> DEFINE j == t - HdrLen - 6
    <3>1. j \in 0..h.left - 1 /\ t = BodyTok(j)
      BY <1>1 DEF BodyTok, BodyRem, NUM_FILE_HDR_STRINGS
    <3> QED BY <3>1
  <2> QED BY <2>1, <2>2
<1>3. CASE h.hdr_index = NUM_FILE_HDR_STRINGS
  <2>1. Due(h) = {BodyTok(j) : j \in 0..h.left - 1}
    BY <1>3 DEF Due
  <2>2. HdrRem(h) = {}
    BY <1>3, NoHeaders
  <2> QED BY <1>2, <2>1, <2>2 DEF Rem, BodyRem
<1>4. CASE h.hdr_index = 0 /\ h.hdr_pos = 0
  <2> DEFINE H == UNION {{HdrTok(i, p) : p \in 0..Units(i) - 1} : i \in h.hdrs}
  <2>1. Due(h) = H \cup {BodyTok(j) : j \in 0..h.left - 1}
    BY <1>4 DEF Due, NUM_FILE_HDR_STRINGS
  <2>2. ASSUME NEW i \in h.hdrs, NEW p \in 0..Units(i) - 1
        PROVE  /\ HdrTok(i, p) \in Nat
               /\ i > h.hdr_index \/ (i = h.hdr_index /\ p >= h.hdr_pos)
    BY <1>1, <1>4 DEF HdrTok, Units, HTTP_STATUS
  <2>3. H = HdrRem(h)
    <3>1. ASSUME NEW t \in H PROVE t \in HdrRem(h)
      BY <2>2 DEF HdrRem
    <3>2. ASSUME NEW t \in HdrRem(h) PROVE t \in H
      BY DEF HdrRem
    <3> QED BY <3>1, <3>2
  <2> HIDE DEF H
  <2> QED BY <1>2, <2>1, <2>3 DEF Rem, HdrRem, BodyRem
<1> QED BY <1>3, <1>4

(* What the history keeps of the rest when a response is set up. *)
SameBut(g, e) ==
    /\ e \in Hist /\ e.out = g.out /\ e.overlap = g.overlap /\ e.odd = g.odd /\ e.again = g.again
    /\ e.twice = g.twice /\ e.posted = g.posted /\ e.handled = g.handled

Responding(w, h, d) == [w EXCEPT !.h = h, !.g.due = d]

LEMMA RespondingFields ==
    ASSUME NEW w \in Work, NEW h \in HState, NEW d \in SUBSET Nat, NEW r, r = Responding(w, h, d)
    PROVE  /\ r \in Work /\ r.h = h /\ r.heap = w.heap /\ r.cur = w.cur /\ r.lost = w.lost
           /\ r.post = w.post
           /\ r.g.due = d /\ r.g.out = w.g.out /\ r.g.overlap = w.g.overlap /\ r.g.odd = w.g.odd
           /\ r.g.again = w.g.again /\ r.g.twice = w.g.twice /\ r.g.posted = w.g.posted
           /\ r.g.handled = w.g.handled
BY DEF Work, Hist, Responding

LEMMA RespondFields ==
    ASSUME NEW w \in Work, NEW h \in HState, Due(h) \in SUBSET Nat, NEW r, r = Respond(w, h)
    PROVE  /\ r \in Work /\ r.h = h /\ r.heap = w.heap /\ r.cur = w.cur /\ r.lost = w.lost
           /\ r.post = w.post /\ r.g.due = Due(h) /\ SameBut(w.g, r.g)
<1>1. r = Responding(w, h, Due(h))
  BY DEF Respond, Responding
<1>2. /\ r \in Work /\ r.h = h /\ r.heap = w.heap /\ r.cur = w.cur /\ r.lost = w.lost
      /\ r.post = w.post
      /\ r.g.due = Due(h) /\ r.g.out = w.g.out /\ r.g.overlap = w.g.overlap /\ r.g.odd = w.g.odd
      /\ r.g.again = w.g.again /\ r.g.twice = w.g.twice /\ r.g.posted = w.g.posted
      /\ r.g.handled = w.g.handled
  BY <1>1, RespondingFields
<1> QED BY <1>2, WorkFields DEF SameBut

Statuses == {"none", "ok", "not_found", "bad_request", "found"}

SameFile(h, k) ==
    /\ k.block = h.block /\ k.handle = h.handle /\ k.file = h.file /\ k.off = h.off
    /\ k.left = h.left /\ k.post_content = h.post_content /\ k.content = h.content
    /\ k.post_content_len_left = h.post_content_len_left
    /\ k.post_response_buf = h.post_response_buf

LEMMA FirstHeaderFields ==
    ASSUME NEW h \in HState, NEW s \in Statuses, NEW set \in SUBSET Hdrs, NEW unset, HTTP_STATUS \in set,
           NEW k, k = FirstHeader(h, s, set, unset)
    PROVE  /\ k \in HState /\ SameFile(h, k) /\ k.status = s /\ k.hdr_index = 0 /\ k.hdr_pos = 0
           /\ Header(k) /\ ~Fresh(k)
<1> DEFINE n == (h.hdrs \ unset) \cup set
<1>1. n \in SUBSET Hdrs /\ 0 \in n /\ 0 \in 0..NUM_FILE_HDR_STRINGS /\ 0 \in Nat
  BY Fields DEF HTTP_STATUS, NUM_FILE_HDR_STRINGS
<1>2. k = [h EXCEPT !.status = s, !.hdrs = n, !.hdr_index = 0, !.hdr_pos = 0]
  BY DEF FirstHeader, HState
<1> HIDE DEF n
<1>3. /\ k \in HState /\ SameFile(h, k) /\ k.status = s /\ k.hdr_index = 0 /\ k.hdr_pos = 0
      /\ k.hdrs = n
  BY <1>1, <1>2 DEF HState, SameFile, Statuses
<1>4. Header(k) /\ ~Fresh(k)
  BY <1>1, <1>3, Constants DEF Header, Fresh, Units, HTTP_STATUS, NUM_FILE_HDR_STRINGS
<1> QED BY <1>3, <1>4

LEMMA SendingNone == ASSUME NEW r, NEW o, o = <<>> PROVE Sending(o, r, r)
BY DEF Sending

-----------------------------------------------------------------------------
(* POST requests. *)

(* The body so far, whether or not more of it is to come. *)
Placed(h, g) ==
    ~g.odd => /\ g.posted + h.post_content_len_left = Len(h.content)
              /\ \A i \in 1..Len(h.content) : h.content[i] = IF i <= g.posted THEN i ELSE 0

(* c has a POST under way, all of which may have come. *)
Posted(c, w) ==
    /\ w \in Work /\ Header(w.h) /\ Answered(w.h, w.g) /\ w.h.block \in Blocks
    /\ w.h.file = NULL /\ w.h.off = 0 /\ w.h.left = 0 /\ ~w.h.handle /\ w.h.post_response_buf = NULL
    /\ ~w.g.again => Fresh(w.h) /\ w.g.out = <<>> /\ Sending(w.g.out, Rem(w.h), w.g.due)
    /\ Placed(w.h, w.g)
    /\ w.h.post_content_len_left > 0 => w.h.post_content # NULL
    /\ (w.post /\ w.cur \in {c, NULL}) \/ (~w.post /\ w.cur = current_connection)
    /\ w.g.overlap <=> w.cur # c
    /\ Cardinality(Blocks \ w.heap) >= Others(c) + 1
    /\ gh[c].twice => w.g.twice
    /\ ~w.g.twice /\ CalmBut(c) =>
          /\ Holds(c, w.heap, w.lost, {w.h.block} \cup ({w.h.post_content} \ {NULL}))
          /\ w.h.post_content # w.h.block

(* It is over: what httpd_post_finished leaves. *)
Over(c, w) ==
    /\ w \in Work /\ Header(w.h) /\ Answered(w.h, w.g) /\ w.h.block \in Blocks
    /\ w.h.file = NULL => w.h.off = 0 /\ w.h.left = 0 /\ ~w.h.handle /\ w.h.post_response_buf = NULL
    /\ ~w.g.again => Sending(w.g.out, Rem(w.h), w.g.due) /\ (Fresh(w.h) => w.g.out = <<>>)
    /\ w.post /\ w.cur = NULL
    /\ Cardinality(Blocks \ w.heap) >= Others(c)
    /\ gh[c].twice => w.g.twice
    /\ ~w.g.twice /\ CalmBut(c) =>
          /\ Holds(c, w.heap, w.lost, {w.h.block} \cup ({w.h.post_response_buf} \ {NULL}))
          /\ w.h.post_response_buf # w.h.block

Calling(w, m, s, p, L) == [w EXCEPT !.heap = m, !.g.handled = s, !.g.odd = @ \/ p, !.lost = L]

LEMMA CallingFields ==
    ASSUME NEW w \in Work, NEW m \in SUBSET Blocks, NEW s \in {"as_sent", "otherwise"},
           NEW p \in BOOLEAN, NEW L \in SUBSET Blocks, NEW r, r = Calling(w, m, s, p, L)
    PROVE  /\ r \in Work /\ r.h = w.h /\ r.heap = m /\ r.cur = w.cur /\ r.lost = L
           /\ r.post = w.post /\ r.g.out = w.g.out /\ r.g.overlap = w.g.overlap
           /\ r.g.again = w.g.again /\ r.g.twice = w.g.twice /\ r.g.handled = s
           /\ (r.g.odd <=> (w.g.odd \/ p))
BY DEF Work, Hist, Calling

AnswerFrom(k, b) == [k EXCEPT !.file = b, !.off = 0, !.left = BodyLen, !.post_response_buf = b]

LEMMA AnswerFields ==
    ASSUME NEW h \in HState, NEW b \in Blocks, NEW k, k = AnswerFrom(h, b)
    PROVE  /\ k \in HState /\ k.block = h.block /\ k.status = h.status /\ k.hdrs = h.hdrs
           /\ k.hdr_index = h.hdr_index /\ k.hdr_pos = h.hdr_pos /\ k.post_content = h.post_content
           /\ k.post_content_len_left = h.post_content_len_left /\ k.file = b /\ k.off = 0
           /\ k.post_response_buf = b
BY Constants DEF HState, AnswerFrom, Ptr

Ending(w, m, s, k) == [w EXCEPT !.heap = m, !.cur = NULL, !.post = TRUE, !.h.content = s, !.g.posted = k]

LEMMA EndingFields ==
    ASSUME NEW w \in Work, NEW m \in SUBSET Blocks, NEW s \in Seq(Nat), NEW k \in Nat,
           NEW r, r = Ending(w, m, s, k)
    PROVE  /\ r \in Work /\ r.heap = m /\ r.cur = NULL /\ r.lost = w.lost /\ r.post
           /\ r.g.out = w.g.out /\ r.g.due = w.g.due /\ r.g.overlap = w.g.overlap /\ r.g.odd = w.g.odd
           /\ r.g.again = w.g.again /\ r.g.twice = w.g.twice /\ r.g.handled = w.g.handled
<1>1. /\ r \in Work /\ r.heap = m /\ r.cur = NULL /\ r.lost = w.lost /\ r.post
  BY DEF Work, Hist, HState, Ending
<1>2. /\ r.g.out = w.g.out /\ r.g.due = w.g.due /\ r.g.overlap = w.g.overlap /\ r.g.odd = w.g.odd
      /\ r.g.again = w.g.again /\ r.g.twice = w.g.twice /\ r.g.handled = w.g.handled
  BY DEF Work, Hist, HState, Ending
<1> QED BY <1>1, <1>2

LEMMA EndingState ==
    ASSUME NEW w \in Work, NEW m \in SUBSET Blocks, NEW s \in Seq(Nat), NEW k \in Nat,
           NEW r, r = Ending(w, m, s, k)
    PROVE  /\ r.h.block = w.h.block
           /\ r.h.handle = w.h.handle /\ r.h.file = w.h.file /\ r.h.off = w.h.off
           /\ r.h.left = w.h.left /\ r.h.status = w.h.status /\ r.h.hdrs = w.h.hdrs
           /\ r.h.hdr_index = w.h.hdr_index /\ r.h.hdr_pos = w.h.hdr_pos
           /\ r.h.post_content = w.h.post_content
           /\ r.h.post_content_len_left = w.h.post_content_len_left
           /\ r.h.post_response_buf = w.h.post_response_buf
BY DEF Work, Hist, HState, Ending

(* The memory after a POST, with the answer in b or without one. *)
LEMMA OverMemory ==
    ASSUME NEW c, NEW m \in SUBSET Blocks, NEW L, NEW b \in Blocks \ m, NEW t \in Ptr,
           NEW o \in Blocks, t # o, Holds(c, m, L, {o} \cup ({t} \ {NULL}))
    PROVE  /\ Holds(c, m \ {t}, L, {o})
           /\ Holds(c, (m \cup {b}) \ {t}, L, {o, b})
           /\ Holds(c, (m \cup {b}) \ {t}, L \cup {b}, {o})
           /\ b # o /\ b # NULL
<1> DEFINE O == Rest(c)
<1>1. NULL \notin Blocks /\ t \in Blocks \cup {NULL}
  BY Constants DEF Ptr
<1>2. /\ L \subseteq m /\ m \ L = ({o} \cup ({t} \ {NULL})) \cup O
      /\ ({o} \cup ({t} \ {NULL})) \cap O = {}
  BY DEF Holds
<1> HIDE DEF O
<1>3. o \in m /\ O \subseteq m /\ (t = NULL \/ t \in m)
  BY <1>2
<1>4. b # t /\ b # o /\ b # NULL /\ b \notin O /\ t \notin L /\ t \notin O /\ b \notin L /\ NULL \notin m
  BY <1>1, <1>2, <1>3
<1>5. L \subseteq m \ {t} /\ (m \ {t}) \ L = {o} \cup O /\ {o} \cap O = {}
  BY <1>2, <1>3, <1>4
<1>6. L \subseteq (m \cup {b}) \ {t} /\ L \cup {b} \subseteq (m \cup {b}) \ {t}
  BY <1>2, <1>3, <1>4
<1>7. (m \cup {b}) \ {t} = (m \ {t}) \cup {b}
  BY <1>4
<1>8. ((m \cup {b}) \ {t}) \ L = {o, b} \cup O /\ {o, b} \cap O = {}
  BY <1>4, <1>5, <1>7
<1>9. ((m \cup {b}) \ {t}) \ (L \cup {b}) = {o} \cup O
  BY <1>4, <1>5, <1>7
<1> QED BY <1>4, <1>5, <1>6, <1>8, <1>9 DEF Holds, O

(* httpd_process_post_data, for a POST with a handler. *)
LEMMA Handled ==
    ASSUME NEW c \in Conns, NEW w, Posted(c, w), w.h.post_uri, NEW r, r = httpd_process_post_data(c, w)
    PROVE  /\ r \in Work /\ Header(r.h) /\ Answered(r.h, r.g) /\ r.h.block = w.h.block
           /\ r.h.file = NULL => r.h.off = 0 /\ r.h.left = 0 /\ ~r.h.handle /\ r.h.post_response_buf = NULL
           /\ ~r.g.again => Sending(r.g.out, Rem(r.h), r.g.due) /\ (Fresh(r.h) => r.g.out = <<>>)
           /\ r.g.twice = w.g.twice /\ r.g.again = w.g.again
           /\ r.h.post_content_len_left = w.h.post_content_len_left
           /\ r.heap = w.heap \cup {NewBlock(w.heap)}
           /\ \/ w.g.overlap /\ r.lost = w.lost \cup {NewBlock(w.heap)} /\ r.h.post_response_buf = NULL
              \/ ~w.g.overlap /\ r.lost = w.lost /\ r.h.post_response_buf = NewBlock(w.heap)
<1> DEFINE b == NewBlock(w.heap)
           asSent == w.h.content = [i \in DOMAIN w.h.content |-> i]
           m == w.heap \cup {b}
           s == IF asSent THEN "as_sent" ELSE "otherwise"
           p == w.g.posted < Len(w.h.content)
           L == IF w.g.overlap THEN w.lost \cup {b} ELSE w.lost
           d == Calling(w, m, s, p, L)
<1>1. /\ w \in Work /\ w.h \in HState /\ w.g \in Hist /\ w.heap \in SUBSET Blocks /\ w.lost \in SUBSET Blocks
      /\ Posted(c, w)
  BY WorkFields DEF Posted
<1>2. b \in Blocks \ w.heap
  <2>1. Cardinality(Blocks \ w.heap) >= 1
    <3>1. Cardinality(Blocks \ w.heap) \in Nat /\ Others(c) \in Nat
      BY <1>1, Free, OthersNat
    <3> QED BY <1>1, <3>1 DEF Posted
  <2> QED BY <1>1, <2>1, NewIs
<1>3. r = httpd_post_response(c, d, b)
  <2>1. d = [w EXCEPT !.heap = @ \cup {b}, !.g.handled = s, !.g.odd = @ \/ p,
                      !.lost = IF w.g.overlap THEN @ \cup {b} ELSE @]
    BY <1>1 DEF Calling, Work
  <2> QED BY <2>1 DEF httpd_process_post_data
<1>4. m \in SUBSET Blocks /\ L \in SUBSET Blocks /\ s \in {"as_sent", "otherwise"} /\ p \in BOOLEAN
  BY <1>1, <1>2
<1>5. s = "otherwise" => (w.g.odd \/ p)
  <2> SUFFICES ASSUME ~w.g.odd, ~p PROVE asSent
    OBVIOUS
  <2>1. w.h.content \in Seq(Nat) /\ w.g.posted \in Nat /\ w.h.post_content_len_left \in Nat
    BY <1>1, Fields, HistFields
  <2>2. Len(w.h.content) \in Nat /\ DOMAIN w.h.content = 1..Len(w.h.content)
        /\ w.h.content = [i \in 1..Len(w.h.content) |-> w.h.content[i]]
    BY <2>1, LenProperties
  <2>3. /\ \A i \in 1..Len(w.h.content) : w.h.content[i] = IF i <= w.g.posted THEN i ELSE 0
    BY <1>1 DEF Posted, Placed
  <2>4. \A i \in 1..Len(w.h.content) : w.h.content[i] = i
    BY <2>1, <2>2, <2>3
  <2> QED BY <2>2, <2>4
<1>6. m = w.heap \cup {b} /\ L = IF w.g.overlap THEN w.lost \cup {b} ELSE w.lost
  OBVIOUS
<1>10. d = Calling(w, m, s, p, L)
  OBVIOUS
<1> HIDE DEF b, m, s, p, L, d
<1>7. /\ d \in Work /\ d.h = w.h /\ d.heap = m /\ d.cur = w.cur /\ d.lost = L
      /\ d.post = w.post /\ d.g.out = w.g.out /\ d.g.overlap = w.g.overlap
      /\ d.g.again = w.g.again /\ d.g.twice = w.g.twice /\ d.g.handled = s
      /\ (d.g.odd <=> (w.g.odd \/ p))
  <2>1. w \in Work /\ m \in SUBSET Blocks /\ s \in {"as_sent", "otherwise"} /\ p \in BOOLEAN /\ L \in SUBSET Blocks
    BY <1>1, <1>4
  <2> QED BY <2>1, <1>10, CallingFields
<1>8. CASE c = w.cur
  <2> DEFINE S == {HTTP_STATUS, CONTENT_LEN_KEEPALIVE, CONTENT_LEN_NR, CONTENT_TYPE}
             f == FirstHeader(w.h, "ok", S, {})
             k == AnswerFrom(f, b)
  <2>1. r = Respond(d, k)
    BY <1>3, <1>7, <1>8 DEF httpd_post_response, AnswerFrom
  <2>2. S \in SUBSET Hdrs /\ HTTP_STATUS \in S /\ "ok" \in Statuses
    BY DEF Hdrs, NUM_FILE_HDR_STRINGS, HTTP_STATUS, CONTENT_LEN_KEEPALIVE, CONTENT_LEN_NR, CONTENT_TYPE,
           Statuses
  <2> HIDE DEF S, f, k
  <2>3. /\ f \in HState /\ SameFile(w.h, f) /\ f.status = "ok" /\ f.hdr_index = 0 /\ f.hdr_pos = 0
        /\ Header(f) /\ ~Fresh(f)
    BY <1>1, <2>2, FirstHeaderFields DEF f
  <2>4. /\ k \in HState /\ k.block = f.block /\ k.status = f.status /\ k.hdrs = f.hdrs
        /\ k.hdr_index = f.hdr_index /\ k.hdr_pos = f.hdr_pos /\ k.post_content = f.post_content
        /\ k.post_content_len_left = f.post_content_len_left /\ k.file = b /\ k.off = 0
        /\ k.post_response_buf = b
    BY <1>2, <2>3, AnswerFields DEF k
  <2>5. Due(k) = Rem(k) /\ Rem(k) \in SUBSET Nat
    BY <2>3, <2>4, DueIs
  <2>6. /\ r \in Work /\ r.h = k /\ r.heap = d.heap /\ r.cur = d.cur /\ r.lost = d.lost
        /\ r.post = d.post /\ r.g.due = Due(k) /\ SameBut(d.g, r.g)
    BY <1>7, <2>1, <2>4, <2>5, RespondFields
  <2>7. Header(k) /\ ~Fresh(k) /\ b # NULL
    BY <1>2, <2>3, <2>4, Constants DEF Header, Fresh, NUM_FILE_HDR_STRINGS
  <2>8. Answered(r.h, r.g)
    BY <1>5, <1>7, <2>3, <2>4, <2>6, <2>7 DEF Answered, SameBut
  <2>9. ~r.g.again => Sending(r.g.out, Rem(r.h), r.g.due)
    <3> SUFFICES ASSUME ~r.g.again PROVE Sending(r.g.out, Rem(r.h), r.g.due)
      OBVIOUS
    <3>1. r.g.out = <<>>
      BY <1>1, <1>7, <2>6 DEF Posted, SameBut
    <3> QED BY <2>5, <2>6, <3>1, SendingNone
  <2>10. ~w.g.overlap
    BY <1>1, <1>8 DEF Posted
  <2> QED BY <1>6, <1>7, <2>3, <2>4, <2>6, <2>7, <2>8, <2>9, <2>10 DEF SameBut, SameFile, b
<1>9. CASE c # w.cur
  <2> DEFINE S == {HTTP_STATUS, CONTENT_LEN_KEEPALIVE}
             none == {}
             k == FirstHeader(w.h, "bad_request", S, none)
  <2>1. r = Respond(d, k)
    BY <1>3, <1>7, <1>9 DEF httpd_post_response
  <2>2. S \in SUBSET Hdrs /\ HTTP_STATUS \in S /\ "bad_request" \in Statuses
    BY DEF Hdrs, NUM_FILE_HDR_STRINGS, HTTP_STATUS, CONTENT_LEN_KEEPALIVE, Statuses
  <2> HIDE DEF S, k, none
  <2>3. /\ k \in HState /\ SameFile(w.h, k) /\ k.status = "bad_request" /\ k.hdr_index = 0
        /\ k.hdr_pos = 0 /\ Header(k) /\ ~Fresh(k)
    BY <1>1, <2>2, FirstHeaderFields DEF k
  <2>4. /\ w.h.file = NULL /\ w.h.off = 0 /\ w.h.left = 0 /\ ~w.h.handle
        /\ w.h.post_response_buf = NULL /\ w.g.overlap
    BY <1>1, <1>9 DEF Posted
  <2>5. Due(k) = Rem(k) /\ Rem(k) \in SUBSET Nat
    BY <2>3, <2>4, DueIs DEF SameFile
  <2>6. /\ r \in Work /\ r.h = k /\ r.heap = d.heap /\ r.cur = d.cur /\ r.lost = d.lost
        /\ r.post = d.post /\ r.g.due = Due(k) /\ SameBut(d.g, r.g)
    BY <1>7, <2>1, <2>3, <2>5, RespondFields
  <2>7. Answered(r.h, r.g)
    BY <1>5, <1>7, <2>4, <2>6 DEF Answered, SameBut
  <2>8. ~r.g.again => Sending(r.g.out, Rem(r.h), r.g.due)
    <3> SUFFICES ASSUME ~r.g.again PROVE Sending(r.g.out, Rem(r.h), r.g.due)
      OBVIOUS
    <3>1. r.g.out = <<>>
      BY <1>1, <1>7, <2>6 DEF Posted, SameBut
    <3> QED BY <2>5, <2>6, <3>1, SendingNone
  <2>9. /\ r.h.block = w.h.block /\ r.h.post_response_buf = NULL /\ r.h.off = 0 /\ r.h.left = 0
        /\ ~r.h.handle /\ r.h.post_content_len_left = w.h.post_content_len_left /\ Header(r.h)
        /\ ~Fresh(r.h)
    BY <2>3, <2>4, <2>6 DEF SameFile
  <2>10. r.heap = m /\ r.lost = w.lost \cup {b} /\ r.g.twice = w.g.twice /\ r.g.again = w.g.again
    BY <1>6, <1>7, <2>4, <2>6 DEF SameBut
  <2> QED BY <1>6, <2>4, <2>6, <2>7, <2>8, <2>9, <2>10 DEF b
<1> QED BY <1>8, <1>9

LEMMA SameRem ==
    ASSUME NEW h, NEW k, k.hdrs = h.hdrs, k.hdr_index = h.hdr_index, k.hdr_pos = h.hdr_pos,
           k.off = h.off, k.left = h.left
    PROVE  Rem(k) = Rem(h) /\ (Header(h) => Header(k))
BY DEF Rem, HdrRem, BodyRem, Header

(* httpd_post_finished ends a POST; only the answer is left of its memory. *)
LEMMA PostFinished ==
    ASSUME NEW c \in Conns, NEW w, Posted(c, w), NEW r, r = httpd_post_finished(c, w)
    PROVE  /\ Over(c, r) /\ r.g.again = w.g.again
           /\ r.h.post_content_len_left = w.h.post_content_len_left
<1> DEFINE a == httpd_process_post_data(c, w)
           t == w.h.post_content
           b == NewBlock(w.heap)
           m == a.heap \ {t}
           s == <<>>
<1>1. /\ w \in Work /\ w.h \in HState /\ w.g \in Hist /\ w.heap \in SUBSET Blocks /\ w.lost \in SUBSET Blocks
  BY WorkFields DEF Posted
<1>2. b \in Blocks \ w.heap /\ Cardinality(Blocks \ (w.heap \cup {b})) >= Others(c)
      /\ Cardinality(Blocks \ w.heap) >= Others(c)
  <2>1. Cardinality(Blocks \ w.heap) \in Nat /\ Others(c) \in Nat
    BY <1>1, Free, OthersNat
  <2>2. Cardinality(Blocks \ w.heap) >= Others(c) + 1
    BY DEF Posted
  <2>3. b \in Blocks \ w.heap /\ Cardinality(Blocks \ (w.heap \cup {b})) = Cardinality(Blocks \ w.heap) - 1
    <3>1. Cardinality(Blocks \ w.heap) >= 1
      BY <2>1, <2>2
    <3> QED BY <1>1, <3>1, NewIs
  <2> QED BY <2>1, <2>2, <2>3
<1>3. /\ a \in Work /\ Header(a.h) /\ Answered(a.h, a.g) /\ a.h.block = w.h.block
      /\ a.h.file = NULL => a.h.off = 0 /\ a.h.left = 0 /\ ~a.h.handle /\ a.h.post_response_buf = NULL
      /\ ~a.g.again => Sending(a.g.out, Rem(a.h), a.g.due) /\ (Fresh(a.h) => a.g.out = <<>>)
      /\ a.g.twice = w.g.twice /\ a.g.again = w.g.again
      /\ a.h.post_content_len_left = w.h.post_content_len_left
      /\ \/ a.heap = w.heap /\ a.lost = w.lost /\ a.h.post_response_buf = NULL
         \/ /\ a.heap = w.heap \cup {b}
            /\ \/ a.lost = w.lost \cup {b} /\ a.h.post_response_buf = NULL
               \/ a.lost = w.lost /\ a.h.post_response_buf = b
  <2>1. CASE w.h.post_uri
    BY <2>1, Handled
  <2>2. CASE ~w.h.post_uri
    <3>1. a = w
      BY <2>2 DEF httpd_process_post_data
    <3> QED BY <3>1 DEF Posted
  <2> QED BY <2>1, <2>2
<1>4. r = Ending(a, m, s, 0)
  <2>1. a \in Work
    BY <1>3
  <2> HIDE DEF a
  <2> QED BY <2>1 DEF httpd_post_finished, a, Ending, Work
<1>5. s \in Seq(Nat) /\ 0 \in Nat
  OBVIOUS
<1> HIDE DEF a, t, b, s
<1>6. m \in SUBSET Blocks /\ Cardinality(Blocks \ m) >= Others(c)
  <2> DEFINE u == w.heap \cup {b}
  <2>1. u \in SUBSET Blocks /\ m \in SUBSET u
    BY <1>1, <1>2, <1>3
  <2> HIDE DEF u, m
  <2>2. Cardinality(Blocks \ m) >= Cardinality(Blocks \ u) /\ Cardinality(Blocks \ u) >= Others(c)
    BY <1>2, <2>1, Freed DEF u
  <2>3. m \in SUBSET Blocks
    BY <2>1
  <2>4. Cardinality(Blocks \ m) \in Nat /\ Cardinality(Blocks \ u) \in Nat /\ Others(c) \in Nat
    BY <2>1, <2>3, Free, OthersNat
  <2> QED BY <2>2, <2>3, <2>4
<1>7. ~w.g.twice /\ CalmBut(c) =>
         /\ Holds(c, m, a.lost, {a.h.block} \cup ({a.h.post_response_buf} \ {NULL}))
         /\ a.h.post_response_buf # a.h.block
  <2> SUFFICES ASSUME ~w.g.twice /\ CalmBut(c)
               PROVE  /\ Holds(c, m, a.lost, {a.h.block} \cup ({a.h.post_response_buf} \ {NULL}))
                      /\ a.h.post_response_buf # a.h.block
    OBVIOUS
  <2> DEFINE o == w.h.block
             M == w.heap
             L == w.lost
  <2>1. Holds(c, M, L, {o} \cup ({t} \ {NULL})) /\ t # o /\ o \in Blocks
    BY DEF Posted, t
  <2>2. t \in Ptr /\ M \in SUBSET Blocks /\ b \in Blocks \ M
    BY <1>1, <1>2, Fields DEF t
  <2>3. /\ a.h.block = o
        /\ \/ m = M \ {t} /\ a.lost = L /\ a.h.post_response_buf = NULL
           \/ /\ m = (M \cup {b}) \ {t}
              /\ \/ a.lost = L \cup {b} /\ a.h.post_response_buf = NULL
                 \/ a.lost = L /\ a.h.post_response_buf = b
    BY <1>3
  <2> HIDE DEF o, M, L, m
  <2>4. /\ Holds(c, M \ {t}, L, {o})
        /\ Holds(c, (M \cup {b}) \ {t}, L, {o, b})
        /\ Holds(c, (M \cup {b}) \ {t}, L \cup {b}, {o})
        /\ b # o /\ b # NULL
    BY <2>1, <2>2, OverMemory
  <2>5. o # NULL
    BY <2>1, Constants
  <2>6. CASE a.h.post_response_buf = NULL
    <3>1. {a.h.block} \cup ({a.h.post_response_buf} \ {NULL}) = {o}
      BY <2>3, <2>6
    <3>2. Holds(c, m, a.lost, {o})
      BY <2>3, <2>4, <2>6
    <3> QED BY <2>3, <2>5, <2>6, <3>1, <3>2
  <2>7. CASE a.h.post_response_buf # NULL
    <3>1. m = (M \cup {b}) \ {t} /\ a.lost = L /\ a.h.post_response_buf = b
      BY <2>3, <2>7
    <3>2. {a.h.block} \cup ({a.h.post_response_buf} \ {NULL}) = {o, b}
      BY <2>3, <2>4, <3>1
    <3>3. Holds(c, m, a.lost, {o, b})
      BY <2>4, <3>1
    <3> QED BY <2>3, <2>4, <3>1, <3>2, <3>3
  <2> QED BY <2>6, <2>7
<1> HIDE DEF m
<1>8. /\ r \in Work /\ r.heap = m /\ r.cur = NULL /\ r.lost = a.lost /\ r.post
      /\ r.g.out = a.g.out /\ r.g.due = a.g.due /\ r.g.overlap = a.g.overlap /\ r.g.odd = a.g.odd
      /\ r.g.again = a.g.again /\ r.g.twice = a.g.twice /\ r.g.handled = a.g.handled
  <2>1. a \in Work /\ m \in SUBSET Blocks
    BY <1>3, <1>6
  <2> QED BY <1>4, <1>5, <2>1, EndingFields
<1>9. /\ r.h.block = a.h.block /\ r.h.handle = a.h.handle /\ r.h.file = a.h.file /\ r.h.off = a.h.off
      /\ r.h.left = a.h.left /\ r.h.status = a.h.status /\ r.h.hdrs = a.h.hdrs
      /\ r.h.hdr_index = a.h.hdr_index /\ r.h.hdr_pos = a.h.hdr_pos
      /\ r.h.post_content_len_left = a.h.post_content_len_left
      /\ r.h.post_response_buf = a.h.post_response_buf
  BY <1>3, <1>4, <1>5, <1>6, EndingState
<1>10. Rem(r.h) = Rem(a.h) /\ Header(r.h)
  BY <1>3, <1>9, SameRem
<1>11. Answered(r.h, r.g)
  BY <1>3, <1>8, <1>9 DEF Answered
<1>12. ~r.g.again => Sending(r.g.out, Rem(r.h), r.g.due) /\ (Fresh(r.h) => r.g.out = <<>>)
  BY <1>3, <1>8, <1>9, <1>10 DEF Fresh
<1>13. w.h.block \in Blocks /\ (gh[c].twice => w.g.twice)
  BY DEF Posted
<1>14. r.h.file = NULL => r.h.off = 0 /\ r.h.left = 0 /\ ~r.h.handle /\ r.h.post_response_buf = NULL
  BY <1>3, <1>9
<1>15. Over(c, r)
  BY <1>3, <1>6, <1>7, <1>8, <1>9, <1>10, <1>11, <1>12, <1>13, <1>14 DEF Over
<1> QED BY <1>3, <1>8, <1>9, <1>15

(* A POST that is under way is one that may be continued or ended. *)
LEMMA UnderWay ==
    ASSUME NEW c, NEW w, Ready(c, w), w.h.post_content_len_left > 0
    PROVE  Posted(c, w)
<1>1. /\ w \in Work /\ Header(w.h) /\ Source(w.h) /\ Body(w.h, w.g) /\ Answered(w.h, w.g)
      /\ Response(w.h, w.g) /\ w.h.block \in Blocks
  BY DEF Ready, Sound, Local
<1>2. /\ w.h.file = NULL /\ w.h.post_content # NULL /\ w.h.off = 0 /\ w.h.left = 0 /\ ~w.h.handle
      /\ w.h.post_response_buf = NULL
  BY <1>1 DEF Source
<1>3. ~w.g.again => Fresh(w.h) /\ w.g.out = <<>> /\ Sending(w.g.out, Rem(w.h), w.g.due)
  BY <1>1 DEF Response
<1>4. Placed(w.h, w.g)
  BY <1>1 DEF Body, Placed
<1>5. Cardinality(Blocks \ w.heap) >= Others(c) + 1 /\ (w.g.overlap <=> w.cur # c)
  BY DEF Ready, Sound
<1>6. Owned(w.h) = {w.h.block} \cup ({w.h.post_content} \ {NULL})
  BY <1>2 DEF Owned
<1>7. ~w.g.twice /\ CalmBut(c) =>
          /\ Holds(c, w.heap, w.lost, {w.h.block} \cup ({w.h.post_content} \ {NULL}))
          /\ w.h.post_content # w.h.block
  BY <1>6 DEF Ready, Sound, Apart
<1> QED BY <1>1, <1>2, <1>3, <1>4, <1>5, <1>7 DEF Posted, Ready, Sound

LEMMA StillPosted ==
    ASSUME NEW c, NEW w, Posted(c, w), w.h.post_content_len_left > 0
    PROVE  Ready(c, w)
<1>1. w.h.post_content \in Ptr /\ w.h.post_content # NULL
  BY WorkFields, Fields DEF Posted
<1>2. Owned(w.h) = {w.h.block} \cup ({w.h.post_content} \ {NULL})
  BY <1>1 DEF Owned, Posted
<1>3. Header(w.h) /\ Source(w.h) /\ Body(w.h, w.g) /\ Answered(w.h, w.g)
  BY DEF Posted, Source, Body, Placed
<1>4. Response(w.h, w.g)
  BY DEF Posted, Response
<1>5. w.h.block \in Blocks /\ w.h.post_response_buf = NULL /\ NULL \notin Blocks
  BY Constants DEF Posted
<1>6. ~w.g.twice /\ CalmBut(c) => Holds(c, w.heap, w.lost, Owned(w.h)) /\ Apart(w.h)
  BY <1>1, <1>2, <1>5 DEF Posted, Apart, Ptr
<1> QED BY <1>3, <1>4, <1>5, <1>6 DEF Posted, Ready, Sound, Local

LEMMA AllPosted ==
    ASSUME NEW c, NEW w, Over(c, w), w.h.post_content_len_left = 0
    PROVE  Ready(c, w)
<1>1. Owned(w.h) = {w.h.block} \cup ({w.h.post_response_buf} \ {NULL})
  BY DEF Owned
<1>2. Header(w.h) /\ Source(w.h) /\ Body(w.h, w.g) /\ Answered(w.h, w.g)
  BY DEF Over, Source, Body
<1>3. Response(w.h, w.g)
  BY DEF Over, Response
<1>4. ~w.g.twice /\ CalmBut(c) => Holds(c, w.heap, w.lost, Owned(w.h)) /\ Apart(w.h)
  BY <1>1 DEF Over, Apart
<1>5. Cardinality(Blocks \ w.heap) >= Others(c) + 0
  BY OthersNat DEF Over
<1> QED BY <1>2, <1>3, <1>4, <1>5 DEF Over, Ready, Sound, Local

LEMMA CloseStep ==
    ASSUME HttpdInv, NEW c \in Conns, conn[c] = "open", NEW w, Sound(c, w), Answered(w.h, w.g),
           w.h.post_content_len_left > 0 => Local(w.h, w.g), NEW q, Queue(q), NEW eof \in BOOLEAN,
           eof /\ ~w.g.again => Complete(w.g) /\ w.h.post_content_len_left = 0,
           http_close_conn(c, w, q, eof)
    PROVE  HttpdInv'
<1> DEFINE told == IF w.h.post_content_len_left # 0 THEN httpd_post_finished(c, w) ELSE w
<1>1. w \in Work /\ w.h \in HState /\ w.h.post_content_len_left \in Nat
  BY WorkFields, Fields DEF Ready, Sound
<1>2. /\ told \in Work /\ Answered(told.h, told.g)
      /\ (told.post /\ told.cur \in {c, NULL}) \/ (~told.post /\ told.cur = current_connection)
      /\ Cardinality(Blocks \ told.heap) >= Others(c) /\ (gh[c].twice => told.g.twice)
      /\ ~told.g.twice /\ CalmBut(c) =>
            Holds(c, told.heap, told.lost, {told.h.block} \cup ({told.h.post_response_buf} \ {NULL}))
      /\ told.g.again = w.g.again /\ (w.h.post_content_len_left = 0 => told = w)
  <2>1. CASE w.h.post_content_len_left # 0
    <3>1. told = httpd_post_finished(c, w) /\ w.h.post_content_len_left > 0
      BY <1>1, <2>1
    <3> HIDE DEF told
    <3>2. Posted(c, w)
      BY <3>1, UnderWay DEF Ready
    <3>3. Over(c, told) /\ told.g.again = w.g.again
      BY <3>1, <3>2, PostFinished
    <3> QED BY <2>1, <3>3 DEF Over
  <2>2. CASE w.h.post_content_len_left = 0
    <3>1. told = w
      BY <2>2
    <3>2. Owned(w.h) = {w.h.block} \cup ({w.h.post_response_buf} \ {NULL})
      BY <2>2 DEF Owned
    <3>3. Cardinality(Blocks \ w.heap) >= Others(c)
      BY <2>2, OthersNat DEF Ready, Sound
    <3> HIDE DEF told
    <3> QED BY <1>1, <3>1, <3>2, <3>3 DEF Ready, Sound, Local
  <2> QED BY <2>1, <2>2
<1>3. PICK k \in {"closing", "closed"} : conn' = [conn EXCEPT ![c] = k]
  BY DEF http_close_conn
<1>4. /\ heap' = http_state_free(told.heap, told.h) /\ hs' = [hs EXCEPT ![c] = http_state_init(NULL)]
      /\ current_connection' = told.cur /\ lost' = told.lost /\ tcp' = [tcp EXCEPT ![c] = q]
      /\ History(c, Ended(told.g, eof), told.post) /\ UNCHANGED nullLeft
  BY DEF http_close_conn
<1> HIDE DEF told
<1>5. Moves(c, k, http_state_init(NULL), Ended(told.g, eof), q, http_state_free(told.heap, told.h),
            told.lost, told.cur, told.post)
  <2>1. gh' = [d \in Conns |-> IF d = c THEN Ended(told.g, eof)
                               ELSE Overlapped(gh[d], told.post /\ d \in Posting)]
    BY <1>4, HistoryIs
  <2> QED BY <1>3, <1>4, <2>1 DEF Moves
<1>6. eof /\ ~told.g.again => Complete(told.g)
  BY <1>2
<1> QED BY <1>2, <1>5, <1>6, LeaveStep

(* What is kept of a connection that sends. *)
SentOn(w, h, x) == [w EXCEPT !.h = h, !.g.out = x]

LEMMA SentOnFields ==
    ASSUME NEW w \in Work, NEW h \in HState, NEW x \in Seq(Nat), NEW r, r = SentOn(w, h, x)
    PROVE  /\ r \in Work /\ r.h = h /\ r.heap = w.heap /\ r.cur = w.cur /\ r.lost = w.lost
           /\ r.post = w.post
           /\ r.g.out = x /\ r.g.due = w.g.due /\ r.g.overlap = w.g.overlap /\ r.g.odd = w.g.odd
           /\ r.g.again = w.g.again /\ r.g.twice = w.g.twice /\ r.g.posted = w.g.posted
           /\ r.g.handled = w.g.handled
BY DEF Work, Hist, SentOn

Mems(sent) == [i \in DOMAIN sent |-> sent[i].mem]

LEMMA MemsOf ==
    ASSUME NEW s \in Seq(Unit)
    PROVE  Mems(s) \in Seq(Ptr \cup {ROM}) /\ Len(Mems(s)) = Len(s)
<1>1. Len(s) \in Nat /\ DOMAIN s = 1..Len(s) /\ \A i \in 1..Len(s) : s[i] \in Unit
  BY LenProperties, ElementOfSeq
<1>2. \A i \in 1..Len(s) : s[i].mem \in Ptr \cup {ROM}
  BY <1>1 DEF Unit
<1> QED BY <1>1, <1>2 DEF Mems

LEMMA AllSent ==
    ASSUME NEW g \in Hist, Sending(g.out, {}, g.due)
    PROVE  Complete(g)
<1>1. g.out \in Seq(Nat)
  BY HistFields
<1>2. Len(g.out) \in Nat /\ DOMAIN g.out = 1..Len(g.out)
  BY <1>1, LenProperties
<1>3. \A i \in 2..Len(g.out) : i - 1 \in DOMAIN g.out /\ i \in DOMAIN g.out /\ i - 1 < i
  BY <1>2
<1> QED BY <1>3 DEF Sending, Complete

LEMMA SendStep ==
    ASSUME HttpdInv, NEW c \in Conns, conn[c] = "open", NEW w, Ready(c, w), NEW q, Queue(q),
           ~w.g.again => w.h.post_content_len_left = 0, Send(c, w, q)
    PROVE  HttpdInv'
<1> DEFINE room == SndBuf - Len(q)
           short == "short" \in sends[c]
<1>1. /\ w \in Work /\ w.h \in HState /\ w.g \in Hist /\ Local(w.h, w.g)
  BY WorkFields DEF Ready, Sound
<1>2. room \in Nat /\ short \in BOOLEAN /\ Len(q) \in Nat
  <2>1. Len(q) \in Nat /\ Len(q) <= SndBuf /\ SndBuf \in Nat
    BY LenProperties, Constants DEF Queue
  <2> QED BY <2>1
<1>3. PICK s \in http_send(w.h, room, short) :
         LET toks == [i \in DOMAIN s.sent |-> s.sent[i].tok]
             mems == [i \in DOMAIN s.sent |-> s.sent[i].mem]
             done == [w EXCEPT !.h = s.h, !.g.out = IF w.g.again THEN <<>> ELSE @ \o toks]
         IN  IF s.eof THEN http_close_conn(c, done, q \o mems, TRUE) ELSE Keep(c, done, q \o mems)
  BY DEF Send
<1> HIDE DEF room, short
<1>4. /\ s.h \in HState /\ Header(s.h) /\ Source(s.h) /\ Kept(w.h, s.h)
      /\ s.sent \in Seq(Unit) /\ Len(s.sent) <= room /\ Passed(s.sent, Rem(w.h), Rem(s.h))
      /\ s.eof \in BOOLEAN /\ (s.eof => Rem(s.h) = {}) /\ (~s.eof => ~Fresh(s.h))
  BY <1>1, <1>2, <1>3, HttpSend DEF Local
<1> DEFINE x == IF w.g.again THEN <<>> ELSE w.g.out \o Toks(s.sent)
           done == SentOn(w, s.h, x)
           p == q \o Mems(s.sent)
<1>5. IF s.eof THEN http_close_conn(c, done, p, TRUE) ELSE Keep(c, done, p)
  <2>1. done = [w EXCEPT !.h = s.h, !.g.out = IF w.g.again THEN <<>> ELSE @ \o Toks(s.sent)]
    BY <1>1 DEF SentOn, Work, Hist
  <2> HIDE DEF done
  <2> QED BY <1>3, <2>1 DEF Toks, Mems
<1>6. Queue(p)
  <2>1. q \in Seq(Ptr \cup {ROM}) /\ Mems(s.sent) \in Seq(Ptr \cup {ROM}) /\ Len(Mems(s.sent)) = Len(s.sent)
    BY <1>4, MemsOf DEF Queue
  <2>2. p \in Seq(Ptr \cup {ROM}) /\ Len(p) = Len(q) + Len(Mems(s.sent)) /\ Len(Mems(s.sent)) \in Nat
    <3> DEFINE t == Mems(s.sent)
               T == Ptr \cup {ROM}
    <3>1. q \in Seq(T) /\ t \in Seq(T) /\ p = q \o t
      BY <2>1
    <3> HIDE DEF t, T, p
    <3>2. p \in Seq(T) /\ Len(p) = Len(q) + Len(t) /\ Len(t) \in Nat
      BY <3>1, Strung
    <3> QED BY <3>2 DEF t, T
  <2> DEFINE y == Len(Mems(s.sent))
             z == Len(q)
  <2>3. y \in Nat /\ z \in Nat /\ SndBuf \in Nat /\ y <= SndBuf - z
    <3>1. room = SndBuf - z /\ y <= room
      BY <1>4, <2>1 DEF room
    <3> QED BY <1>2, <2>2, <3>1, Constants
  <2> HIDE DEF y, z
  <2>4. z + y <= SndBuf
    BY <2>3, SumFits
  <2> QED BY <2>2, <2>4 DEF Queue, y, z
<1>7. x \in Seq(Nat)
  <2>1. w.g.out \in Seq(Nat) /\ Toks(s.sent) \in Seq(Nat) /\ <<>> \in Seq(Nat)
    BY <1>1, <1>4, ToksOf, HistFields
  <2>2. w.g.out \o Toks(s.sent) \in Seq(Nat)
    BY <2>1, Strung
  <2> QED BY <2>1, <2>2
<1>8. ~w.g.again => Sending(x, Rem(s.h), w.g.due)
  <2> SUFFICES ASSUME ~w.g.again PROVE Sending(x, Rem(s.h), w.g.due)
    OBVIOUS
  <2>1. Sending(w.g.out, Rem(w.h), w.g.due)
    BY <1>1 DEF Local, Response
  <2>2. Sending(Toks(s.sent), Rem(s.h), Rem(w.h))
    BY <1>4, PassedIs
  <2>3. w.g.out \in Seq(Nat) /\ Toks(s.sent) \in Seq(Nat)
    BY <1>1, <1>4, ToksOf, HistFields
  <2>4. Sending(w.g.out \o Toks(s.sent), Rem(s.h), w.g.due)
    BY <2>1, <2>2, <2>3, SendingOn
  <2> QED BY <2>4
<1>9. done = SentOn(w, s.h, x)
  OBVIOUS
<1> HIDE DEF x, done, p
<1>10. /\ done \in Work /\ done.h = s.h /\ done.heap = w.heap /\ done.cur = w.cur
       /\ done.lost = w.lost /\ done.post = w.post
       /\ done.g.out = x /\ done.g.due = w.g.due /\ done.g.overlap = w.g.overlap
       /\ done.g.odd = w.g.odd /\ done.g.again = w.g.again /\ done.g.twice = w.g.twice
       /\ done.g.posted = w.g.posted /\ done.g.handled = w.g.handled
  BY <1>1, <1>4, <1>7, <1>9, SentOnFields
<1>11. Owned(s.h) = Owned(w.h) /\ (Apart(w.h) => Apart(s.h)) /\ s.h.block = w.h.block
       /\ s.h.post_content_len_left = w.h.post_content_len_left
  BY <1>4 DEF Kept, Owned, Apart
<1>12. Body(done.h, done.g) /\ Answered(done.h, done.g)
  <2>1. s.h.status = w.h.status /\ s.h.content = w.h.content /\ s.h.post_response_buf = w.h.post_response_buf
        /\ s.h.post_content_len_left = w.h.post_content_len_left
    BY <1>4 DEF Kept
  <2> QED BY <1>1, <1>10, <2>1 DEF Local, Body, Answered
<1>14. Sound(c, done)
  BY <1>10, <1>11 DEF Ready, Sound
<1>13. CASE s.eof
  <2>1. ~w.g.again => Complete(done.g) /\ done.h.post_content_len_left = 0
    <3> SUFFICES ASSUME ~w.g.again PROVE Complete(done.g) /\ done.h.post_content_len_left = 0
      OBVIOUS
    <3>1. Sending(done.g.out, {}, done.g.due)
      BY <1>4, <1>8, <1>10, <1>13
    <3>2. done.g \in Hist
      BY <1>10, WorkFields
    <3> QED BY <1>10, <1>11, <3>1, <3>2, AllSent
  <2>2. done.h.post_content_len_left > 0 => Local(done.h, done.g)
    BY <1>4, <1>10, <1>11, <1>12 DEF Local, Response
  <2>3. TRUE \in BOOLEAN /\ http_close_conn(c, done, p, TRUE)
    BY <1>5, <1>13
  <2> QED BY <1>6, <1>10, <1>12, <1>14, <2>1, <2>2, <2>3, CloseStep
<1>15. CASE ~s.eof
  <2>1. Response(done.h, done.g) /\ ~Fresh(done.h)
    BY <1>4, <1>8, <1>10, <1>11, <1>15 DEF Response
  <2>2. Ready(c, done)
    BY <1>4, <1>10, <1>12, <1>14, <2>1 DEF Ready, Sound, Local
  <2>3. Keep(c, done, p)
    BY <1>5, <1>15
  <2> QED BY <1>6, <2>1, <2>2, <2>3, KeepStep
<1> QED BY <1>4, <1>13, <1>15

-----------------------------------------------------------------------------
(* The callbacks. *)

(* v differs from w in the counters only, and in that a request came early. *)
Like(w, v) ==
    /\ v \in Work /\ v.heap = w.heap /\ v.cur = w.cur /\ v.lost = w.lost /\ v.post = w.post
    /\ SameFile(w.h, v.h) /\ v.h.status = w.h.status /\ v.h.hdrs = w.h.hdrs
    /\ v.h.hdr_index = w.h.hdr_index /\ v.h.hdr_pos = w.h.hdr_pos
    /\ v.g.out = w.g.out /\ v.g.due = w.g.due /\ v.g.overlap = w.g.overlap /\ v.g.odd = w.g.odd
    /\ v.g.twice = w.g.twice /\ v.g.posted = w.g.posted /\ v.g.handled = w.g.handled
    /\ w.g.again => v.g.again

LEMMA LikeReady ==
    ASSUME NEW c, NEW w, Ready(c, w), NEW v, Like(w, v)
    PROVE  Ready(c, v)
<1>1. Local(w.h, w.g)
  BY DEF Ready
<1>2. Rem(v.h) = Rem(w.h) /\ Header(v.h)
  <2>1. Header(w.h)
    BY <1>1 DEF Local
  <2>2. /\ v.h.hdrs = w.h.hdrs /\ v.h.hdr_index = w.h.hdr_index /\ v.h.hdr_pos = w.h.hdr_pos
        /\ v.h.off = w.h.off /\ v.h.left = w.h.left
    BY DEF Like, SameFile
  <2> QED BY <2>1, <2>2, SameRem
<1>3. Source(v.h) /\ Body(v.h, v.g) /\ Answered(v.h, v.g)
  BY <1>1 DEF Like, SameFile, Local, Source, Body, Answered
<1>4. Response(v.h, v.g)
  BY <1>1, <1>2 DEF Like, SameFile, Local, Response, Fresh
<1>5. Owned(v.h) = Owned(w.h) /\ (Apart(w.h) => Apart(v.h))
  BY DEF Like, SameFile, Owned, Apart
<1>6. Sound(c, v)
  BY <1>5 DEF Ready, Sound, Like, SameFile
<1> QED BY <1>2, <1>3, <1>4, <1>6 DEF Ready, Local

Retried(w, n) == [w EXCEPT !.h.retries = n]
Counted(w, n) == [w EXCEPT !.h.req = n]
Another(w, n) == [w EXCEPT !.g.recvs = n]
Early(w, n, b) == [w EXCEPT !.h.req = n, !.g.again = @ \/ b]

LEMMA RetriedLike ==
    ASSUME NEW w \in Work, NEW n \in Nat, NEW v, v = Retried(w, n)
    PROVE  Like(w, v) /\ v.h.post_content_len_left = w.h.post_content_len_left /\ v.g = w.g
<1>1. v \in Work /\ v.heap = w.heap /\ v.cur = w.cur /\ v.lost = w.lost /\ v.post = w.post /\ v.g = w.g
  BY DEF Work, HState, Retried
<1>2. /\ SameFile(w.h, v.h) /\ v.h.status = w.h.status /\ v.h.hdrs = w.h.hdrs
      /\ v.h.hdr_index = w.h.hdr_index /\ v.h.hdr_pos = w.h.hdr_pos
  BY DEF Work, HState, Retried, SameFile
<1> QED BY <1>1, <1>2 DEF Like, SameFile

LEMMA CountedLike ==
    ASSUME NEW w \in Work, NEW n \in Nat, NEW v, v = Counted(w, n)
    PROVE  Like(w, v)
<1>1. v \in Work /\ v.heap = w.heap /\ v.cur = w.cur /\ v.lost = w.lost /\ v.post = w.post /\ v.g = w.g
  BY DEF Work, HState, Counted
<1>2. /\ SameFile(w.h, v.h) /\ v.h.status = w.h.status /\ v.h.hdrs = w.h.hdrs
      /\ v.h.hdr_index = w.h.hdr_index /\ v.h.hdr_pos = w.h.hdr_pos
  BY DEF Work, HState, Counted, SameFile
<1> QED BY <1>1, <1>2 DEF Like

LEMMA AnotherLike ==
    ASSUME NEW w \in Work, NEW n \in Nat, NEW v, v = Another(w, n)
    PROVE  Like(w, v) /\ v.g.again = w.g.again
<1>1. v \in Work /\ v.heap = w.heap /\ v.cur = w.cur /\ v.lost = w.lost /\ v.post = w.post /\ v.h = w.h
  BY DEF Work, Hist, Another
<1>2. /\ v.g.out = w.g.out /\ v.g.due = w.g.due /\ v.g.overlap = w.g.overlap /\ v.g.odd = w.g.odd
      /\ v.g.twice = w.g.twice /\ v.g.posted = w.g.posted /\ v.g.handled = w.g.handled
      /\ v.g.again = w.g.again
  BY DEF Work, Hist, Another
<1>3. SameFile(w.h, v.h)
  BY <1>1 DEF SameFile
<1> QED BY <1>1, <1>2, <1>3 DEF Like

LEMMA EarlyLike ==
    ASSUME NEW w \in Work, NEW n \in Nat, NEW b \in BOOLEAN, NEW v, v = Early(w, n, b)
    PROVE  Like(w, v) /\ (v.g.again <=> (w.g.again \/ b))
<1>1. v \in Work /\ v.heap = w.heap /\ v.cur = w.cur /\ v.lost = w.lost /\ v.post = w.post
  BY DEF Work, HState, Hist, Early
<1>2. /\ SameFile(w.h, v.h) /\ v.h.status = w.h.status /\ v.h.hdrs = w.h.hdrs
      /\ v.h.hdr_index = w.h.hdr_index /\ v.h.hdr_pos = w.h.hdr_pos
  BY DEF Work, HState, Hist, Early, SameFile
<1>3. /\ v.g.out = w.g.out /\ v.g.due = w.g.due /\ v.g.overlap = w.g.overlap /\ v.g.odd = w.g.odd
      /\ v.g.twice = w.g.twice /\ v.g.posted = w.g.posted /\ v.g.handled = w.g.handled
      /\ (v.g.again <=> (w.g.again \/ b))
  BY DEF Work, HState, Hist, Early
<1> QED BY <1>1, <1>2, <1>3 DEF Like

LEMMA NowIs ==
    ASSUME HttpdInv, NEW c \in Conns, conn[c] = "open"
    PROVE  /\ Ready(c, Now(c)) /\ Now(c) \in Work /\ Now(c).h = hs[c] /\ Now(c).g = gh[c]
           /\ Now(c).heap = heap /\ Queue(tcp[c])
           /\ hs[c] \in HState /\ gh[c] \in Hist
           /\ Fresh(hs[c]) /\ ~gh[c].again => tcp[c] = <<>>
<1> DEFINE w == Now(c)
<1>1. /\ w.h = hs[c] /\ w.g = gh[c] /\ w.heap = heap /\ w.cur = current_connection /\ w.lost = lost
      /\ ~w.post
  BY DEF Now
<1>2. /\ hs[c] \in HState /\ gh[c] \in Hist /\ tcp[c] \in Seq(Ptr \cup {ROM}) /\ Len(tcp[c]) <= SndBuf
      /\ heap \in SUBSET Blocks /\ lost \in SUBSET Blocks
      /\ current_connection \in Conns \cup {NULL} /\ Each(c)
      /\ IsPosting("open", hs[c]) => (gh[c].overlap <=> current_connection # c)
      /\ Cardinality(Blocks \ heap) >= Others(c) + (IF IsPosting("open", hs[c]) THEN 1 ELSE 0)
      /\ ~gh[c].twice /\ CalmBut(c) => Holds(c, heap, lost, OwnedIn("open", hs[c])) /\ Apart(hs[c])
  BY Before
<1>3. w \in Work
  BY <1>2 DEF Now, Work
<1>4. /\ Local(hs[c], gh[c]) /\ hs[c].block \in Blocks
      /\ Fresh(hs[c]) /\ ~gh[c].again => tcp[c] = <<>>
  BY <1>2 DEF Each
<1>5. /\ IsPosting("open", hs[c]) <=> hs[c].post_content_len_left > 0
      /\ OwnedIn("open", hs[c]) = Owned(hs[c])
  BY DEF IsPosting, OwnedIn
<1> HIDE DEF w
<1>6. Ready(c, w)
  BY <1>1, <1>2, <1>3, <1>4, <1>5 DEF Ready, Sound
<1> QED BY <1>1, <1>2, <1>3, <1>4, <1>6 DEF Queue, w

LEMMA LikeOn == ASSUME NEW u, NEW v, NEW w, Like(u, v), Like(v, w) PROVE Like(u, w)
BY DEF Like, SameFile

LEMMA LikeFields ==
    ASSUME NEW w, NEW v, Like(w, v)
    PROVE  /\ v.h.post_content_len_left = w.h.post_content_len_left /\ v.h.handle = w.h.handle
           /\ v.h.file = w.h.file /\ v.h.post_response_buf = w.h.post_response_buf
           /\ (Fresh(v.h) <=> Fresh(w.h)) /\ v \in Work
BY DEF Like, SameFile, Fresh

LEMMA ReceivedIs ==
    ASSUME HttpdInv, NEW c \in Conns, conn[c] = "open"
    PROVE  /\ Like(Now(c), Received(c)) /\ Received(c) \in Work /\ Ready(c, Received(c))
           /\ Received(c).g.again = gh[c].again
<1> DEFINE w == Now(c)
           n == gh[c].recvs + 1
           v == Received(c)
<1>1. w \in Work /\ w.g = gh[c] /\ gh[c] \in Hist /\ Ready(c, w)
  BY NowIs
<1>2. n \in Nat
  BY <1>1, HistFields
<1> HIDE DEF w, n
<1>3. v = Another(w, n)
  BY <1>1 DEF Received, Another, Work, w, n
<1> HIDE DEF v
<1>4. Like(w, v) /\ v.g.again = w.g.again
  BY <1>1, <1>2, <1>3, AnotherLike
<1>5. Ready(c, v)
  BY <1>1, <1>4, LikeReady
<1> QED BY <1>1, <1>4, <1>5, LikeFields DEF w, v

LEMMA ParsingIs ==
    ASSUME HttpdInv, NEW c \in Conns, NEW kind, MayParse(c, kind)
    PROVE  /\ conn[c] = "open" /\ Parsing(c) \in Work /\ Ready(c, Parsing(c))
           /\ Parsing(c).heap = heap /\ Parsing(c).h.post_content_len_left = 0
           /\ Parsing(c).h.file = NULL /\ ~Parsing(c).h.handle
           /\ (~Parsing(c).g.again => Fresh(Parsing(c).h) /\ tcp[c] = <<>>)
<1> DEFINE w == Received(c)
           b == hs[c].hdr_index < NUM_FILE_HDR_STRINGS
           v == Parsing(c)
<1>1. conn[c] = "open" /\ hs[c].post_content_len_left = 0 /\ ~hs[c].handle /\ hs[c].file = NULL
  BY DEF MayParse, Receiving
<1>2. /\ Like(Now(c), w) /\ w \in Work /\ Ready(c, w) /\ Now(c).h = hs[c] /\ Now(c).heap = heap
      /\ hs[c] \in HState /\ (Fresh(hs[c]) /\ ~w.g.again => tcp[c] = <<>>)
  BY <1>1, ReceivedIs, NowIs
<1>3. b \in BOOLEAN /\ 0 \in Nat
  OBVIOUS
<1>4. ~b => hs[c].hdr_index = NUM_FILE_HDR_STRINGS
  BY <1>2, Indices DEF NUM_FILE_HDR_STRINGS
<1> HIDE DEF w, b
<1>5. v = Early(w, 0, b)
  BY DEF Parsing, Early, w, b
<1> HIDE DEF v
<1>6. Like(w, v) /\ (v.g.again <=> (w.g.again \/ b))
  BY <1>2, <1>3, <1>5, EarlyLike
<1>7. Like(Now(c), v) /\ Ready(c, v)
  BY <1>2, <1>6, LikeOn, LikeReady
<1>8. v \in Work /\ v.heap = heap /\ v.h.post_content_len_left = 0 /\ v.h.file = NULL /\ ~v.h.handle
  BY <1>1, <1>2, <1>7 DEF Like, SameFile
<1>9. v.h.hdr_index = hs[c].hdr_index
  BY <1>2, <1>7 DEF Like
<1>10. ~v.g.again => Fresh(v.h) /\ Fresh(hs[c]) /\ ~w.g.again
  BY <1>1, <1>4, <1>6, <1>8, <1>9 DEF Fresh
<1> QED BY <1>1, <1>2, <1>7, <1>8, <1>10 DEF v

LEMMA CloseNow ==
    ASSUME HttpdInv, NEW c \in Conns, conn[c] = "open", NEW w, Ready(c, w), http_close_conn(c, w, tcp[c], FALSE)
    PROVE  HttpdInv'
<1>1. Sound(c, w) /\ Local(w.h, w.g) /\ Answered(w.h, w.g)
  BY DEF Ready, Local
<1>2. FALSE \in BOOLEAN /\ Queue(tcp[c])
  BY NowIs
<1> QED BY <1>1, <1>2, CloseStep

LEMMA KeepNow ==
    ASSUME HttpdInv, NEW c \in Conns, conn[c] = "open", NEW w, Like(Now(c), w), Keep(c, w, tcp[c])
    PROVE  HttpdInv'
<1>1. /\ Ready(c, Now(c)) /\ Now(c).h = hs[c] /\ Now(c).g = gh[c] /\ Queue(tcp[c])
      /\ Fresh(hs[c]) /\ ~gh[c].again => tcp[c] = <<>>
  BY NowIs
<1>2. Ready(c, w)
  BY <1>1, LikeReady
<1>3. Fresh(w.h) /\ ~w.g.again => tcp[c] = <<>>
  BY <1>1, LikeFields DEF Like
<1> QED BY <1>1, <1>2, <1>3, KeepStep

LEMMA ClosedStep == ASSUME HttpdInv, NEW c \in Conns, RecvClosed(c) PROVE HttpdInv'
<1>1. conn[c] = "open" /\ http_close_conn(c, Now(c), tcp[c], FALSE)
  BY DEF RecvClosed
<1>2. Ready(c, Now(c))
  BY <1>1, NowIs
<1> QED BY <1>1, <1>2, CloseNow

LEMMA BadRequestStep == ASSUME HttpdInv, NEW c \in Conns, RecvBadRequest(c) PROVE HttpdInv'
<1>1. MayParse(c, "bad") /\ http_close_conn(c, Parsing(c), tcp[c], FALSE)
  BY DEF RecvBadRequest
<1>2. Ready(c, Parsing(c)) /\ conn[c] = "open"
  BY <1>1, ParsingIs
<1> QED BY <1>1, <1>2, CloseNow

LEMMA IncompleteStep == ASSUME HttpdInv, NEW c \in Conns, RecvIncomplete(c) PROVE HttpdInv'
<1> DEFINE u == Received(c)
           n == u.h.req + 1
           w == [u EXCEPT !.h.req = @ + 1]
<1>1. MayParse(c, "part") /\ conn[c] = "open"
  BY DEF RecvIncomplete, MayParse, Receiving
<1>2. Keep(c, w, tcp[c]) \/ http_close_conn(c, Parsing(c), tcp[c], FALSE)
  BY DEF RecvIncomplete
<1>3. CASE Keep(c, w, tcp[c])
  <2>1. u \in Work /\ Like(Now(c), u)
    BY <1>1, ReceivedIs
  <2> HIDE DEF u
  <2>2. n \in Nat
    BY <2>1, WorkFields, Fields
  <2>3. w = Counted(u, n)
    BY <2>1 DEF Counted, Work, HState
  <2> HIDE DEF n, w
  <2>4. Like(u, w)
    BY <2>1, <2>2, <2>3, CountedLike
  <2>5. Like(Now(c), w)
    BY <2>1, <2>4, LikeOn
  <2> QED BY <1>1, <1>3, <2>5, KeepNow
<1>4. CASE http_close_conn(c, Parsing(c), tcp[c], FALSE)
  <2>1. Ready(c, Parsing(c))
    BY <1>1, ParsingIs
  <2> QED BY <1>1, <1>4, <2>1, CloseNow
<1> QED BY <1>2, <1>3, <1>4

LEMMA PollStep == ASSUME HttpdInv, NEW c \in Conns, http_poll(c) PROVE HttpdInv'
<1> DEFINE u == Now(c)
           n == u.h.retries + 1
           w == [u EXCEPT !.h.retries = @ + 1]
<1>1. conn[c] = "open"
  BY DEF http_poll
<1>2. \/ http_close_conn(c, w, tcp[c], FALSE) \/ (w.h.handle /\ Send(c, w, tcp[c]))
      \/ Keep(c, w, tcp[c])
  BY DEF http_poll
<1>3. u \in Work /\ Ready(c, u) /\ Queue(tcp[c])
  BY <1>1, NowIs
<1> HIDE DEF u
<1>4. n \in Nat
  BY <1>3, WorkFields, Fields
<1>5. w = Retried(u, n)
  BY <1>3 DEF Retried, Work, HState
<1> HIDE DEF n, w
<1>6. Like(u, w)
  BY <1>3, <1>4, <1>5, RetriedLike
<1>7. Ready(c, w)
  BY <1>3, <1>6, LikeReady
<1>8. CASE http_close_conn(c, w, tcp[c], FALSE)
  BY <1>1, <1>7, <1>8, CloseNow
<1>9. CASE Keep(c, w, tcp[c])
  BY <1>1, <1>6, <1>9, KeepNow DEF u
<1>10. CASE w.h.handle /\ Send(c, w, tcp[c])
  <2>1. w.h.post_content_len_left = 0
    <3>1. Source(w.h) /\ w.h \in HState
      BY <1>7, WorkFields DEF Ready, Sound, Local
    <3>2. w.h.post_content_len_left \in Nat
      BY <3>1, Fields
    <3> QED BY <1>10, <3>1, <3>2 DEF Source
  <2> QED BY <1>1, <1>3, <1>7, <1>10, <2>1, SendStep
<1> QED BY <1>2, <1>8, <1>9, <1>10

LEMMA SentStep == ASSUME HttpdInv, NEW c \in Conns, http_sent(c) PROVE HttpdInv'
<1> DEFINE u == Now(c)
           w == [u EXCEPT !.h.retries = 0]
<1>1. conn[c] = "open"
  BY DEF http_sent
<1>2. PICK n \in 1..Len(tcp[c]) : Send(c, w, SubSeq(tcp[c], n + 1, Len(tcp[c])))
  BY DEF http_sent
<1> DEFINE q == SubSeq(tcp[c], n + 1, Len(tcp[c]))
<1>3. /\ u \in Work /\ Ready(c, u) /\ Queue(tcp[c]) /\ u.h = hs[c] /\ u.g = gh[c]
      /\ Fresh(hs[c]) /\ ~gh[c].again => tcp[c] = <<>>
  BY <1>1, NowIs
<1> HIDE DEF u
<1>4. w = Retried(u, 0) /\ 0 \in Nat
  BY DEF Retried
<1> HIDE DEF w
<1>5. Like(u, w) /\ w.h.post_content_len_left = u.h.post_content_len_left /\ w.g = u.g
  BY <1>3, <1>4, RetriedLike
<1>6. Ready(c, w)
  BY <1>3, <1>5, LikeReady
<1>7. Len(tcp[c]) \in Nat /\ Len(tcp[c]) > 0 /\ tcp[c] # <<>>
  <2>1. Len(tcp[c]) \in Nat
    BY <1>3, LenProperties DEF Queue
  <2> QED BY <1>2, <2>1
<1>8. Queue(q)
  <2>1. tcp[c] \in Seq(Ptr \cup {ROM}) /\ Len(tcp[c]) <= SndBuf
    BY <1>3 DEF Queue
  <2>2. n + 1 \in 1..Len(tcp[c]) + 1
    BY <1>7
  <2>3. q \in Seq(Ptr \cup {ROM}) /\ Len(q) = IF n + 1 <= Len(tcp[c]) THEN Len(tcp[c]) - (n + 1) + 1 ELSE 0
    BY <1>7, <2>1, <2>2, SubSeqProperties
  <2>4. Len(q) <= SndBuf
    BY <1>7, <2>1, <2>2, <2>3, Constants
  <2> QED BY <2>3, <2>4 DEF Queue
<1>9. ~w.g.again => w.h.post_content_len_left = 0
  <2> SUFFICES ASSUME ~w.g.again PROVE w.h.post_content_len_left = 0
    OBVIOUS
  <2>1. ~gh[c].again /\ ~Fresh(hs[c])
    BY <1>3, <1>5, <1>7
  <2>2. Response(hs[c], gh[c]) /\ hs[c].post_content_len_left \in Nat
    BY <1>3, WorkFields, Fields DEF Ready, Local
  <2> QED BY <1>3, <1>5, <2>1, <2>2 DEF Response
<1> HIDE DEF q
<1> QED BY <1>1, <1>2, <1>6, <1>8, <1>9, SendStep DEF q

LEMMA DueNat == ASSUME NEW h \in HState PROVE Due(h) \in SUBSET Nat
<1>1. h.hdrs \subseteq 0..5 /\ h.left \in Nat /\ HdrLen \in Nat \ {0}
  BY Indices, Fields, Constants
<1>2. \A j \in 0..h.left - 1 : BodyTok(j) \in Nat
  BY <1>1 DEF BodyTok, NUM_FILE_HDR_STRINGS
<1>3. \A i \in h.hdrs : \A p \in 0..Units(i) - 1 : HdrTok(i, p) \in Nat
  BY <1>1 DEF HdrTok, Units, HTTP_STATUS
<1> QED BY <1>2, <1>3 DEF Due

(* A new response, after a request that is not a POST. *)
LEMMA Answering ==
    ASSUME HttpdInv, NEW c \in Conns, NEW kind, MayParse(c, kind), NEW w, w = Parsing(c),
           NEW k \in HState, k.block = w.h.block, k.post_content_len_left = w.h.post_content_len_left,
           k.post_response_buf = w.h.post_response_buf, Header(k),
           k.file = NULL => k.off = 0 /\ k.left = 0 /\ ~k.handle,
           ~w.g.again => Due(k) = Rem(k), Send(c, Respond(w, k), tcp[c])
    PROVE  HttpdInv'
<1> DEFINE r == Respond(w, k)
<1>1. /\ conn[c] = "open" /\ w \in Work /\ Ready(c, w) /\ w.h.post_content_len_left = 0
      /\ w.h.file = NULL /\ ~w.h.handle /\ (~w.g.again => Fresh(w.h))
  BY ParsingIs
<1>2. /\ r \in Work /\ r.h = k /\ r.heap = w.heap /\ r.cur = w.cur /\ r.lost = w.lost
      /\ r.post = w.post /\ r.g.due = Due(k) /\ SameBut(w.g, r.g)
  <2>1. Due(k) \in SUBSET Nat
    BY DueNat
  <2> HIDE DEF r
  <2> QED BY <1>1, <2>1, RespondFields DEF r
<1>3. Send(c, r, tcp[c])
  OBVIOUS
<1> HIDE DEF r
<1>4. Local(w.h, w.g) /\ Sound(c, w) /\ w.h.post_response_buf = NULL
  BY <1>1 DEF Ready, Local, Source
<1>5. Source(k) /\ Body(r.h, r.g)
  BY <1>1, <1>2, <1>4 DEF Source, Body
<1>6. Answered(r.h, r.g)
  BY <1>2, <1>4 DEF Local, Answered, SameBut
<1>7. Response(r.h, r.g)
  <2> SUFFICES ASSUME ~r.g.again
               PROVE  /\ Sending(r.g.out, Rem(r.h), r.g.due) /\ (Fresh(r.h) => r.g.out = <<>>)
                      /\ r.h.post_content_len_left > 0 => Fresh(r.h)
    BY DEF Response
  <2>1. ~w.g.again /\ r.g.out = w.g.out
    BY <1>2 DEF SameBut
  <2>2. r.g.out = <<>> /\ r.g.due = Rem(r.h)
    BY <1>1, <1>2, <1>4, <2>1 DEF Local, Response
  <2> QED BY <1>1, <1>2, <2>2, SendingNone
<1>8. Owned(k) = Owned(w.h) /\ (Apart(w.h) => Apart(k))
  BY <1>1 DEF Owned, Apart
<1>9. Sound(c, r)
  BY <1>1, <1>2, <1>4, <1>8 DEF Sound, SameBut
<1>10. Ready(c, r)
  BY <1>2, <1>5, <1>6, <1>7, <1>9 DEF Ready, Local
<1>11. Queue(tcp[c]) /\ (~r.g.again => r.h.post_content_len_left = 0)
  BY <1>1, <1>2, NowIs
<1> QED BY <1>1, <1>3, <1>10, <1>11, SendStep

LEMMA OtherHostStep == ASSUME HttpdInv, NEW c \in Conns, RecvOtherHost(c) PROVE HttpdInv'
<1> DEFINE w == Parsing(c)
           S == {HTTP_STATUS, CONTENT_LEN_KEEPALIVE}
           none == {}
           k == FirstHeader(w.h, "found", S, none)
<1>1. MayParse(c, "host") /\ Send(c, Respond(w, k), tcp[c])
  BY DEF RecvOtherHost, redirect
<1>2. w \in Work /\ w.h \in HState /\ Source(w.h) /\ w.h.file = NULL /\ w.h.off = 0
  BY <1>1, ParsingIs, WorkFields DEF Ready, Local, Source
<1>3. S \in SUBSET Hdrs /\ HTTP_STATUS \in S /\ "found" \in Statuses
  BY DEF Hdrs, NUM_FILE_HDR_STRINGS, HTTP_STATUS, CONTENT_LEN_KEEPALIVE, Statuses
<1> HIDE DEF w, S, none, k
<1>4. /\ k \in HState /\ SameFile(w.h, k) /\ k.status = "found" /\ k.hdr_index = 0
      /\ k.hdr_pos = 0 /\ Header(k) /\ ~Fresh(k)
  BY <1>2, <1>3, FirstHeaderFields DEF k
<1>5. /\ k.block = w.h.block /\ k.post_content_len_left = w.h.post_content_len_left
      /\ k.post_response_buf = w.h.post_response_buf
      /\ (k.file = NULL => k.off = 0 /\ k.left = 0 /\ ~k.handle)
      /\ k.off = 0
  BY <1>2, <1>4 DEF SameFile, Source
<1>6. Due(k) = Rem(k)
  BY <1>4, <1>5, DueIs
<1> QED BY <1>1, <1>4, <1>5, <1>6, Answering DEF w

FileOf(h, b, f, z, n) ==
    [h EXCEPT !.handle = b, !.file = f, !.off = z, !.left = n, !.retries = z]

LEMMA FileFields ==
    ASSUME NEW h \in HState, NEW b \in BOOLEAN, NEW f \in Ptr \cup {ROM}, NEW z \in Nat, NEW n \in Nat,
           NEW k, k = FileOf(h, b, f, z, n)
    PROVE  /\ k \in HState /\ k.block = h.block /\ k.handle = b /\ k.file = f /\ k.off = z /\ k.left = n
           /\ k.hdrs = h.hdrs /\ k.hdr_index = h.hdr_index /\ k.hdr_pos = h.hdr_pos
           /\ k.post_content_len_left = h.post_content_len_left
           /\ k.post_response_buf = h.post_response_buf
BY DEF HState, FileOf

LEMMA GetStep == ASSUME HttpdInv, NEW c \in Conns, RecvGet(c) PROVE HttpdInv'
<1> DEFINE w == Parsing(c)
<1>1. PICK kind \in fs_open : MayParse(c, "get") /\ Send(c, http_init_file(w, kind), tcp[c])
  BY DEF RecvGet
<1> DEFINE some == kind # "none"
           f == IF kind = "none" THEN NULL ELSE ROM
           n == IF kind = "none" THEN 0 ELSE BodyLen
           h == FileOf(w.h, some, f, 0, n)
           k == IF kind = "included" THEN h ELSE get_http_headers(h, kind = "plain")
<1>2. /\ w \in Work /\ w.h \in HState /\ Header(w.h) /\ Source(w.h) /\ w.h.file = NULL
      /\ (~w.g.again => Fresh(w.h))
  BY <1>1, ParsingIs, WorkFields DEF Ready, Local
<1> HIDE DEF w
<1>3. http_init_file(w, kind) = Respond(w, k)
  BY DEF http_init_file, FileOf
<1>4. /\ some \in BOOLEAN /\ f \in Ptr \cup {ROM} /\ n \in Nat /\ 0 \in Nat /\ (f = NULL => n = 0 /\ ~some)
  BY Constants DEF Ptr
<1>11. kind \in {"included", "plain", "none"}
  BY <1>1 DEF fs_open
<1>12. h = FileOf(w.h, some, f, 0, n)
  OBVIOUS
<1> HIDE DEF some, f, n, h
<1>5. /\ h \in HState /\ h.block = w.h.block /\ h.handle = some /\ h.file = f /\ h.off = 0 /\ h.left = n
      /\ h.hdrs = w.h.hdrs /\ h.hdr_index = w.h.hdr_index /\ h.hdr_pos = w.h.hdr_pos
      /\ h.post_content_len_left = w.h.post_content_len_left
      /\ h.post_response_buf = w.h.post_response_buf
  BY <1>2, <1>4, <1>12, FileFields
<1>6. /\ k \in HState /\ k.block = w.h.block /\ k.post_content_len_left = w.h.post_content_len_left
      /\ k.post_response_buf = w.h.post_response_buf /\ Header(k)
      /\ (k.file = NULL => k.off = 0 /\ k.left = 0 /\ ~k.handle)
      /\ (~w.g.again => Due(k) = Rem(k))
  <2>1. CASE kind = "included"
    <3>1. k = h
      BY <2>1
    <3> HIDE DEF k
    <3>2. Header(h)
      BY <1>2, <1>5 DEF Header
    <3>3. ASSUME ~w.g.again PROVE Due(h) = Rem(h)
      <4>1. h.hdr_index = NUM_FILE_HDR_STRINGS
        BY <1>2, <1>5, <3>3 DEF Fresh
      <4> QED BY <1>5, <4>1, DueIs
    <3> QED BY <1>4, <1>5, <3>1, <3>2, <3>3
  <2>2. CASE kind # "included"
    <3> DEFINE s == IF kind = "plain" THEN "ok" ELSE "not_found"
               S == {HTTP_STATUS, SERVER_NAME, IF kind = "plain" THEN CONTENT_TYPE ELSE CUSTOM_CONTENT}
               U == {CONTENT_LEN_KEEPALIVE, CONTENT_LEN_NR}
    <3>1. k = FirstHeader(h, s, S, U)
      BY <2>2 DEF get_http_headers
    <3>2. s \in Statuses /\ S \in SUBSET Hdrs /\ HTTP_STATUS \in S
      BY DEF Hdrs, NUM_FILE_HDR_STRINGS, HTTP_STATUS, SERVER_NAME, CONTENT_TYPE, CUSTOM_CONTENT, Statuses
    <3> HIDE DEF k, s, S, U
    <3>3. /\ k \in HState /\ SameFile(h, k) /\ k.hdr_index = 0 /\ k.hdr_pos = 0 /\ Header(k)
      BY <1>5, <3>1, <3>2, FirstHeaderFields
    <3>4. Due(k) = Rem(k)
      BY <1>5, <3>3, DueIs DEF SameFile
    <3> QED BY <1>4, <1>5, <3>3, <3>4 DEF SameFile
  <2> QED BY <2>1, <2>2
<1> HIDE DEF k
<1> QED BY <1>1, <1>3, <1>6, Answering DEF w

-----------------------------------------------------------------------------
(* The body of a POST. *)

LeftIs(h, n) == [h EXCEPT !.post_content_len_left = n]
ContentIs(h, s) == [h EXCEPT !.content = s]
Taking(w, h, n, b) == [w EXCEPT !.h = h, !.g.posted = n, !.g.odd = b]

(* Everything but the content and how much of it is left. *)
SameElse(h, k) ==
    /\ k.block = h.block /\ k.handle = h.handle /\ k.file = h.file /\ k.off = h.off
    /\ k.left = h.left /\ k.status = h.status /\ k.hdrs = h.hdrs /\ k.hdr_index = h.hdr_index
    /\ k.hdr_pos = h.hdr_pos /\ k.post_content = h.post_content
    /\ k.post_response_buf = h.post_response_buf

LEMMA LeftIsFields ==
    ASSUME NEW h \in HState, NEW n \in Nat, NEW k, k = LeftIs(h, n)
    PROVE  k \in HState /\ SameElse(h, k) /\ k.content = h.content /\ k.post_content_len_left = n
BY DEF HState, LeftIs, SameElse

LEMMA ContentIsFields ==
    ASSUME NEW h \in HState, NEW s \in Seq(Nat), NEW k, k = ContentIs(h, s)
    PROVE  /\ k \in HState /\ SameElse(h, k) /\ k.content = s
           /\ k.post_content_len_left = h.post_content_len_left
BY DEF HState, ContentIs, SameElse

LEMMA TakingFields ==
    ASSUME NEW w \in Work, NEW h \in HState, NEW n \in Nat, NEW b \in BOOLEAN,
           NEW r, r = Taking(w, h, n, b)
    PROVE  /\ r \in Work /\ r.h = h /\ r.heap = w.heap /\ r.cur = w.cur /\ r.lost = w.lost
           /\ r.post = w.post
           /\ r.g.out = w.g.out /\ r.g.due = w.g.due /\ r.g.overlap = w.g.overlap /\ r.g.odd = b
           /\ r.g.again = w.g.again /\ r.g.twice = w.g.twice /\ r.g.posted = n
           /\ r.g.handled = w.g.handled
BY DEF Work, Hist, Taking

(* The content s after n bytes of the body, from at on, were put at o. *)
Spread(s, o, n, first, at) ==
    [i \in DOMAIN s |-> IF i \notin o + 1..o + n THEN s[i]
                        ELSE IF i - o <= first THEN at + i - o ELSE 0]

(* n more bytes at their place in a body of len bytes, of which at came    *)
(* before and left did not come yet.                                       *)
InPlace(w, k, n, first) ==
    ~w.g.odd /\ ~(first < n) /\ ~(w.g.posted + n > Len(w.h.content)) =>
        /\ w.g.posted + n + k.post_content_len_left = Len(k.content)
        /\ \A i \in 1..Len(k.content) : k.content[i] = IF i <= w.g.posted + n THEN i ELSE 0

LEMMA Arrived ==
    ASSUME NEW w \in Work, NEW n \in Nat, NEW first \in Nat, Placed(w.h, w.g),
           NEW h, h = LeftIs(w.h, ContentLeft(w.h.post_content_len_left, n)),
           NEW k, k = httpd_post_receive_data(w, h, n, first)
    PROVE  /\ k \in HState /\ SameElse(w.h, k)
           /\ k.post_content_len_left > 0 => w.h.post_content_len_left > 0
           /\ InPlace(w, k, n, first)
<1> DEFINE left == w.h.post_content_len_left
           l == ContentLeft(left, n)
           s == w.h.content
           len == Len(s)
           at == w.g.posted
           offset == len - l - n
           byte(i) == IF i \notin offset + 1..offset + n THEN s[i]
                      ELSE IF i - offset <= first THEN at + i - offset ELSE 0
           new == [i \in DOMAIN s |-> byte(i)]
<1>1. w.h \in HState /\ left \in Nat /\ s \in Seq(Nat) /\ at \in Nat
  BY WorkFields, Fields, HistFields
<1>2. len \in Nat /\ DOMAIN s = 1..len /\ \A i \in 1..len : s[i] \in Nat
  BY <1>1, LenProperties, ElementOfSeq
<1>3. l \in Nat /\ (l > 0 => left > 0)
  BY <1>1 DEF ContentLeft
<1>4. h \in HState /\ SameElse(w.h, h) /\ h.content = s /\ h.post_content_len_left = l
  <2> HIDE DEF l
  <2>1. h = LeftIs(w.h, l)
    BY DEF l
  <2> QED BY <1>1, <1>3, <2>1, LeftIsFields
<1>5. \A i \in 1..len : byte(i) \in Nat
  <2> SUFFICES ASSUME NEW i \in 1..len PROVE byte(i) \in Nat
    OBVIOUS
  <2>1. offset \in Int /\ s[i] \in Nat
    BY <1>1, <1>2, <1>3
  <2> HIDE DEF offset
  <2>2. CASE i \notin offset + 1..offset + n
    BY <2>1, <2>2
  <2>3. CASE i \in offset + 1..offset + n
    <3>1. at + i - offset \in Nat
      BY <1>1, <2>1, <2>3
    <3> QED BY <2>3, <3>1
  <2> QED BY <2>2, <2>3
<1>6. new \in Seq(Nat) /\ Len(new) = len /\ \A i \in 1..len : new[i] = byte(i)
  <2> HIDE DEF byte
  <2> QED BY <1>2, <1>5
<1>7. k = IF offset < 0 \/ offset + n > len THEN LeftIs(h, 0) ELSE ContentIs(h, new)
  <2> DEFINE o == PostOffset(h, h.post_content_len_left, n)
  <2>1. k = IF o < 0 \/ o + n > Len(h.content) THEN LeftIs(h, 0)
            ELSE ContentIs(h, Spread(h.content, o, n, first, at))
    BY <1>4 DEF httpd_post_receive_data, LeftIs, ContentIs, Spread, HState
  <2>2. o = offset /\ h.content = s
    BY <1>4 DEF PostOffset
  <2>3. Spread(s, offset, n, first, at) = new
    BY DEF Spread
  <2> HIDE DEF o, offset, new, at, s
  <2> QED BY <2>1, <2>2, <2>3
<1> HIDE DEF new
<1>8. CASE offset < 0 \/ offset + n > len
  <2>1. k = LeftIs(h, 0) /\ 0 \in Nat
    BY <1>7, <1>8
  <2>2. k \in HState /\ SameElse(h, k) /\ k.post_content_len_left = 0
    BY <1>4, <2>1, LeftIsFields
  <2>3. ~(~w.g.odd /\ ~(first < n) /\ ~(at + n > len))
    <3> SUFFICES ASSUME ~w.g.odd, ~(at + n > len) PROVE FALSE
      OBVIOUS
    <3>1. at + left = len
      BY DEF Placed
    <3>2. at + n <= len
      BY <1>1, <1>2
    <3>3. len - l - n = at
      <4> HIDE DEF at, len, left
      <4>1. len \in Nat /\ at \in Nat /\ left \in Nat
        BY <1>1, <1>2
      <4>2. at + left = len
        BY <3>1
      <4>3. len - ContentLeft(left, n) - n = at /\ at + n + ContentLeft(left, n) = len
        BY <3>2, <4>1, <4>2 DEF ContentLeft
      <4> QED BY <4>3
    <3> HIDE DEF at, len, left, l
    <3> QED BY <1>1, <1>2, <1>8, <3>2, <3>3
  <2>4. InPlace(w, k, n, first)
    BY <2>3 DEF InPlace
  <2> QED BY <1>4, <2>2, <2>4 DEF SameElse
<1>9. CASE ~(offset < 0 \/ offset + n > len)
  <2>1. k = ContentIs(h, new)
    BY <1>7, <1>9
  <2>2. k \in HState /\ SameElse(h, k) /\ k.post_content_len_left = l /\ k.content = new
    BY <1>4, <1>6, <2>1, ContentIsFields
  <2>3. ASSUME ~w.g.odd, ~(first < n), ~(at + n > len)
        PROVE  /\ at + n + l = len
               /\ \A i \in 1..len : new[i] = IF i <= at + n THEN i ELSE 0
    <3>1. at + left = len /\ \A i \in 1..len : s[i] = IF i <= at THEN i ELSE 0
      BY <2>3 DEF Placed
    <3>2. at + n <= len
      BY <1>1, <1>2, <2>3
    <3>3. offset = at /\ at + n + l = len
      <4> HIDE DEF at, len, left
      <4>1. len \in Nat /\ at \in Nat /\ left \in Nat
        BY <1>1, <1>2
      <4>2. at + left = len
        BY <3>1
      <4>3. len - ContentLeft(left, n) - n = at /\ at + n + ContentLeft(left, n) = len
        BY <3>2, <4>1, <4>2 DEF ContentLeft
      <4> QED BY <4>3
    <3>4. ASSUME NEW i \in 1..len PROVE new[i] = IF i <= at + n THEN i ELSE 0
      <4>1. new[i] = IF i \notin at + 1..at + n THEN s[i]
                     ELSE IF i - at <= first THEN at + i - at ELSE 0
        BY <1>6, <3>3
      <4>2. s[i] = IF i <= at THEN i ELSE 0
        BY <3>1
      <4> HIDE DEF at, len, offset, byte
      <4> QED BY <1>1, <1>2, <2>3, <4>1, <4>2
    <3> QED BY <3>3, <3>4
  <2>4. SameElse(w.h, k)
    BY <1>4, <2>2 DEF SameElse
  <2>5. k.post_content_len_left > 0 => left > 0
    BY <1>3, <2>2
  <2>6. Len(k.content) = len
    BY <1>6, <2>2
  <2> HIDE DEF left, l, s, len, at
  <2>7. ASSUME ~w.g.odd, ~(first < n), ~(at + n > len)
        PROVE  /\ at + n + k.post_content_len_left = Len(k.content)
               /\ \A i \in 1..Len(k.content) : k.content[i] = IF i <= at + n THEN i ELSE 0
    BY <2>2, <2>3, <2>6, <2>7
  <2>8. InPlace(w, k, n, first)
    BY <2>7 DEF InPlace, s, len, at
  <2> QED BY <2>2, <2>4, <2>5, <2>8 DEF left
<1> QED BY <1>8, <1>9

(* http_post_rxpbuf up to the end of the body. *)
LEMMA BodyTaken ==
    ASSUME NEW c, NEW w, Posted(c, w), NEW n \in Nat, NEW first \in Nat,
           NEW h, h = LeftIs(w.h, ContentLeft(w.h.post_content_len_left, n)),
           NEW k, k = httpd_post_receive_data(w, h, n, first),
           NEW b \in BOOLEAN, b <=> (w.g.odd \/ first < n \/ w.g.posted + n > Len(w.h.content)),
           NEW p, p = w.g.posted + n, NEW t, t = Taking(w, k, p, b)
    PROVE  Posted(c, t) /\ t.g.again = w.g.again
<1>1. w \in Work /\ Placed(w.h, w.g) /\ w.g.posted \in Nat
  BY WorkFields, HistFields DEF Posted
<1>2. /\ k \in HState /\ SameElse(w.h, k)
      /\ k.post_content_len_left > 0 => w.h.post_content_len_left > 0
      /\ InPlace(w, k, n, first)
  BY <1>1, Arrived
<1>3. p \in Nat
  BY <1>1
<1>4. /\ t \in Work /\ t.h = k /\ t.heap = w.heap /\ t.cur = w.cur /\ t.lost = w.lost
      /\ t.post = w.post
      /\ t.g.out = w.g.out /\ t.g.due = w.g.due /\ t.g.overlap = w.g.overlap /\ t.g.odd = b
      /\ t.g.again = w.g.again /\ t.g.twice = w.g.twice /\ t.g.posted = p
      /\ t.g.handled = w.g.handled
  <2>1. k \in HState
    BY <1>2
  <2> QED BY <1>1, <1>3, <2>1, TakingFields
<1>5. Placed(t.h, t.g)
  <2> SUFFICES ASSUME ~t.g.odd
               PROVE  /\ t.g.posted + t.h.post_content_len_left = Len(t.h.content)
                      /\ \A i \in 1..Len(t.h.content) :
                            t.h.content[i] = IF i <= t.g.posted THEN i ELSE 0
    BY DEF Placed
  <2>1. ~b
    BY <1>4
  <2>2. /\ w.g.posted + n + k.post_content_len_left = Len(k.content)
        /\ \A i \in 1..Len(k.content) : k.content[i] = IF i <= w.g.posted + n THEN i ELSE 0
    BY <1>2, <2>1 DEF InPlace
  <2>3. t.h = k /\ t.g.posted = w.g.posted + n
    BY <1>4
  <2> QED BY <2>2, <2>3, Zenon
<1>6. Header(k) /\ Rem(k) = Rem(w.h) /\ (Fresh(k) <=> Fresh(w.h))
  BY <1>2, SameRem DEF SameElse, Posted, Fresh
<1>7. Answered(t.h, t.g)
  <2>1. b \/ ~w.g.odd
    BY <1>1
  <2> QED BY <1>2, <1>4, <2>1 DEF Posted, Answered, SameElse
<1>8. /\ k.block = w.h.block /\ k.file = w.h.file /\ k.off = w.h.off /\ k.left = w.h.left
      /\ k.handle = w.h.handle /\ k.post_response_buf = w.h.post_response_buf
      /\ k.post_content = w.h.post_content
  BY <1>2 DEF SameElse
<1>9. ~t.g.again => Fresh(t.h) /\ t.g.out = <<>> /\ Sending(t.g.out, Rem(t.h), t.g.due)
  BY <1>4, <1>6 DEF Posted
<1>10. t.h.post_content_len_left > 0 => t.h.post_content # NULL
  BY <1>2, <1>4, <1>8 DEF Posted
<1>11. /\ Header(t.h) /\ t.h.block \in Blocks /\ t.h.file = NULL /\ t.h.off = 0 /\ t.h.left = 0
       /\ ~t.h.handle /\ t.h.post_response_buf = NULL
  BY <1>4, <1>6, <1>8 DEF Posted
<1>12. /\ (t.post /\ t.cur \in {c, NULL}) \/ (~t.post /\ t.cur = current_connection)
       /\ t.g.overlap <=> t.cur # c
       /\ Cardinality(Blocks \ t.heap) >= Others(c) + 1
       /\ gh[c].twice => t.g.twice
  <2>1. (w.post /\ w.cur \in {c, NULL}) \/ (~w.post /\ w.cur = current_connection)
    BY DEF Posted
  <2>2. w.g.overlap <=> w.cur # c
    BY DEF Posted
  <2>3. Cardinality(Blocks \ w.heap) >= Others(c) + 1 /\ (gh[c].twice => w.g.twice)
    BY DEF Posted
  <2> QED BY <1>4, <2>1, <2>2, <2>3
<1>13. ~t.g.twice /\ CalmBut(c) =>
          /\ Holds(c, t.heap, t.lost, {t.h.block} \cup ({t.h.post_content} \ {NULL}))
          /\ t.h.post_content # t.h.block
  <2>1. ~w.g.twice /\ CalmBut(c) =>
           /\ Holds(c, w.heap, w.lost, {w.h.block} \cup ({w.h.post_content} \ {NULL}))
           /\ w.h.post_content # w.h.block
    BY DEF Posted
  <2>2. t.h.block = w.h.block /\ t.h.post_content = w.h.post_content
    BY <1>4, <1>8
  <2>3. t.heap = w.heap /\ t.lost = w.lost /\ t.g.twice = w.g.twice
    BY <1>4
  <2> QED BY <2>1, <2>2, <2>3
<1>14. t \in Work /\ t.g.again = w.g.again
  BY <1>4
<1> QED BY <1>5, <1>7, <1>9, <1>10, <1>11, <1>12, <1>13, <1>14 DEF Posted

LEMMA PbufTaken ==
    ASSUME NEW c \in Conns, NEW w, Posted(c, w), NEW n \in Nat, NEW first \in Nat,
           NEW r, r = http_post_rxpbuf(c, w, n, first)
    PROVE  Ready(c, r) /\ r.g.again = w.g.again
<1> DEFINE h == LeftIs(w.h, ContentLeft(w.h.post_content_len_left, n))
           k == httpd_post_receive_data(w, h, n, first)
           b == w.g.odd \/ first < n \/ w.g.posted + n > Len(w.h.content)
           p == w.g.posted + n
           t == Taking(w, k, p, b)
<1>1. w \in Work /\ w.h \in HState
  BY WorkFields DEF Posted
<1>2. h.content = w.h.content
  BY <1>1 DEF LeftIs, HState
<1>3. r = IF t.h.post_content_len_left = 0 THEN http_handle_post_finished(c, t) ELSE t
  <2>1. h = [w.h EXCEPT !.post_content_len_left = ContentLeft(@, n)]
    BY <1>1 DEF LeftIs, HState
  <2> HIDE DEF h, k
  <2>2. t = [w EXCEPT !.h = k, !.g.posted = @ + n,
                      !.g.odd = @ \/ first < n \/ w.g.posted + n > Len(h.content)]
    BY <1>1, <1>2 DEF Taking, Work, Hist
  <2> HIDE DEF t
  <2> QED BY <2>1, <2>2 DEF http_post_rxpbuf, h, k
<1>4. /\ b \in BOOLEAN /\ (b <=> (w.g.odd \/ first < n \/ w.g.posted + n > Len(w.h.content)))
      /\ h = LeftIs(w.h, ContentLeft(w.h.post_content_len_left, n))
      /\ k = httpd_post_receive_data(w, h, n, first)
      /\ p = w.g.posted + n /\ t = Taking(w, k, p, b)
  BY <1>1, WorkFields, HistFields
<1> HIDE DEF h, k, b, p, t
<1>5. Posted(c, t) /\ t.g.again = w.g.again
  BY <1>4, BodyTaken
<1>6. CASE t.h.post_content_len_left = 0
  <2> DEFINE f == [t EXCEPT !.heap = @ \ {t.h.file}]
  <2>1. t \in Work /\ t.heap \in SUBSET Blocks /\ t.h.file = NULL /\ NULL \notin Blocks
    BY <1>5, WorkFields, Constants DEF Posted
  <2>2. t.heap \ {t.h.file} = t.heap
    BY <2>1
  <2>3. f = t
    BY <2>1, <2>2 DEF Work
  <2>4. r = httpd_post_finished(c, t)
    BY <1>3, <1>6, <2>3 DEF http_handle_post_finished
  <2> HIDE DEF f
  <2>5. Over(c, r) /\ r.g.again = t.g.again /\ r.h.post_content_len_left = t.h.post_content_len_left
    BY <1>5, <2>4, PostFinished
  <2> QED BY <1>5, <1>6, <2>5, AllPosted
<1>7. CASE t.h.post_content_len_left # 0
  <2>1. r = t
    BY <1>3, <1>7
  <2>2. t.h.post_content_len_left > 0
    <3>1. t.h.post_content_len_left \in Nat
      BY <1>5, WorkFields, Fields DEF Posted
    <3> QED BY <1>7, <3>1
  <2> QED BY <1>5, <2>1, <2>2, StillPosted
<1> QED BY <1>6, <1>7

LEMMA FirstIs ==
    ASSUME NEW c, NEW n \in Nat, NEW first \in FirstPbuf(c, n)
    PROVE  first \in Nat
<1>1. {1, n} \in SUBSET Nat /\ {1, n} # {}
  OBVIOUS
<1>2. Min({1, n}) \in {1, n}
  BY <1>1, Least, Zenon
<1> QED BY <1>2 DEF FirstPbuf

LEMMA RecvPostStep == ASSUME HttpdInv, NEW c \in Conns, http_recv_post(c) PROVE HttpdInv'
<1> DEFINE u == Received(c)
           v == [u EXCEPT !.h.retries = 0]
<1>1. conn[c] = "open" /\ hs[c].post_content_len_left > 0
  BY DEF http_recv_post, Receiving
<1>2. /\ Now(c).h = hs[c] /\ Now(c).g = gh[c] /\ hs[c] \in HState /\ Queue(tcp[c])
      /\ Fresh(hs[c]) /\ ~gh[c].again => tcp[c] = <<>>
      /\ Ready(c, Now(c))
  BY <1>1, NowIs
<1>3. PICK n \in 1..Len(hs[c].content) : \E first \in FirstPbuf(c, n) :
         LET w == http_post_rxpbuf(c, v, n, first)
         IN  IF w.h.post_content_len_left = 0 THEN Send(c, w, tcp[c]) ELSE Keep(c, w, tcp[c])
  BY DEF http_recv_post
<1>4. n \in Nat
  <2>1. hs[c].content \in Seq(Nat)
    BY <1>2, Fields
  <2>2. Len(hs[c].content) \in Nat
    BY <2>1, LenProperties
  <2> QED BY <2>2
<1>5. PICK first \in FirstPbuf(c, n) :
         LET w == http_post_rxpbuf(c, v, n, first)
         IN  IF w.h.post_content_len_left = 0 THEN Send(c, w, tcp[c]) ELSE Keep(c, w, tcp[c])
  BY <1>3
<1> DEFINE w == http_post_rxpbuf(c, v, n, first)
<1>6. IF w.h.post_content_len_left = 0 THEN Send(c, w, tcp[c]) ELSE Keep(c, w, tcp[c])
  BY <1>5
<1>7. u \in Work /\ Like(Now(c), u) /\ Ready(c, u) /\ u.g.again = gh[c].again
  BY <1>1, ReceivedIs
<1> HIDE DEF u
<1>8. v = Retried(u, 0) /\ 0 \in Nat
  BY DEF Retried
<1> HIDE DEF v
<1>9. Like(u, v) /\ v.h.post_content_len_left = u.h.post_content_len_left /\ v.g = u.g
  BY <1>7, <1>8, RetriedLike
<1>10. Ready(c, v) /\ v.h.post_content_len_left > 0
  BY <1>1, <1>2, <1>7, <1>9, LikeReady, LikeFields
<1>11. Posted(c, v) /\ first \in Nat
  BY <1>4, <1>5, <1>10, UnderWay, FirstIs
<1> HIDE DEF w
<1>12. Ready(c, w) /\ w.g.again = gh[c].again
  BY <1>4, <1>7, <1>9, <1>11, PbufTaken DEF w
<1>13. ~gh[c].again => tcp[c] = <<>>
  BY <1>1, <1>2 DEF Ready, Local, Response
<1>14. CASE w.h.post_content_len_left = 0
  BY <1>1, <1>2, <1>6, <1>12, <1>14, SendStep
<1>15. CASE w.h.post_content_len_left # 0
  BY <1>1, <1>2, <1>6, <1>12, <1>13, <1>15, KeepStep
<1> QED BY <1>14, <1>15

PostOf(h, u, s, t, n) ==
    [h EXCEPT !.post_uri = u, !.content = s, !.post_content = t, !.post_content_len_left = n]

LEMMA PostOfFields ==
    ASSUME NEW h \in HState, NEW u \in BOOLEAN, NEW s \in Seq(Nat), NEW t \in Ptr, NEW n \in Nat,
           NEW k, k = PostOf(h, u, s, t, n)
    PROVE  /\ k \in HState /\ k.content = s /\ k.post_content = t /\ k.post_content_len_left = n
           /\ k.block = h.block /\ k.handle = h.handle /\ k.file = h.file /\ k.off = h.off
           /\ k.left = h.left /\ k.status = h.status /\ k.hdrs = h.hdrs /\ k.hdr_index = h.hdr_index
           /\ k.hdr_pos = h.hdr_pos /\ k.post_response_buf = h.post_response_buf
BY DEF HState, PostOf

NewPost(g, x, n) ==
    [g EXCEPT !.twice = x, !.posted = n, !.odd = FALSE, !.overlap = FALSE, !.handled = "no"]

LEMMA NewPostFields ==
    ASSUME NEW g \in Hist, NEW x \in BOOLEAN, NEW n \in Nat, NEW e, e = NewPost(g, x, n)
    PROVE  /\ e \in Hist /\ e.out = g.out /\ e.due = g.due /\ ~e.overlap /\ ~e.odd
           /\ e.again = g.again /\ e.twice = x /\ e.posted = n /\ e.handled = "no"
BY DEF Hist, NewPost

Beginning(w, c, b, m, h, g) ==
    [w EXCEPT !.cur = c, !.post = b, !.heap = m, !.h = h, !.g = g]

LEMMA BeginningFields ==
    ASSUME NEW w \in Work, NEW c \in Conns, NEW b \in BOOLEAN, NEW m \in SUBSET Blocks,
           NEW h \in HState, NEW g \in Hist, NEW r, r = Beginning(w, c, b, m, h, g)
    PROVE  r \in Work /\ r.h = h /\ r.heap = m /\ r.cur = c /\ r.lost = w.lost /\ r.post = b /\ r.g = g
BY DEF Work, Beginning

(* httpd_post_begin. *)
LEMMA Begun ==
    ASSUME HttpdInv, NEW c \in Conns, NEW kind, MayParse(c, kind), MemoryLeft, NEW len \in Nat,
           NEW uri \in BOOLEAN, NEW w, w = Parsing(c), NEW r, r = httpd_post_begin(c, w, len, uri)
    PROVE  Posted(c, r) /\ r.g.again = w.g.again /\ r.h.post_content_len_left = len
<1> DEFINE b == NewBlock(w.heap)
           m == IF len > 0 THEN w.heap \cup {b} ELSE w.heap
           t == IF len > 0 THEN b ELSE w.h.post_content
           s == [i \in 1..len |-> 0]
           x == w.g.twice \/ (len = 0 /\ w.h.post_content # NULL)
           h == PostOf(w.h, uri, s, t, len)
           yes == TRUE
           e == NewPost(w.g, x, 0)
<1>1. /\ conn[c] = "open" /\ w \in Work /\ Ready(c, w) /\ w.heap = heap
      /\ w.h.post_content_len_left = 0 /\ w.h.file = NULL /\ ~w.h.handle
      /\ (~w.g.again => Fresh(w.h))
  BY ParsingIs
<1>2. /\ w.h \in HState /\ w.g \in Hist /\ w.heap \in SUBSET Blocks /\ w.h.post_content \in Ptr
      /\ w.g.twice \in BOOLEAN
  BY <1>1, WorkFields, Fields, HistFields
<1>3. /\ Local(w.h, w.g) /\ w.h.block \in Blocks /\ Sound(c, w)
      /\ w.h.off = 0 /\ w.h.left = 0 /\ w.h.post_response_buf = NULL
  BY <1>1 DEF Ready, Sound, Local, Source
<1>4. /\ b \in Blocks \ w.heap /\ Cardinality(Blocks \ m) >= Others(c) + 1
  <2>1. c \notin Posting
    <3>1. hs[c].post_content_len_left = 0
      BY DEF MayParse
    <3> QED BY <3>1 DEF Posting
  <2>2. Posting \ {c} = Posting
    BY <2>1
  <2>3. Cardinality(Blocks \ w.heap) >= Others(c) + 2 /\ Others(c) \in Nat
        /\ Cardinality(Blocks \ w.heap) \in Nat
    BY <1>1, <1>2, <2>2, OthersNat, Free DEF MemoryLeft, Others
  <2>4. Cardinality(Blocks \ w.heap) >= 1
    BY <2>3
  <2>5. b \in Blocks \ w.heap /\ Cardinality(Blocks \ (w.heap \cup {b})) = Cardinality(Blocks \ w.heap) - 1
    BY <1>2, <2>4, NewIs
  <2>6. CASE len > 0
    <3>1. m = w.heap \cup {b}
      BY <2>6
    <3> HIDE DEF m, b
    <3> QED BY <2>3, <2>5, <3>1
  <2>7. CASE ~(len > 0)
    <3>1. m = w.heap
      BY <2>7
    <3> HIDE DEF m, b
    <3> QED BY <2>3, <2>5, <3>1
  <2> QED BY <2>6, <2>7
<1>5. /\ m \in SUBSET Blocks /\ t \in Ptr /\ s \in Seq(Nat) /\ Len(s) = len /\ x \in BOOLEAN
      /\ yes \in BOOLEAN /\ 0 \in Nat
  BY <1>2, <1>4 DEF Ptr
<1>6. r = Beginning(w, c, yes, m, h, e)
  <2>1. h = [w.h EXCEPT !.post_uri = uri, !.content = [i \in 1..len |-> 0],
                        !.post_content = IF len > 0 THEN b ELSE @,
                        !.post_content_len_left = len]
    BY <1>2 DEF PostOf, HState
  <2>2. e = [w.g EXCEPT !.twice = @ \/ (len = 0 /\ w.h.post_content # NULL),
                        !.posted = 0, !.odd = FALSE, !.overlap = FALSE, !.handled = "no"]
    BY <1>2 DEF NewPost, Hist
  <2> HIDE DEF h, e
  <2> QED BY <1>1, <2>1, <2>2 DEF httpd_post_begin, Beginning, Work
<1>7. /\ len > 0 => t = b /\ m = w.heap \cup {b}
      /\ len = 0 => t = w.h.post_content /\ m = w.heap
      /\ len = 0 /\ ~x => w.h.post_content = NULL
      /\ w.g.twice => x
      /\ yes
  <2> HIDE DEF s, h, e, b
  <2> QED OBVIOUS
<1>8. \A i \in 1..len : s[i] = 0
  <2> HIDE DEF b, m, t, x, h, e, yes
  <2> QED OBVIOUS
<1>9. h = PostOf(w.h, uri, s, t, len)
  OBVIOUS
<1>21. e = NewPost(w.g, x, 0)
  OBVIOUS
<1> HIDE DEF b, m, t, s, x, h, e, yes
<1>10. /\ h \in HState /\ h.content = s /\ h.post_content = t /\ h.post_content_len_left = len
       /\ h.block = w.h.block /\ h.handle = w.h.handle /\ h.file = w.h.file /\ h.off = w.h.off
       /\ h.left = w.h.left /\ h.status = w.h.status /\ h.hdrs = w.h.hdrs
       /\ h.hdr_index = w.h.hdr_index
       /\ h.hdr_pos = w.h.hdr_pos /\ h.post_response_buf = w.h.post_response_buf
  <2>1. w.h \in HState /\ uri \in BOOLEAN /\ s \in Seq(Nat) /\ t \in Ptr /\ len \in Nat
    BY <1>2, <1>5
  <2> QED BY <1>9, <2>1, PostOfFields
<1>11. /\ r \in Work /\ r.h = h /\ r.heap = m /\ r.cur = c /\ r.lost = w.lost
       /\ r.post = yes
       /\ r.g.out = w.g.out /\ r.g.due = w.g.due /\ ~r.g.overlap /\ ~r.g.odd
       /\ r.g.again = w.g.again /\ r.g.twice = x /\ r.g.posted = 0
       /\ r.g.handled = "no"
  <2>1. /\ e \in Hist /\ e.out = w.g.out /\ e.due = w.g.due /\ ~e.overlap /\ ~e.odd
        /\ e.again = w.g.again /\ e.twice = x /\ e.posted = 0 /\ e.handled = "no"
    <3>1. w.g \in Hist /\ x \in BOOLEAN /\ 0 \in Nat
      BY <1>2, <1>5
    <3> QED BY <1>21, <3>1, NewPostFields
  <2>2. /\ r \in Work /\ r.h = h /\ r.heap = m /\ r.cur = c /\ r.lost = w.lost /\ r.post = yes
        /\ r.g = e
    <3>1. h \in HState /\ e \in Hist /\ m \in SUBSET Blocks /\ yes \in BOOLEAN /\ w \in Work
      BY <1>1, <1>5, <1>10, <2>1
    <3> QED BY <1>6, <3>1, BeginningFields
  <2> QED BY <2>1, <2>2
<1>12. Header(h) /\ Rem(h) = Rem(w.h) /\ (Fresh(h) <=> Fresh(w.h))
  <2>1. Header(w.h)
    BY <1>3 DEF Local
  <2> QED BY <1>10, <2>1, SameRem DEF Fresh
<1>13. Answered(r.h, r.g)
  BY <1>11 DEF Answered
<1>14. Placed(r.h, r.g)
  <2>1. r.g.posted + r.h.post_content_len_left = Len(r.h.content)
    BY <1>5, <1>10, <1>11
  <2>2. \A i \in 1..Len(r.h.content) : r.h.content[i] = IF i <= r.g.posted THEN i ELSE 0
    BY <1>5, <1>8, <1>10, <1>11
  <2> QED BY <2>1, <2>2 DEF Placed
<1>15. ~r.g.again => Fresh(r.h) /\ r.g.out = <<>> /\ Sending(r.g.out, Rem(r.h), r.g.due)
  <2> SUFFICES ASSUME ~w.g.again
               PROVE  Fresh(h) /\ w.g.out = <<>> /\ Sending(w.g.out, Rem(h), w.g.due)
    BY <1>11
  <2>1. Fresh(w.h) /\ Response(w.h, w.g)
    BY <1>1, <1>3 DEF Local
  <2> QED BY <1>12, <2>1 DEF Response
<1>16. r.h.post_content_len_left > 0 => r.h.post_content # NULL
  BY <1>4, <1>7, <1>10, <1>11, Constants
<1>17. ~r.g.twice /\ CalmBut(c) =>
          /\ Holds(c, r.heap, r.lost, {r.h.block} \cup ({r.h.post_content} \ {NULL}))
          /\ r.h.post_content # r.h.block
  <2> SUFFICES ASSUME ~x, CalmBut(c)
               PROVE  Holds(c, m, w.lost, {w.h.block} \cup ({t} \ {NULL})) /\ t # w.h.block
    BY <1>10, <1>11
  <2>1. ~w.g.twice
    BY <1>7
  <2>2. Owned(w.h) = {w.h.block}
    BY <1>1, <1>3 DEF Owned
  <2>3. Holds(c, w.heap, w.lost, {w.h.block})
    BY <1>3, <2>1, <2>2 DEF Sound
  <2>4. CASE len > 0
    <3>1. t = b /\ m = w.heap \cup {b} /\ b # NULL
      BY <1>4, <1>7, <2>4, Constants
    <3> DEFINE M == w.heap
               L == w.lost
               o == w.h.block
               O == Rest(c)
    <3>2. L \subseteq M /\ M \ L = {o} \cup O /\ {o} \cap O = {} /\ b \notin M
      BY <1>4, <2>3 DEF Holds
    <3> HIDE DEF M, L, o, O
    <3>3. o # b /\ b \notin O /\ b \notin L
      BY <3>2
    <3>4. L \subseteq M \cup {b} /\ (M \cup {b}) \ L = {o, b} \cup O /\ {o, b} \cap O = {}
      BY <3>2, <3>3
    <3>5. {o} \cup ({t} \ {NULL}) = {o, b}
      BY <3>1
    <3>6. Holds(c, M \cup {b}, L, {o, b})
      BY <3>4 DEF Holds, O
    <3> QED BY <3>1, <3>3, <3>5, <3>6 DEF M, L, o
  <2>5. CASE len = 0
    <3>1. t = NULL /\ m = w.heap
      BY <1>7, <2>5
    <3>2. {w.h.block} \cup ({t} \ {NULL}) = {w.h.block} /\ t # w.h.block
      BY <1>3, <3>1, Constants
    <3> QED BY <2>3, <3>1, <3>2
  <2> QED BY <2>4, <2>5
<1>18. /\ Header(r.h) /\ r.h.block \in Blocks /\ r.h.file = NULL /\ r.h.off = 0 /\ r.h.left = 0
       /\ ~r.h.handle /\ r.h.post_response_buf = NULL
  BY <1>1, <1>3, <1>10, <1>11, <1>12
<1>19. /\ r.post /\ r.cur = c /\ (r.g.overlap <=> r.cur # c)
       /\ Cardinality(Blocks \ r.heap) >= Others(c) + 1
  <2>1. r.post /\ ~r.g.overlap
    BY <1>7, <1>11
  <2> QED BY <1>4, <1>11, <2>1
<1>20. gh[c].twice => r.g.twice
  BY <1>3, <1>7, <1>11 DEF Sound
<1>22. Posted(c, r)
  BY <1>11, <1>13, <1>14, <1>15, <1>16, <1>17, <1>18, <1>19, <1>20 DEF Posted
<1>23. r.h.post_content_len_left = len /\ r.g.again = w.g.again
  BY <1>10, <1>11
<1> QED BY <1>22, <1>23

LEMMA PostStep == ASSUME HttpdInv, NEW c \in Conns, RecvPost(c) PROVE HttpdInv'
<1> DEFINE v == Parsing(c)
<1>1. MayParse(c, "post") /\ MemoryLeft
  BY DEF RecvPost
<1>2. PICK len \in ContentLens, known \in {"no_handler" \notin sends[c], TRUE} :
         \E n \in 0..len : \E first \in FirstPbuf(c, n) :
            LET w == http_post_request(c, v, len, known, n, first)
            IN  IF w.h.post_content_len_left = 0 THEN Send(c, w, tcp[c]) ELSE Keep(c, w, tcp[c])
  BY DEF RecvPost
<1>3. PICK n \in 0..len : \E first \in FirstPbuf(c, n) :
         LET w == http_post_request(c, v, len, known, n, first)
         IN  IF w.h.post_content_len_left = 0 THEN Send(c, w, tcp[c]) ELSE Keep(c, w, tcp[c])
  BY <1>2
<1>4. PICK first \in FirstPbuf(c, n) :
         LET w == http_post_request(c, v, len, known, n, first)
         IN  IF w.h.post_content_len_left = 0 THEN Send(c, w, tcp[c]) ELSE Keep(c, w, tcp[c])
  BY <1>3
<1> DEFINE w == http_post_request(c, v, len, known, n, first)
           b == httpd_post_begin(c, v, len, known)
<1>5. IF w.h.post_content_len_left = 0 THEN Send(c, w, tcp[c]) ELSE Keep(c, w, tcp[c])
  BY <1>4
<1>6. len \in Nat /\ n \in Nat /\ known \in BOOLEAN
  <2>1. len \in Nat
    BY <1>2, Constants
  <2>2. n \in Nat
    BY <1>3, <2>1
  <2>3. known \in BOOLEAN
    BY Zenon
  <2> QED BY <2>1, <2>2, <2>3
<1>7. first \in Nat
  BY <1>4, <1>6, FirstIs
<1>8. conn[c] = "open" /\ (~v.g.again => tcp[c] = <<>>)
  BY <1>1, ParsingIs
<1>9. w = IF n = 0 /\ len > 0 THEN b ELSE http_post_rxpbuf(c, b, n, first)
  BY DEF http_post_request
<1> HIDE DEF v, w, b
<1>10. Posted(c, b) /\ b.g.again = v.g.again /\ b.h.post_content_len_left = len
  <2>1. v = Parsing(c) /\ b = httpd_post_begin(c, v, len, known)
    BY Zenon DEF v, b
  <2> QED BY <1>1, <1>6, <2>1, Begun
<1>11. Ready(c, w) /\ w.g.again = v.g.again
  <2>1. CASE n = 0 /\ len > 0
    <3>1. w = b /\ b.h.post_content_len_left > 0
      BY <1>6, <1>9, <1>10, <2>1
    <3>2. Ready(c, b)
      BY <1>10, <3>1, StillPosted
    <3> QED BY <1>10, <3>1, <3>2
  <2>2. CASE ~(n = 0 /\ len > 0)
    <3>1. w = http_post_rxpbuf(c, b, n, first)
      BY <1>9, <2>2
    <3> QED BY <1>6, <1>7, <1>10, <3>1, PbufTaken
  <2> QED BY <2>1, <2>2
<1>12. Queue(tcp[c])
  BY <1>8, NowIs
<1>13. CASE w.h.post_content_len_left = 0
  BY <1>5, <1>8, <1>11, <1>12, <1>13, SendStep
<1>14. CASE w.h.post_content_len_left # 0
  BY <1>5, <1>8, <1>11, <1>12, <1>14, KeepStep
<1> QED BY <1>13, <1>14

-----------------------------------------------------------------------------
LEMMA StepInv == ASSUME HttpdInv, HttpdNext PROVE HttpdInv'
<1> SUFFICES ASSUME NEW c \in Conns,
                    \/ http_accept(c) \/ http_recv_post(c) \/ RecvIncomplete(c) \/ RecvBadRequest(c)
                    \/ RecvOtherHost(c) \/ RecvGet(c) \/ RecvPost(c) \/ RecvClosed(c)
                    \/ http_sent(c) \/ http_poll(c) \/ http_poll_again(c) \/ http_err(c)
                    \/ TcpFinished(c)
             PROVE  HttpdInv'
  BY DEF HttpdNext
<1>1. CASE http_accept(c)
  BY <1>1, AcceptStep
<1>2. CASE http_recv_post(c)
  BY <1>2, RecvPostStep
<1>3. CASE RecvIncomplete(c)
  BY <1>3, IncompleteStep
<1>4. CASE RecvBadRequest(c)
  BY <1>4, BadRequestStep
<1>5. CASE RecvOtherHost(c)
  BY <1>5, OtherHostStep
<1>6. CASE RecvGet(c)
  BY <1>6, GetStep
<1>7. CASE RecvPost(c)
  BY <1>7, PostStep
<1>8. CASE RecvClosed(c)
  BY <1>8, ClosedStep
<1>9. CASE http_sent(c)
  BY <1>9, SentStep
<1>10. CASE http_poll(c)
  BY <1>10, PollStep
<1>11. CASE http_poll_again(c)
  BY <1>11, PollAgainStep
<1>12. CASE http_err(c)
  BY <1>12, ErrStep
<1>13. CASE TcpFinished(c)
  BY <1>13, FinishedStep
<1> QED BY <1>1, <1>2, <1>3, <1>4, <1>5, <1>6, <1>7, <1>8, <1>9, <1>10, <1>11, <1>12, <1>13

LEMMA StutterInv == ASSUME HttpdInv, UNCHANGED httpdVars PROVE HttpdInv'
<1>1. /\ conn' = conn /\ hs' = hs /\ gh' = gh /\ tcp' = tcp /\ heap' = heap /\ lost' = lost
      /\ current_connection' = current_connection /\ nullLeft' = nullLeft
  BY DEF httpdVars
<1>2. Types'
  BY <1>1 DEF HttpdInv, Types
<1>3. ASSUME NEW c \in Conns PROVE Each(c)'
  BY <1>1 DEF HttpdInv, Each
<1>4. Posting' = Posting /\ Opened' = Opened
  BY <1>1 DEF Posting, Opened
<1>5. Current'
  BY <1>1, <1>4 DEF HttpdInv, Current
<1>6. Memory'
  BY <1>1, <1>4 DEF HttpdInv, Memory
<1>7. ASSUME NEW c \in Conns PROVE OwnedBy(c)' = OwnedBy(c)
  BY <1>1, <1>4, Zenon DEF OwnedBy
<1>8. HeapExact => HeapExact'
  BY <1>1, <1>7 DEF HeapExact
<1>9. Ownership'
  BY <1>1, <1>4, <1>8 DEF HttpdInv, Ownership
<1> QED BY <1>2, <1>3, <1>5, <1>6, <1>9 DEF HttpdInv

LEMMA AlwaysInv == HttpdSpec => []HttpdInv
<1>1. HttpdInit => HttpdInv
  BY InitInv
<1>2. HttpdInv /\ [HttpdNext]_httpdVars => HttpdInv'
  BY StepInv, StutterInv
<1> QED BY <1>1, <1>2, PTL DEF HttpdSpec

(* Every block of the heap belongs to exactly one open connection, however *)
(* many connections there are and whatever their clients send and in which *)
(* pieces: all that http_accept and httpd_post_begin take is given back by *)
(* httpd_post_finished and http_state_free, but for the leaks that         *)
(* HeapExact names.                                                        *)
THEOREM HeapAccounted == HttpdSpec => []HeapExact
<1>1. HttpdInv => HeapExact
  <2>1. ASSUME HttpdInv, \A c \in Conns : ~gh[c].twice PROVE HeapExact
    BY <2>1 DEF HttpdInv, Ownership
  <2>2. ASSUME ~ \A c \in Conns : ~gh[c].twice PROVE HeapExact
    BY <2>2 DEF HeapExact
  <2> QED BY <2>1, <2>2
<1> QED BY <1>1, AlwaysInv, PTL

(* A handler gets the body of its POST byte for byte, whatever the sizes   *)
(* of the segments, and the POST is answered with its result unless        *)
(* another POST began or ended in between.                                 *)
THEOREM AnswerIsOwn == HttpdSpec => []OwnAnswer
<1>1. ASSUME HttpdInv PROVE OwnAnswer
  <2> SUFFICES ASSUME NEW c \in Conns
               PROVE  /\ gh[c].handled = "otherwise" => gh[c].odd
                      /\ conn[c] = "open" /\ gh[c].handled # "no" /\ ~gh[c].overlap =>
                            /\ hs[c].status = "ok" /\ hs[c].post_response_buf # NULL
                            /\ (\A d \in Conns : ~gh[d].twice) => hs[c].post_response_buf \in heap
    BY DEF OwnAnswer
  <2>1. Each(c) /\ conn[c] \in {"new", "open", "closing", "closed"}
    BY <1>1 DEF HttpdInv, Types
  <2>2. conn[c] = "open" => Answered(hs[c], gh[c])
    BY <2>1 DEF Each, Local
  <2>3. gh[c].handled = "otherwise" => gh[c].odd
    <3>1. CASE conn[c] = "open"
      BY <2>2, <3>1 DEF Answered
    <3>2. CASE conn[c] # "open"
      BY <2>1, <3>2 DEF Each
    <3> QED BY <3>1, <3>2
  <2>4. ASSUME conn[c] = "open", gh[c].handled # "no", ~gh[c].overlap
        PROVE  /\ hs[c].status = "ok" /\ hs[c].post_response_buf # NULL
               /\ (\A d \in Conns : ~gh[d].twice) => hs[c].post_response_buf \in heap
    <3>1. hs[c].status = "ok" /\ hs[c].post_response_buf # NULL
      BY <2>2, <2>4 DEF Answered
    <3>2. ASSUME \A d \in Conns : ~gh[d].twice PROVE hs[c].post_response_buf \in heap
      <4>1. HeapExact
        BY <1>1, <3>2 DEF HttpdInv, Ownership
      <4>2. heap \ lost = UNION {OwnedBy(d) : d \in {d \in Conns : conn[d] = "open"}}
        BY <3>2, <4>1 DEF HeapExact
      <4>3. hs[c].post_response_buf \in OwnedBy(c)
        BY <3>1 DEF OwnedBy
      <4> QED BY <2>4, <4>2, <4>3
    <3> QED BY <3>1, <3>2
  <2> QED BY <2>3, <2>4
<1> QED BY <1>1, AlwaysInv, PTL

(* A connection that the server ends because it is done has had every unit *)
(* of its response handed to TCP once and in order, however little room    *)
(* the send buffer had each time.                                          *)
THEOREM ResponsesWhole == HttpdSpec => []ResponseComplete
<1>1. HttpdInv => ResponseComplete
  BY DEF HttpdInv, Each, ResponseComplete
<1> QED BY <1>1, AlwaysInv, PTL
=============================================================================
