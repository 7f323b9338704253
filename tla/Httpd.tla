------------------------------- MODULE Httpd -------------------------------
(***************************************************************************)
(* The HTTP server (httpserver/httpd.cpp): one http_state per connection,  *)
(* driven by the callbacks of lwIP, which run one at a time in the         *)
(* tcpip thread.  A callback is one action; what differs between two runs  *)
(* of it (how much tcp_write takes, whether tcp_close succeeds) is chosen  *)
(* with \E.                                                                *)
(*                                                                         *)
(* Bytes of a response are units: a header string has HdrLen of them, a    *)
(* file or a POST answer BodyLen.  Memory is a set of blocks; a unit       *)
(* queued in TCP remembers the block it refers to, ROM if it was copied or *)
(* is constant.                                                            *)
(***************************************************************************)
EXTENDS Integers, Sequences, FiniteSets, FiniteSetsExt

CONSTANTS
    NULL,
    Conns,               \* the connections that clients make
    Blocks,              \* addresses of heap blocks, positive integers
    SndBuf,              \* TCP_SND_BUF in units
    HdrLen,              \* units of the first header string; the others have one
    BodyLen,             \* units of a file and of a POST answer
    ContentLens,         \* Content-Length values of POST requests
    HTTPD_MAX_RETRIES,
    LWIP_HTTPD_REQ_QUEUELEN,
    Requests,            \* what clients may send: for each connection a set of kinds of requests
    MaxRecv              \* bound on the pbufs received on each connection

ASSUME HttpdAssumption ==
    /\ Blocks \subseteq Nat \ {0} /\ ContentLens \subseteq Nat
    /\ IsFiniteSet(Blocks) /\ IsFiniteSet(Conns) /\ NULL \notin Conns \cup Blocks \cup {0}
    /\ {SndBuf, HdrLen, BodyLen, HTTPD_MAX_RETRIES} \subseteq Nat \ {0}
    /\ LWIP_HTTPD_REQ_QUEUELEN \in Nat

VARIABLES
    conn,      \* "new", "open", "closing" (closed, but tcp_close failed), "closed"
    hs,        \* struct http_state of the open connections
    heap,      \* allocated blocks
    current_connection,
    tcp,       \* units TCP has taken and the peer has not acknowledged
    nullLeft,  \* what fs_bytes_left(NULL) reads: fixed by the build, but not by the code
    sends,     \* what they send: one element of Requests
    gh,        \* history of each connection, for the properties
    lost       \* blocks that no pointer leads to any more, for the known reasons

httpdVars == <<conn, hs, heap, current_connection, tcp, nullLeft, sends, gh, lost>>

ROM == 0
NUM_FILE_HDR_STRINGS == 6
Hdrs == 0..NUM_FILE_HDR_STRINGS - 1

HTTP_STATUS == 0
SERVER_NAME == 1
CONTENT_LEN_KEEPALIVE == 2
CONTENT_LEN_NR == 3
CONTENT_TYPE == 4
CUSTOM_CONTENT == 5

(* file is the memory the body is sent from, off the position in it; hdrs  *)
(* the header strings that are not NULL, status what the first one says;   *)
(* post_uri whether a handler has the URI.                                 *)
http_state_init(block) ==
    [block |-> block, handle |-> FALSE, file |-> NULL, off |-> 0, left |-> 0, retries |-> 0,
     req |-> 0, status |-> "none", hdrs |-> {}, hdr_index |-> NUM_FILE_HDR_STRINGS, hdr_pos |-> 0,
     post_uri |-> FALSE, post_content |-> NULL, post_content_len_left |-> 0, content |-> <<>>,
     post_response_buf |-> NULL]

(* out: what was handed to TCP; due: what should be; overlap: another POST *)
(* began or ended during this one; odd: the client sent more or less of    *)
(* the POST body than it announced, or a chain of pbufs came; again: a     *)
(* request came before the last one was answered; twice: a block was       *)
(* deleted again; posted: bytes of the body so far; handled: whether a     *)
(* handler was called, and was given the body the client sent.             *)
NewHistory == [out |-> <<>>, due |-> {}, overlap |-> FALSE, odd |-> FALSE, again |-> FALSE,
               twice |-> FALSE, posted |-> 0, handled |-> "no", recvs |-> 0]

NewBlock(used) == Min(Blocks \ used)
Posting == {c \in Conns : conn[c] = "open" /\ hs[c].post_content_len_left > 0}

HttpdInit ==
    /\ conn = [c \in Conns |-> "new"]
    /\ hs = [c \in Conns |-> http_state_init(NULL)]
    /\ heap = {}
    /\ current_connection = NULL
    /\ tcp = [c \in Conns |-> <<>>]
    /\ nullLeft \in {0, 1}
    /\ sends \in Requests
    /\ gh = [c \in Conns |-> NewHistory]
    /\ lost = {}

(* What one callback of connection c works on. *)
Now(c) == [h |-> hs[c], g |-> gh[c], heap |-> heap, cur |-> current_connection, lost |-> lost,
           post |-> FALSE]

-----------------------------------------------------------------------------
(* Responses: the header strings to send. *)

Units(hdr) == IF hdr = HTTP_STATUS THEN HdrLen ELSE 1

(* The units of a response are numbered in the order they are sent in.     *)
HdrTok(hdr, pos) == IF hdr = HTTP_STATUS THEN pos ELSE HdrLen + hdr
BodyTok(off) == HdrLen + NUM_FILE_HDR_STRINGS + off

(* All units of the response that h has been set up for. *)
Due(h) ==
    (IF h.hdr_index = NUM_FILE_HDR_STRINGS THEN {}
     ELSE UNION {{HdrTok(i, p) : p \in 0..Units(i) - 1} : i \in h.hdrs})
    \cup {BodyTok(j) : j \in 0..h.left - 1}

Respond(w, h) == [w EXCEPT !.h = h, !.g.due = Due(h)]

FirstHeader(h, status, set, unset) ==
    [h EXCEPT !.status = status, !.hdrs = (@ \ unset) \cup set, !.hdr_index = 0, !.hdr_pos = 0]

get_http_headers(h, found) ==
    FirstHeader(h, IF found THEN "ok" ELSE "not_found",
                {HTTP_STATUS, SERVER_NAME, IF found THEN CONTENT_TYPE ELSE CUSTOM_CONTENT},
                {CONTENT_LEN_KEEPALIVE, CONTENT_LEN_NR})

(* A file with its headers in the image, one without, or none at all. *)
fs_open == {"included", "plain", "none"}

http_init_file(w, kind) ==
    LET h == [w.h EXCEPT !.handle = kind # "none", !.file = IF kind = "none" THEN NULL ELSE ROM,
                         !.off = 0, !.left = IF kind = "none" THEN 0 ELSE BodyLen, !.retries = 0]
    IN  Respond(w, IF kind = "included" THEN h ELSE get_http_headers(h, kind = "plain"))

redirect(w) ==
    Respond(w, FirstHeader(w.h, "found", {HTTP_STATUS, CONTENT_LEN_KEEPALIVE}, {}))

(* The answer to a POST, in block b. *)
httpd_post_response(c, w, b) ==
    Respond(w,
      IF c = w.cur
      THEN [FirstHeader(w.h, "ok",
                        {HTTP_STATUS, CONTENT_LEN_KEEPALIVE, CONTENT_LEN_NR, CONTENT_TYPE}, {})
            EXCEPT !.file = b, !.off = 0, !.left = BodyLen, !.post_response_buf = b]
      ELSE FirstHeader(w.h, "bad_request", {HTTP_STATUS, CONTENT_LEN_KEEPALIVE}, {}))

-----------------------------------------------------------------------------
(* POST requests. *)

httpd_process_post_data(c, w) ==
    LET b == NewBlock(w.heap)
        asSent == w.h.content = [i \in DOMAIN w.h.content |-> i]
        called == [w EXCEPT !.heap = @ \cup {b},
                            !.g.handled = IF asSent THEN "as_sent" ELSE "otherwise",
                            !.g.odd = @ \/ w.g.posted < Len(w.h.content),
                            !.lost = IF w.g.overlap THEN @ \cup {b} ELSE @]
    IN  IF w.h.post_uri THEN httpd_post_response(c, called, b) ELSE w

httpd_post_finished_clears_first(c, w) ==
    LET answered == httpd_process_post_data(c, [w EXCEPT !.cur = NULL])
    IN  [answered EXCEPT !.heap = @ \ {w.h.post_content}, !.post = TRUE,
                         !.h.content = <<>>, !.g.posted = 0]

httpd_post_finished(c, w) ==
    LET answered == httpd_process_post_data(c, w)
    IN  [answered EXCEPT !.heap = @ \ {w.h.post_content}, !.cur = NULL, !.post = TRUE,
                         !.h.content = <<>>, !.g.posted = 0]

http_handle_post_finished(c, w) ==
    httpd_post_finished(c, [w EXCEPT !.heap = @ \ {w.h.file}])

PostOffset(h, left, n) == Len(h.content) - left - n

(* n bytes arrive, the first of them in the first pbuf of the chain. *)
httpd_post_receive_data(w, h, n, first) ==
    LET offset == PostOffset(h, h.post_content_len_left, n)
        byte(i) == IF i \notin offset + 1..offset + n THEN h.content[i]
                   ELSE IF i - offset <= first THEN w.g.posted + i - offset ELSE 0
    IN  IF offset < 0 \/ offset + n > Len(h.content)
        THEN [h EXCEPT !.post_content_len_left = 0]
        ELSE [h EXCEPT !.content = [i \in DOMAIN @ |-> byte(i)]]

ContentLeft(left, n) == IF left < n THEN 0 ELSE left - n

http_post_rxpbuf(c, w, n, first) ==
    LET h == [w.h EXCEPT !.post_content_len_left = ContentLeft(@, n)]
        taken == [w EXCEPT !.h = httpd_post_receive_data(w, h, n, first),
                           !.g.posted = @ + n,
                           !.g.odd = @ \/ first < n \/ w.g.posted + n > Len(h.content)]
    IN  IF taken.h.post_content_len_left = 0 THEN http_handle_post_finished(c, taken) ELSE taken

httpd_post_begin(c, w, len, uri) ==
    LET b == NewBlock(w.heap)
    IN  [w EXCEPT !.cur = c, !.post = TRUE,
                  !.heap = IF len > 0 THEN @ \cup {b} ELSE @,
                  !.h = [w.h EXCEPT !.post_uri = uri, !.content = [i \in 1..len |-> 0],
                                    !.post_content = IF len > 0 THEN b ELSE @,
                                    !.post_content_len_left = len],
                  !.g = [w.g EXCEPT !.twice = @ \/ (len = 0 /\ w.h.post_content # NULL),
                                    !.posted = 0, !.odd = FALSE, !.overlap = FALSE,
                                    !.handled = "no"]]

(* A POST whose first n bytes of body came with the headers. *)
http_post_request(c, w, len, uri, n, first) ==
    LET begun == httpd_post_begin(c, w, len, uri)
    IN  IF n = 0 /\ len > 0 THEN begun ELSE http_post_rxpbuf(c, begun, n, first)

-----------------------------------------------------------------------------
(* Sending. *)

HdrUnit(h) ==
    [tok |-> HdrTok(h.hdr_index, h.hdr_pos),
     mem |-> IF h.hdr_index = HTTP_STATUS /\ h.status = "found" THEN h.block ELSE ROM]

NextHeader(h) == Min({i \in h.hdrs : i > h.hdr_index} \cup {NUM_FILE_HDR_STRINGS})

AfterHdrUnit(h) ==
    IF h.hdr_pos + 1 = Units(h.hdr_index)
    THEN [h EXCEPT !.hdr_index = NextHeader(h), !.hdr_pos = 0]
    ELSE [h EXCEPT !.hdr_pos = @ + 1]

(* tcp_write takes what is offered, up to its free room, or only a part of *)
(* it when memory is short.                                                *)
Taken(short, max) == IF short THEN 0..max ELSE {max}

http_send_headers(h, room, short) ==
    LET after[n \in 0..room] == IF n = 0 THEN h ELSE AfterHdrUnit(after[n - 1])
        possible == {n \in 0..room : \A i \in 0..n - 1 : after[i].hdr_index < NUM_FILE_HDR_STRINGS}
    IN  {[h |-> after[n], sent |-> [i \in 1..n |-> HdrUnit(after[i - 1])]] :
            n \in Taken(short, Max(possible))}

http_send_data_nonssi_same_bytes(h, room, short) ==
    {[h |-> [h EXCEPT !.left = @ - n],
      sent |-> [i \in 1..n |-> [tok |-> BodyTok(h.off + i - 1), mem |-> h.file]]] :
        n \in Taken(short, Min({h.left, room}))}

http_send_data_nonssi(h, room, short) ==
    {[h |-> [h EXCEPT !.off = @ + n, !.left = @ - n],
      sent |-> [i \in 1..n |-> [tok |-> BodyTok(h.off + i - 1), mem |-> h.file]]] :
        n \in Taken(short, Min({h.left, room}))}

fs_bytes_left(handle) == IF handle THEN 0 ELSE nullLeft

(* Whether the connection ends here: without dynamic reads a file is never *)
(* open with more to read.                                                 *)
http_check_eof(h) == h.handle => fs_bytes_left(h.handle) <= 0

(* What http_send may come to; eof: it closes the connection. *)
http_send(h, room, short) ==
    LET heads == IF h.hdr_index < NUM_FILE_HDR_STRINGS THEN http_send_headers(h, room, short)
                 ELSE {[h |-> h, sent |-> <<>>]}
        rest(r) == IF r.h.hdr_index < NUM_FILE_HDR_STRINGS
                   THEN {[h |-> r.h, sent |-> r.sent, eof |-> FALSE]}
                   ELSE IF r.h.file = NULL \/ r.h.left = 0
                   THEN {[h |-> r.h, sent |-> r.sent, eof |-> http_check_eof(r.h)]}
                   ELSE {[h |-> d.h, sent |-> r.sent \o d.sent,
                          eof |-> d.h.left = 0 /\ fs_bytes_left(d.h.handle) <= 0] :
                            d \in http_send_data_nonssi(r.h, room - Len(r.sent), short)}
    IN  UNION {rest(r) : r \in heads}

-----------------------------------------------------------------------------
(* How a callback of connection c ends: with the state w it leaves and the *)
(* queue q of TCP.                                                         *)

History(c, g, post) ==
    gh' = [d \in Conns |-> IF d = c THEN g
                           ELSE [gh[d] EXCEPT !.overlap = @ \/ (post /\ d \in Posting)]]

Keep(c, w, q) ==
    /\ hs' = [hs EXCEPT ![c] = w.h]
    /\ heap' = w.heap
    /\ current_connection' = w.cur
    /\ lost' = w.lost
    /\ tcp' = [tcp EXCEPT ![c] = q]
    /\ History(c, w.g, w.post)
    /\ UNCHANGED <<conn, nullLeft, sends>>

http_state_free_no_answer(used, h) == used \ {h.block}
http_state_free(used, h) == used \ {h.post_response_buf, h.block}

(* What is kept of the history of an ended connection; eof: its response   *)
(* was finished.                                                           *)
Complete(g) ==
    /\ {g.out[i] : i \in DOMAIN g.out} = g.due
    /\ \A i \in 2..Len(g.out) : g.out[i - 1] < g.out[i]

Ended(g, eof) ==
    [NewHistory EXCEPT !.odd = g.odd, !.handled = g.handled, !.twice = g.twice,
                       !.out = IF eof /\ ~g.again /\ ~Complete(g) THEN g.out ELSE <<>>,
                       !.due = IF eof /\ ~g.again /\ ~Complete(g) THEN g.due ELSE {}]

http_close_conn(c, w, q, eof) ==
    LET told == IF w.h.post_content_len_left # 0 THEN httpd_post_finished(c, w) ELSE w
    IN  /\ heap' = http_state_free(told.heap, told.h)
        /\ hs' = [hs EXCEPT ![c] = http_state_init(NULL)]
        /\ current_connection' = told.cur
        /\ lost' = told.lost
        /\ tcp' = [tcp EXCEPT ![c] = q]
        /\ History(c, Ended(told.g, eof), told.post)
        /\ \E ok \in BOOLEAN : conn' = [conn EXCEPT ![c] = IF ok THEN "closed" ELSE "closing"]
        /\ UNCHANGED <<nullLeft, sends>>

Send(c, w, q) ==
    \E s \in http_send(w.h, SndBuf - Len(q), "short" \in sends[c]) :
        LET toks == [i \in DOMAIN s.sent |-> s.sent[i].tok]
            mems == [i \in DOMAIN s.sent |-> s.sent[i].mem]
            done == [w EXCEPT !.h = s.h, !.g.out = IF w.g.again THEN <<>> ELSE @ \o toks]
        IN  IF s.eof THEN http_close_conn(c, done, q \o mems, TRUE) ELSE Keep(c, done, q \o mems)

-----------------------------------------------------------------------------
(* The callbacks. *)

(* Enough blocks for one more, and for the answers to all requests (new    *)
(* does not return on failure).                                            *)
MemoryLeft == Cardinality(Blocks \ heap) >= Cardinality(Posting) + 2

http_accept(c) ==
    /\ conn[c] = "new" /\ sends[c] # {} /\ MemoryLeft
    /\ LET b == NewBlock(heap)
       IN  /\ heap' = heap \cup {b}
           /\ hs' = [hs EXCEPT ![c] = http_state_init(b)]
    /\ conn' = [conn EXCEPT ![c] = "open"]
    /\ UNCHANGED <<current_connection, tcp, nullLeft, sends, gh, lost>>

Receiving(c) == conn[c] = "open" /\ gh[c].recvs < MaxRecv[c]

Received(c) == [Now(c) EXCEPT !.g.recvs = @ + 1]

(* TCP hands over n bytes in one pbuf, or in a chain of which the first    *)
(* pbuf has some, when segments have overtaken each other.                 *)
FirstPbuf(c, n) == IF "chain" \in sends[c] THEN {Min({1, n}), n} ELSE {n}

(* Data of a POST that is under way. *)
http_recv_post(c) ==
    /\ Receiving(c) /\ hs[c].post_content_len_left > 0
    /\ \E n \in 1..Len(hs[c].content) : \E first \in FirstPbuf(c, n) :
         LET w == http_post_rxpbuf(c, [Received(c) EXCEPT !.h.retries = 0], n, first)
         IN  IF w.h.post_content_len_left = 0 THEN Send(c, w, tcp[c]) ELSE Keep(c, w, tcp[c])

(* While a body is being sent, data is dropped without effect. *)
MayParse(c, kind) ==
    /\ Receiving(c) /\ kind \in sends[c] /\ hs[c].post_content_len_left = 0
    /\ ~hs[c].handle /\ hs[c].file = NULL

Parsing(c) == [Received(c) EXCEPT !.h.req = 0,
                                  !.g.again = @ \/ hs[c].hdr_index < NUM_FILE_HDR_STRINGS]

(* http_parse_request: no complete request yet. *)
RecvIncomplete(c) ==
    /\ MayParse(c, "part")
    /\ LET w == [Received(c) EXCEPT !.h.req = @ + 1]
       IN  IF w.h.req <= LWIP_HTTPD_REQ_QUEUELEN THEN Keep(c, w, tcp[c])
           ELSE http_close_conn(c, Parsing(c), tcp[c], FALSE)

RecvBadRequest(c) == MayParse(c, "bad") /\ http_close_conn(c, Parsing(c), tcp[c], FALSE)

RecvOtherHost(c) == MayParse(c, "host") /\ Send(c, redirect(Parsing(c)), tcp[c])

RecvGet(c) ==
    /\ MayParse(c, "get")
    /\ \E kind \in fs_open :
         Send(c, http_init_file(Parsing(c), kind), tcp[c])

RecvPost(c) ==
    /\ MayParse(c, "post") /\ MemoryLeft
    /\ \E len \in ContentLens, known \in {"no_handler" \notin sends[c], TRUE} :
       \E n \in 0..len : \E first \in FirstPbuf(c, n) :
         LET w == http_post_request(c, Parsing(c), len, known, n, first)
         IN  IF w.h.post_content_len_left = 0 THEN Send(c, w, tcp[c]) ELSE Keep(c, w, tcp[c])

RecvClosed(c) == conn[c] = "open" /\ http_close_conn(c, Now(c), tcp[c], FALSE)

http_sent(c) ==
    /\ conn[c] = "open"
    /\ \E n \in 1..Len(tcp[c]) :
         Send(c, [Now(c) EXCEPT !.h.retries = 0], SubSeq(tcp[c], n + 1, Len(tcp[c])))

GivesUp(retries) == retries = HTTPD_MAX_RETRIES

http_poll_counts_files(c) ==
    /\ conn[c] = "open"
    /\ LET w == [Now(c) EXCEPT !.h.retries = IF hs[c].handle THEN @ + 1 ELSE @]
       IN  IF GivesUp(w.h.retries) THEN http_close_conn(c, w, tcp[c], FALSE)
           ELSE IF w.h.handle THEN Send(c, w, tcp[c]) ELSE Keep(c, w, tcp[c])

http_poll(c) ==
    /\ conn[c] = "open"
    /\ LET w == [Now(c) EXCEPT !.h.retries = @ + 1]
       IN  IF GivesUp(w.h.retries) THEN http_close_conn(c, w, tcp[c], FALSE)
           ELSE IF w.h.handle THEN Send(c, w, tcp[c]) ELSE Keep(c, w, tcp[c])

(* http_poll of a connection whose tcp_close failed. *)
http_poll_again(c) ==
    /\ conn[c] = "closing"
    /\ conn' = [conn EXCEPT ![c] = "closed"]
    /\ UNCHANGED <<hs, heap, current_connection, tcp, nullLeft, sends, gh, lost>>

http_err(c) ==
    /\ conn[c] = "open"
    /\ heap' = http_state_free(heap, hs[c])
    /\ hs' = [hs EXCEPT ![c] = http_state_init(NULL)]
    /\ lost' = IF c \in Posting THEN lost \cup {hs[c].post_content} ELSE lost
    /\ tcp' = [tcp EXCEPT ![c] = <<>>]
    /\ conn' = [conn EXCEPT ![c] = "closed"]
    /\ gh' = [gh EXCEPT ![c] = Ended(gh[c], FALSE)]
    /\ UNCHANGED <<current_connection, nullLeft, sends>>

(* lwIP, behind a connection that httpd has closed: the rest is            *)
(* acknowledged, or the connection is reset.                               *)
TcpFinished(c) ==
    /\ conn[c] \in {"closing", "closed"} /\ tcp[c] # <<>>
    /\ tcp' = [tcp EXCEPT ![c] = <<>>]
    /\ UNCHANGED <<conn, hs, heap, current_connection, nullLeft, sends, gh, lost>>

HttpdNext ==
    \E c \in Conns :
        \/ http_accept(c) \/ http_recv_post(c) \/ RecvIncomplete(c) \/ RecvBadRequest(c)
        \/ RecvOtherHost(c) \/ RecvGet(c) \/ RecvPost(c) \/ RecvClosed(c)
        \/ http_sent(c) \/ http_poll(c) \/ http_poll_again(c) \/ http_err(c)
        \/ TcpFinished(c)

(* tcp_slowtmr polls every connection; a close for which memory is missing *)
(* succeeds when it is tried often enough.                                 *)
Fairness == \A c \in Conns : WF_httpdVars(http_poll(c)) /\ WF_httpdVars(http_poll_again(c))

HttpdSpec == HttpdInit /\ [][HttpdNext]_httpdVars /\ Fairness

-----------------------------------------------------------------------------
Ptr == Blocks \cup {NULL}
HttpState ==
    [block : Ptr, handle : BOOLEAN, file : Ptr \cup {ROM}, off : 0..BodyLen, left : 0..BodyLen,
     retries : 0..HTTPD_MAX_RETRIES - 1, req : 0..LWIP_HTTPD_REQ_QUEUELEN,
     status : {"none", "ok", "not_found", "bad_request", "found"}, hdrs : SUBSET Hdrs,
     hdr_index : 0..NUM_FILE_HDR_STRINGS, hdr_pos : 0..HdrLen - 1, post_uri : BOOLEAN,
     post_content : Ptr, post_content_len_left : Nat, content : Seq(Nat), post_response_buf : Ptr]

(* Types; every counter and every position of an http_state stays in its   *)
(* range, and TCP is never given more than its send buffer holds.          *)
HttpdTypeOK ==
    /\ conn \in [Conns -> {"new", "open", "closing", "closed"}]
    /\ hs \in [Conns -> HttpState]
    /\ \A c \in Conns : hs[c].post_content_len_left <= Len(hs[c].content)
    /\ heap \subseteq Blocks /\ lost \subseteq heap
    /\ current_connection \in Conns \cup {NULL}
    /\ \A c \in Conns : Len(tcp[c]) <= SndBuf

OwnedBy(c) ==
    {hs[c].block} \cup (IF c \in Posting THEN {hs[c].post_content} ELSE {})
    \cup ({hs[c].post_response_buf} \ {NULL})

(* Every allocated block belongs to exactly one open connection, which     *)
(* frees it (http_state_eof, httpd_post_finished), whichever way the       *)
(* connection ends.  The exceptions are the two leaks of the code: the     *)
(* answer to a POST that another POST overlapped (httpd_post_response      *)
(* drops it) and the content of a POST cut off by http_err; and nothing is *)
(* said once a connection has taken a second, empty POST, which deletes    *)
(* the content of the first one again.                                     *)
HeapExact ==
    (\A c \in Conns : ~gh[c].twice) =>
        LET open == {c \in Conns : conn[c] = "open"}
        IN  /\ heap \ lost = UNION {OwnedBy(c) : c \in open}
            /\ \A c, d \in open : c # d => OwnedBy(c) \cap OwnedBy(d) = {}

(* A POST handler sees the body exactly as the client sent it, however it  *)
(* was cut into segments (if the client sent what it announced and no      *)
(* segments were chained), and its own result is the answer to that POST   *)
(* if no other POST began or ended meanwhile: current_connection is a      *)
(* single variable for all connections.                                    *)
OwnAnswer ==
    \A c \in Conns :
        /\ gh[c].handled = "otherwise" => gh[c].odd
        /\ conn[c] = "open" /\ gh[c].handled # "no" /\ ~gh[c].overlap =>
              /\ hs[c].status = "ok" /\ hs[c].post_response_buf # NULL
              /\ (\A d \in Conns : ~gh[d].twice) => hs[c].post_response_buf \in heap

(* When the server ends a connection because the response is finished,     *)
(* every byte of the headers and of the body has been handed to TCP once   *)
(* and in order, however often the send buffer was full in between.        *)
ResponseComplete == \A c \in Conns : conn[c] \in {"closing", "closed"} => Complete(gh[c])

(* Every connection is closed in the end, whatever its peer does or omits: *)
(* http_poll counts down one that makes no progress.                       *)
ConnectionsEnd ==
    \A c \in Conns : conn[c] \in {"open", "closing"} ~> conn[c] = "closed"
=============================================================================
