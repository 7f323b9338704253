------------------------------- MODULE Serial -------------------------------
(***************************************************************************)
(* hal/src/serial.cpp: the UART receive interrupt, which assembles lines   *)
(* in a ring buffer, and read_string, with which the task of a Sensor      *)
(* (src/sensor.cpp, read_task) takes them out.  The two share the ring,    *)
(* three volatile flags and the task's notification.                       *)
(*                                                                         *)
(* The interrupt runs to completion, so one received character is one      *)
(* action; the task may be interrupted between any two of its statements,  *)
(* so each test and each assignment of read_string is a step of its own.   *)
(* read_from_receive_buffer is one step: it runs in a critical section,    *)
(* which keeps the interrupt out when both are on one core (RingRace       *)
(* models the other placement).                                            *)
(*                                                                         *)
(* Data bytes are stamped with the line they belong to and their place in  *)
(* it, so that the properties can say which line a string came from.       *)
(***************************************************************************)
EXTENDS RingBuffer, FiniteSets

CONSTANTS NUL,                  \* the '\0' pushed behind a line
          Garbage,              \* what new char[] left in the storage
          MaxLines,             \* bound: lines the sensor transmits
          MaxLen                \* bound: data bytes of a line

Byte == [line : Nat \ {0}, pos : Nat \ {0}]

Item == Byte \cup {NUL, Garbage}

ASSUME ItemAssumption == NUL \notin Byte /\ Garbage \notin Byte /\ NUL # Garbage
ASSUME BoundAssumption == MaxLines \in Nat /\ MaxLen \in Nat

VARIABLES
    lens,                   \* environment: lengths of the lines transmitted
    pos,                    \* environment: data bytes of the current line sent
    receiving_task_handle,  \* TRUE once Sensor::init has set it
    uart_buffer,
    string_finished_,
    received_chars,
    timeout_detected,
    notified,               \* a notification is pending for the task
    pc,                     \* where the task is in read_task / read_string
    expired,                \* xTicksToWait has run out
    got,                    \* string the last read_string handed to the sensor
    torn                    \* history: lines of which something was dropped

env     == <<lens, pos>>
serial  == <<uart_buffer, string_finished_, received_chars, timeout_detected>>
reading == <<pc, expired, got>>
vars    == <<lens, pos, receiving_task_handle, uart_buffer, string_finished_,
             received_chars, timeout_detected, notified, pc, expired, got, torn>>

PC == {"wait", "while", "expiry", "timed_out", "flush", "take", "read"}

TypeOK ==
    /\ lens \in Seq(Nat)
    /\ pos \in Nat
    /\ receiving_task_handle \in BOOLEAN
    /\ uart_buffer \in Ring(SERIAL_BUFFERS_SIZE, Item)
    /\ string_finished_ \in BOOLEAN
    /\ received_chars \in Nat
    /\ timeout_detected \in BOOLEAN
    /\ notified \in BOOLEAN
    /\ pc \in PC
    /\ expired \in BOOLEAN
    /\ got \in Seq(Item)
    /\ torn \in SUBSET (Nat \ {0})

Line == Len(lens) + 1       \* the line being transmitted

Lines(q) == {q[i].line : i \in {j \in DOMAIN q : q[j] \in Byte}}

Stored == Contents(uart_buffer)

Init ==
    /\ lens = <<>> /\ pos = 0
    /\ receiving_task_handle = FALSE
    /\ uart_buffer = NewRing(SERIAL_BUFFERS_SIZE, Garbage)
    /\ string_finished_ = FALSE
    /\ received_chars = 0
    /\ timeout_detected = FALSE
    /\ notified = FALSE
    /\ pc = "wait" /\ expired = FALSE /\ got = <<>>
    /\ torn = {}

-----------------------------------------------------------------------------
(* Serial::handle_received_char, one disjunct per branch.                  *)

\* The first character after a timed out read empties the ring; the
\* character itself is not stored.
RxAfterTimeout ==
    /\ timeout_detected
    /\ uart_buffer' = reset(uart_buffer)
    /\ string_finished_' = FALSE
    /\ received_chars' = 0
    /\ timeout_detected' = FALSE
    /\ torn' = torn \cup Lines(Stored) \cup {Line}
    /\ UNCHANGED notified

\* Mutation of RxEndOfLine: the reader is not told.
RxEndOfLine_no_notify ==
    /\ ~timeout_detected
    /\ received_chars > 0
    /\ uart_buffer' = push(uart_buffer, NUL)
    /\ string_finished_' = TRUE
    /\ received_chars' = 0
    /\ torn' = IF is_full(uart_buffer) THEN torn \cup {Line} ELSE torn
    /\ UNCHANGED <<timeout_detected, notified>>

\* '\r' or '\n' behind at least one character ends the string.
RxEndOfLine ==
    /\ ~timeout_detected
    /\ received_chars > 0
    /\ uart_buffer' = push(uart_buffer, NUL)
    /\ string_finished_' = TRUE
    /\ received_chars' = 0
    /\ notified' = TRUE
    /\ torn' = IF is_full(uart_buffer) THEN torn \cup {Line} ELSE torn
    /\ UNCHANGED timeout_detected

\* Consecutive terminators are ignored.
RxEmptyLine ==
    /\ ~timeout_detected
    /\ received_chars = 0
    /\ UNCHANGED <<serial, notified, torn>>

\* The last character the ring has room for ends the string too.
RxNearlyFull(b) ==
    /\ ~timeout_detected
    /\ space_left(uart_buffer) = 2
    /\ uart_buffer' = push(push(uart_buffer, b), NUL)
    /\ string_finished_' = TRUE
    /\ received_chars' = 0
    /\ notified' = TRUE
    /\ torn' = torn \cup {Line}
    /\ UNCHANGED timeout_detected

RxNormal(b) ==
    /\ ~timeout_detected
    /\ space_left(uart_buffer) # 2
    /\ uart_buffer' = push(uart_buffer, b)
    /\ received_chars' = received_chars + 1
    /\ notified' = (notified \/ received_chars' = 1)
    /\ torn' = IF is_full(uart_buffer) THEN torn \cup {Line} ELSE torn
    /\ UNCHANGED <<string_finished_, timeout_detected>>

(* Serial::on_uart_rx, called with each character of the line in turn.     *)

RxData ==
    /\ receiving_task_handle
    /\ Line <= MaxLines /\ pos < MaxLen
    /\ pos' = pos + 1
    /\ LET b == [line |-> Line, pos |-> pos + 1]
       IN  RxAfterTimeout \/ RxNearlyFull(b) \/ RxNormal(b)
    /\ UNCHANGED <<lens, receiving_task_handle, reading>>

RxTerminator ==
    /\ receiving_task_handle
    /\ Line <= MaxLines
    /\ lens' = Append(lens, pos) /\ pos' = 0
    /\ RxAfterTimeout \/ RxEndOfLine \/ RxEmptyLine
    /\ UNCHANGED <<receiving_task_handle, reading>>

\* The UART's FIFO is off: a character that arrives before the previous one
\* was taken (no handle yet, interrupts off) is lost in the hardware.
Overrun ==
    /\ Line <= MaxLines
    /\ torn' = torn \cup {Line}
    /\ \/ pos < MaxLen /\ pos' = pos + 1 /\ UNCHANGED lens
       \/ lens' = Append(lens, pos) /\ pos' = 0
    /\ UNCHANGED <<receiving_task_handle, serial, notified, reading>>

\* Sensor::init: the task exists before the handle is handed to the UART.
SetReceivingTaskHandle ==
    /\ ~receiving_task_handle
    /\ receiving_task_handle' = TRUE
    /\ UNCHANGED <<env, serial, notified, reading, torn>>

-----------------------------------------------------------------------------
(* Sensor::read_task and Serial::read_string.                              *)

\* xTaskNotifyWait returned pdTRUE; read_string records the time.
NotifyWait ==
    /\ pc = "wait" /\ notified
    /\ notified' = FALSE
    /\ pc' = "while" /\ expired' = FALSE
    /\ UNCHANGED <<env, receiving_task_handle, serial, got, torn>>

WhileNotFinished ==
    /\ pc = "while"
    /\ pc' = IF string_finished_ THEN "read" ELSE "expiry"
    /\ UNCHANGED <<env, receiving_task_handle, serial, notified, expired, got, torn>>

CheckForTimeOut ==
    /\ pc = "expiry"
    /\ pc' = IF expired THEN "timed_out" ELSE "take"
    /\ UNCHANGED <<env, receiving_task_handle, serial, notified, expired, got, torn>>

\* ulTaskNotifyTake returns with a notification or when the ticks are over.
NotifyTake ==
    /\ pc = "take"
    /\ notified \/ expired
    /\ notified' = FALSE
    /\ pc' = "while"
    /\ UNCHANGED <<env, receiving_task_handle, serial, expired, got, torn>>

SetTimeoutDetected ==
    /\ pc = "timed_out"
    /\ timeout_detected' = TRUE
    /\ pc' = "flush"
    /\ UNCHANGED <<env, receiving_task_handle, uart_buffer, string_finished_,
                   received_chars, notified, expired, got, torn>>

\* Mutation of LoopEnds: the loop does not stop at the terminator.
LoopEnds_drains_all(n) == n = Len(Stored)

\* The loop of read_from_receive_buffer ends with n characters popped: at the
\* first NUL, or with the ring empty.  The array is as long as the ring and
\* keeps its last place free, so the last character of a full ring is popped
\* and looked at no more.
LoopEnds(n) ==
    /\ \A i \in 1 .. n - 1 : Stored[i] # NUL
    /\ n = Len(Stored) \/ (n > 0 /\ Stored[n] = NUL)

Returned(n) == SubSeq(Stored, 1, IF n < SERIAL_BUFFERS_SIZE THEN n ELSE n - 1)

read_from_receive_buffer(n) ==
    /\ LoopEnds(n)
    /\ uart_buffer' = popN(uart_buffer, n)
    /\ string_finished_' = FALSE
    /\ UNCHANGED <<received_chars, timeout_detected>>

\* A timed out read drops what it took and returns 0.
ReadTimedOut ==
    /\ pc = "flush"
    /\ \E n \in 0 .. Len(Stored) :
          /\ read_from_receive_buffer(n)
          /\ torn' = torn \cup Lines(SubSeq(Stored, 1, n))
    /\ pc' = "wait"
    /\ UNCHANGED <<env, receiving_task_handle, notified, expired, got>>

ReadFinished ==
    /\ pc = "read"
    /\ \E n \in 0 .. Len(Stored) :
          /\ read_from_receive_buffer(n)
          /\ got' = Returned(n)
    /\ pc' = "wait"
    /\ UNCHANGED <<env, receiving_task_handle, notified, expired, torn>>

\* The ticks of xTicksToWait pass.
TimerExpires ==
    /\ pc \in {"while", "expiry", "take"} /\ ~expired
    /\ expired' = TRUE
    /\ UNCHANGED <<env, receiving_task_handle, serial, notified, pc, got, torn>>

-----------------------------------------------------------------------------
Interrupt == RxData \/ RxTerminator \/ Overrun

ReadTask == \/ NotifyWait \/ WhileNotFinished \/ CheckForTimeOut \/ NotifyTake
            \/ SetTimeoutDetected \/ ReadTimedOut \/ ReadFinished

Next == SetReceivingTaskHandle \/ Interrupt \/ ReadTask \/ TimerExpires

Spec == Init /\ [][Next]_vars

\* The task is ready whenever it is not blocked and every task above it
\* blocks periodically, so its steps are taken; the tick interrupt makes
\* time pass.  Nothing is assumed of the sensor.
FairSpec == Spec /\ WF_vars(ReadTask) /\ WF_vars(TimerExpires)

-----------------------------------------------------------------------------
Before(a, b) == a.line < b.line \/ (a.line = b.line /\ a.pos < b.pos)

Ordered(q) ==
    \A i, j \in DOMAIN q :
        i < j /\ q[i] \in Byte /\ q[j] \in Byte => Before(q[i], q[j])

\* The element count of the ring always equals the distance between its
\* pointers, whatever the interrupt and the reader do to it.
RingConsistent == Consistent(uart_buffer)

\* No byte is ever delivered twice, out of order or from storage that was
\* never written: the string handed to the sensor followed by the ring's
\* contents is in transmission order.
InOrder ==
    /\ Ordered(got \o Stored)
    /\ \A i \in DOMAIN got : got[i] # Garbage
    /\ \A i \in DOMAIN Stored : Stored[i] # Garbage

\* A string none of whose lines lost anything (to a full ring, a timed out
\* read, the reset behind it or the hardware) is exactly one whole line
\* with its terminator: lines are neither merged nor cut by the interleaving
\* of interrupt and reader alone.
WholeLine ==
    (Lines(got) # {} /\ Lines(got) \cap torn = {})
        => \E l \in DOMAIN lens :
              /\ Len(got) = lens[l] + 1
              /\ \A i \in 1 .. lens[l] : got[i] = [line |-> l, pos |-> i]
              /\ got[Len(got)] = NUL

\* The finished strings in the ring.
Finished == Cardinality({i \in DOMAIN Stored : Stored[i] = NUL})

\* While string_finished_ is set, the reader comes for the oldest finished
\* string (or discards it), however many lines end before it does and
\* whichever notification they give: no wake-up is lost.  The flag says that
\* there are finished strings and not how many, and one read clears it: a
\* string that was finished before the one in front of it was taken stays in
\* the ring, unannounced, until another line has ended.
FinishedIsTaken ==
    /\ string_finished_ ~> ~string_finished_
    /\ \A k \in 1..MaxLines : (Finished = k /\ string_finished_) ~> Finished # k
=============================================================================
