------------------------------- MODULE Sensor -------------------------------
(***************************************************************************)
(* src/sensor.cpp: the task of a sensor cuts the fields named by the       *)
(* publish settings out of each line, averages the numeric ones and queues *)
(* the results for MQTT and the WebSocket.                                 *)
(*                                                                         *)
(* The settings are read in place from flash, several times for one field, *)
(* and settings_save_fn (src/post.cpp) rewrites them from the HTTP server  *)
(* at any moment: every statement that reads them is a step of its own.    *)
(* The entries of publish_settings are treated alike and share no state,   *)
(* so one entry is modelled.                                               *)
(*                                                                         *)
(* Readings are numbered.  accum holds the numbers of the readings that    *)
(* were added up, so that the properties can say which readings an average *)
(* is of.                                                                  *)
(***************************************************************************)
EXTENDS Integers, Sequences

CONSTANTS SERIAL_BUFFERS_SIZE,  \* length of serial_buffer and of data
          QUEUE_LENGTH,         \* length of mqttQueue and websocketQueue
          Entries,              \* publish settings that may be saved
          MaxReadings,          \* bound: readings of the field
          MaxSaves              \* bound: saves of the settings

ASSUME SizeAssumption == SERIAL_BUFFERS_SIZE \in Nat \ {0} /\ QUEUE_LENGTH \in Nat
ASSUME BoundAssumption == MaxReadings \in Nat /\ MaxSaves \in Nat
ASSUME EntriesAssumption ==
    Entries \subseteq [enabled : BOOLEAN, simulate_values : BOOLEAN, start : 0 .. 2 ^ 16 - 1,
                       end : 0 .. 2 ^ 16 - 1, is_num : BOOLEAN, avg_cnt : Int]

NONE == -1      \* no slice has been copied; a queue handle that is NULL

VARIABLES
    pub,                \* the settings entry in flash
    accum,              \* avg_fields[index].accum, as the readings in it
    avg_cnt_current,    \* avg_fields[index].avg_cnt_current
    pc,                 \* where the task is with the field
    bytes_received,     \* length of the line, its terminator included
    len,                \* length of the field's slice
    from,               \* where in the line the slice was copied from
    reading,            \* number of the reading in hand
    mqttQueue,          \* number of messages in the queue, NONE before it exists
    websocketQueue,     \* the same
    saves,              \* number of times the settings were saved
    raced,              \* history: a save fell into the processing of a field
    last,               \* history: the result published last
    spent,              \* history: readings that went into a result
    waiting             \* history: readings since a result or a save

vars == <<pub, accum, avg_cnt_current, pc, bytes_received, len, from, reading,
          mqttQueue, websocketQueue, saves, raced, last, spent, waiting>>

queues == <<mqttQueue, websocketQueue>>

Results == [over : Seq(1 .. MaxReadings), by : Int]

PC == {"line", "enabled", "length", "copy", "is_num", "avg_cnt", "add", "complete", "average",
       "publish"}

TypeOK ==
    /\ pub \in Entries
    /\ accum \in Seq(1 .. MaxReadings)
    /\ avg_cnt_current \in Nat
    /\ pc \in PC
    /\ bytes_received \in 0 .. SERIAL_BUFFERS_SIZE
    /\ len \in Nat
    /\ from \in Nat \cup {NONE}
    /\ reading \in 0 .. MaxReadings
    /\ mqttQueue \in {NONE} \cup 0 .. QUEUE_LENGTH
    /\ websocketQueue \in {NONE} \cup 0 .. QUEUE_LENGTH
    /\ saves \in 0 .. MaxSaves
    /\ raced \in BOOLEAN
    /\ last \in Results
    /\ spent \subseteq 1 .. MaxReadings
    /\ waiting \in Nat

Init ==
    /\ pub \in Entries
    /\ accum = <<>> /\ avg_cnt_current = 0
    /\ pc = "line" /\ bytes_received = 0 /\ len = 0 /\ from = NONE
    /\ reading = 0
    /\ mqttQueue = NONE /\ websocketQueue = NONE
    /\ saves = 0
    /\ raced = FALSE /\ last = [over |-> <<>>, by |-> 0] /\ spent = {} /\ waiting = 0

-----------------------------------------------------------------------------
(* Sensor::read_task.                                                      *)

\* A line of b characters, or the next round of simulated values.
Line ==
    /\ pc = "line"
    /\ reading < MaxReadings
    /\ reading' = reading + 1
    /\ raced' = FALSE
    /\ \E b \in 1 .. SERIAL_BUFFERS_SIZE - 1 :
          bytes_received' = IF pub.simulate_values THEN SERIAL_BUFFERS_SIZE ELSE b
    /\ pc' = "enabled" /\ len' = 0 /\ from' = NONE
    /\ UNCHANGED <<pub, accum, avg_cnt_current, queues, saves, last, spent, waiting>>

\* Simulated data stand for a line that fills the buffer: a field must end
\* inside it.
Simulated == bytes_received = SERIAL_BUFFERS_SIZE

Skip ==
    \/ ~pub.enabled
    \/ pub.end <= pub.start
    \/ pub.start >= bytes_received
    \/ Simulated /\ pub.end > SERIAL_BUFFERS_SIZE

FieldEnabled ==
    /\ pc = "enabled"
    /\ pc' = IF Skip THEN "line" ELSE "length"
    /\ UNCHANGED <<pub, accum, avg_cnt_current, bytes_received, len, from, reading, queues,
                   saves, raced, last, spent, waiting>>

\* The difference of two settings as a size_t: a negative one is huge.
AsSize(n) == n % 2 ^ 30

\* Mutation of SliceLength: the last place of data is not kept free.
SliceLength_no_room ==
    LET n == AsSize((IF ~Simulated /\ pub.end > bytes_received THEN bytes_received ELSE pub.end)
                        - pub.start)
    IN  IF n > SERIAL_BUFFERS_SIZE THEN SERIAL_BUFFERS_SIZE ELSE n

SliceLength ==
    LET n == AsSize((IF ~Simulated /\ pub.end > bytes_received THEN bytes_received ELSE pub.end)
                        - pub.start)
    IN  IF n > SERIAL_BUFFERS_SIZE - 1 THEN SERIAL_BUFFERS_SIZE - 1 ELSE n

FieldLength ==
    /\ pc = "length"
    /\ len' = SliceLength
    /\ pc' = IF ~Simulated /\ SliceLength = 0 THEN "line" ELSE "copy"
    /\ UNCHANGED <<pub, accum, avg_cnt_current, bytes_received, from, reading, queues, saves,
                   raced, last, spent, waiting>>

\* memcpy out of the line, or memset of the simulated digit.
FieldCopy ==
    /\ pc = "copy"
    /\ from' = IF Simulated THEN 0 ELSE pub.start
    /\ waiting' = waiting + 1
    /\ pc' = "is_num"
    /\ UNCHANGED <<pub, accum, avg_cnt_current, bytes_received, len, reading, queues, saves,
                   raced, last, spent>>

-----------------------------------------------------------------------------
(* Sensor::process_and_publish.                                            *)

IsNum ==
    /\ pc = "is_num"
    /\ pc' = IF pub.is_num THEN "avg_cnt" ELSE "publish"
    /\ UNCHANGED <<pub, accum, avg_cnt_current, bytes_received, len, from, reading, queues,
                   saves, raced, last, spent, waiting>>

Averaging ==
    /\ pc = "avg_cnt"
    /\ pc' = IF pub.avg_cnt > 0 THEN "add" ELSE "publish"
    /\ UNCHANGED <<pub, accum, avg_cnt_current, bytes_received, len, from, reading, queues,
                   saves, raced, last, spent, waiting>>

\* Mutation of Restart: a lowered avg_cnt is not noticed.
Restart_never == FALSE

Restart == avg_cnt_current > pub.avg_cnt

Add ==
    /\ pc = "add"
    /\ accum' = Append(IF Restart THEN <<>> ELSE accum, reading)
    /\ avg_cnt_current' = (IF Restart THEN 0 ELSE avg_cnt_current) + 1
    /\ pc' = "complete"
    /\ UNCHANGED <<pub, bytes_received, len, from, reading, queues, saves, raced, last, spent, waiting>>

Complete ==
    /\ pc = "complete"
    /\ pc' = IF avg_cnt_current = pub.avg_cnt THEN "average" ELSE "line"
    /\ UNCHANGED <<pub, accum, avg_cnt_current, bytes_received, len, from, reading, queues,
                   saves, raced, last, spent, waiting>>

\* xQueueSend with no waiting: a queue that is full or not there is passed by.
Send(queue) == IF queue \in 0 .. QUEUE_LENGTH - 1 THEN queue + 1 ELSE queue

sendToEndpoints(result) ==
    /\ mqttQueue' = Send(mqttQueue)
    /\ websocketQueue' = Send(websocketQueue)
    /\ last' = result
    /\ spent' = spent \cup {result.over[i] : i \in DOMAIN result.over}
    /\ waiting' = 0

\* Mutation of Average: the sum is not cleared for the next window.
Average_keeps_sum ==
    /\ pc = "average"
    /\ sendToEndpoints([over |-> accum, by |-> pub.avg_cnt])
    /\ accum' = accum /\ avg_cnt_current' = 0
    /\ pc' = "line"
    /\ UNCHANGED <<pub, bytes_received, len, from, reading, saves, raced>>

Average ==
    /\ pc = "average"
    /\ sendToEndpoints([over |-> accum, by |-> pub.avg_cnt])
    /\ accum' = <<>> /\ avg_cnt_current' = 0
    /\ pc' = "line"
    /\ UNCHANGED <<pub, bytes_received, len, from, reading, saves, raced>>

\* A value that is not averaged, or a text.
Publish ==
    /\ pc = "publish"
    /\ sendToEndpoints([over |-> <<reading>>, by |-> 1])
    /\ pc' = "line"
    /\ UNCHANGED <<pub, accum, avg_cnt_current, bytes_received, len, from, reading, saves, raced>>

-----------------------------------------------------------------------------
(* The other tasks.                                                        *)

\* settings_save_fn writes the flash with both cores held.
SaveSettings ==
    /\ saves < MaxSaves
    /\ saves' = saves + 1
    /\ pub' \in Entries \ {pub}
    /\ raced' = (raced \/ pc # "line")
    /\ waiting' = 0
    /\ UNCHANGED <<accum, avg_cnt_current, pc, bytes_received, len, from, reading, queues, last, spent>>

\* mqtt_init and the task of the WebSocket server create their queues and
\* take one message at a time.
Served(queue) == IF queue = NONE THEN 0 ELSE queue - 1

MqttTask ==
    /\ mqttQueue # 0
    /\ mqttQueue' = Served(mqttQueue)
    /\ UNCHANGED <<pub, accum, avg_cnt_current, pc, bytes_received, len, from, reading,
                   websocketQueue, saves, raced, last, spent, waiting>>

WebsocketTask ==
    /\ websocketQueue # 0
    /\ websocketQueue' = Served(websocketQueue)
    /\ UNCHANGED <<pub, accum, avg_cnt_current, pc, bytes_received, len, from, reading,
                   mqttQueue, saves, raced, last, spent, waiting>>

Field == \/ FieldEnabled \/ FieldLength \/ FieldCopy \/ IsNum \/ Averaging \/ Add
         \/ Complete \/ Average \/ Publish

Next == Line \/ Field \/ SaveSettings \/ MqttTask \/ WebsocketTask

Spec == Init /\ [][Next]_vars

-----------------------------------------------------------------------------
\* data[SERIAL_BUFFERS_SIZE] always has room for the slice and its
\* terminator, also when the settings change between the statements that
\* compute the slice; and the slice lies inside the line that was received,
\* unless such a save fell between them.
SliceInBounds ==
    /\ pc \in {"copy", "is_num"} => len < SERIAL_BUFFERS_SIZE
    /\ from # NONE /\ ~raced /\ ~Simulated => from + len <= bytes_received

\* A result that no save interfered with divides by the number of readings
\* it is of, and no reading ever goes into two results.
AverageExact ==
    [][last' # last
         => /\ ~raced => last'.by = Len(last'.over)
            /\ \A i \in DOMAIN last'.over : last'.over[i] \notin spent]_vars

\* Averaging cannot get stuck on a changed avg_cnt: once the settings stay,
\* at most avg_cnt readings in a row go by without a result.
ResultsKeepComing == pc = "line" /\ pub.avg_cnt > 0 => waiting <= pub.avg_cnt
=============================================================================
