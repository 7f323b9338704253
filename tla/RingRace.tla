------------------------------ MODULE RingRace ------------------------------
(***************************************************************************)
(* RingBuffer::push, called by the UART interrupt, and RingBuffer::pop,    *)
(* called by read_from_receive_buffer inside a critical section, statement *)
(* by statement.  current_size++ and current_size-- are a load and a store *)
(* each.                                                                   *)
(*                                                                         *)
(* main_task enables the interrupt on the core it runs on and the sensor's *)
(* task has no core affinity, so the build (configNUMBER_OF_CORES 2) can   *)
(* put the two on one core or on two.  taskENTER_CRITICAL disables the     *)
(* interrupts of its own core and takes locks that the interrupt handler   *)
(* does not take: it keeps a handler on the other core running.            *)
(***************************************************************************)
EXTENDS RingBuffer

CONSTANTS MaxPush,    \* bound: characters that arrive
          OneCore     \* TRUE: interrupt and task share a core

ASSUME RaceAssumption == MaxPush \in Nat /\ OneCore \in BOOLEAN

VARIABLES
    ring,       \* the ring
    isr,        \* where push is: "idle" when no interrupt is being served
    isr_reg,    \* push's copy of current_size
    sent,       \* characters that have arrived; the next one is sent + 1
    task,       \* where pop is: "outside" the critical section
    task_reg,   \* pop's copy of current_size
    item        \* pop's reference parameter

raceVars == <<ring, isr, isr_reg, sent, task, task_reg, item>>

RaceTypeOK ==
    /\ ring \in Ring(SERIAL_BUFFERS_SIZE, 0 .. MaxPush)
    /\ isr \in {"idle", "full?", "write", "pointer", "load", "save"}
    /\ isr_reg \in 0 .. SERIAL_BUFFERS_SIZE
    /\ sent \in 0 .. MaxPush
    /\ task \in {"outside", "empty?", "read", "pointer", "load", "save"}
    /\ task_reg \in 0 .. SERIAL_BUFFERS_SIZE
    /\ item \in 0 .. MaxPush

RaceInit ==
    /\ ring = NewRing(SERIAL_BUFFERS_SIZE, 0)
    /\ isr = "idle" /\ isr_reg = 0 /\ sent = 0
    /\ task = "outside" /\ task_reg = 0 /\ item = 0

-----------------------------------------------------------------------------
\* Mutation of IsrMayStart: the critical section does not hold it off.
IsrMayStart_always == TRUE

\* On one core the interrupt preempts the task outside its critical section
\* only, and the task does not run until the interrupt has returned.
IsrMayStart == OneCore => task = "outside"

TaskMayRun == OneCore => isr = "idle"

IsrGoes(from, to) == isr = from /\ isr' = to

IsrStart ==
    /\ IsrMayStart
    /\ sent < MaxPush
    /\ IsrGoes("idle", "full?")
    /\ sent' = sent + 1
    /\ UNCHANGED <<ring, isr_reg, task, task_reg, item>>

PushTest ==
    /\ isr = "full?"
    /\ isr' = IF is_full(ring) THEN "idle" ELSE "write"
    /\ UNCHANGED <<ring, isr_reg, sent, task, task_reg, item>>

PushWrite ==
    /\ IsrGoes("write", "pointer")
    /\ ring' = [ring EXCEPT !.buffer[ring.write_ptr] = sent]
    /\ UNCHANGED <<isr_reg, sent, task, task_reg, item>>

PushPointer ==
    /\ IsrGoes("pointer", "load")
    /\ ring' = [ring EXCEPT !.write_ptr = (@ + 1) % ring.capacity]
    /\ UNCHANGED <<isr_reg, sent, task, task_reg, item>>

PushLoad ==
    /\ IsrGoes("load", "save")
    /\ isr_reg' = ring.current_size
    /\ UNCHANGED <<ring, sent, task, task_reg, item>>

PushSave ==
    /\ IsrGoes("save", "idle")
    /\ ring' = [ring EXCEPT !.current_size = isr_reg + 1]
    /\ UNCHANGED <<isr_reg, sent, task, task_reg, item>>

-----------------------------------------------------------------------------
TaskGoes(from, to) == TaskMayRun /\ task = from /\ task' = to

EnterCritical ==
    /\ TaskGoes("outside", "empty?")
    /\ UNCHANGED <<ring, isr, isr_reg, sent, task_reg, item>>

PopTest ==
    /\ TaskMayRun /\ task = "empty?"
    /\ task' = IF is_empty(ring) THEN "outside" ELSE "read"
    /\ UNCHANGED <<ring, isr, isr_reg, sent, task_reg, item>>

PopRead ==
    /\ TaskGoes("read", "pointer")
    /\ item' = ring.buffer[ring.read_ptr]
    /\ UNCHANGED <<ring, isr, isr_reg, sent, task_reg>>

PopPointer ==
    /\ TaskGoes("pointer", "load")
    /\ ring' = [ring EXCEPT !.read_ptr = (@ + 1) % ring.capacity]
    /\ UNCHANGED <<isr, isr_reg, sent, task_reg, item>>

PopLoad ==
    /\ TaskGoes("load", "save")
    /\ task_reg' = ring.current_size
    /\ UNCHANGED <<ring, isr, isr_reg, sent, item>>

\* The loop of read_from_receive_buffer pops again, or the terminator or the
\* end of the array ends it and the critical section.
PopSave ==
    /\ \E next \in {"empty?", "outside"} : TaskGoes("save", next)
    /\ ring' = [ring EXCEPT !.current_size = task_reg - 1]
    /\ UNCHANGED <<isr, isr_reg, sent, task_reg, item>>

-----------------------------------------------------------------------------
Push == PushTest \/ PushWrite \/ PushPointer \/ PushLoad \/ PushSave

Pop == PopTest \/ PopRead \/ PopPointer \/ PopLoad \/ PopSave

RaceNext == IsrStart \/ Push \/ EnterCritical \/ Pop

RaceSpec == RaceInit /\ [][RaceNext]_raceVars

-----------------------------------------------------------------------------
(* Refinement: the queue's push happens when the count is saved, its pop   *)
(* when the item is read.                                                  *)

Popping == task \in {"pointer", "load", "save"}

QueueLen == IF Popping THEN ring.current_size - 1 ELSE ring.current_size

QueueHead == IF task = "pointer" THEN ring.read_ptr + 1 ELSE ring.read_ptr

Queue == [i \in 1 .. QueueLen |-> ring.buffer[(QueueHead + i - 1) % ring.capacity]]

F == INSTANCE Fifo WITH Capacity <- SERIAL_BUFFERS_SIZE,
                        Items    <- 0 .. MaxPush,
                        q        <- Queue

\* On one core push and pop, taken statement by statement, implement the
\* bounded queue: nothing is lost, duplicated or reordered.
ImplementsFifo == F!Spec
=============================================================================
