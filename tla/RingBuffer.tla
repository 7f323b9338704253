----------------------------- MODULE RingBuffer -----------------------------
(***************************************************************************)
(* The character ring buffer of inc/ringbuffer.h as operators on a record: *)
(* the storage, its capacity, the two pointers and the element count.      *)
(* Each operator is one method and yields the ring that the method leaves  *)
(* behind: a push on a full ring returns false and changes nothing.        *)
(***************************************************************************)
EXTENDS Integers, Sequences

CONSTANT SERIAL_BUFFERS_SIZE    \* capacity of the ring, size of the reader's array

ASSUME SizeAssumption == SERIAL_BUFFERS_SIZE \in Nat \ {0}

Ring(capacity, Item) ==
    [buffer       : [0 .. capacity - 1 -> Item],
     capacity     : {capacity},
     read_ptr     : 0 .. capacity - 1,
     write_ptr    : 0 .. capacity - 1,
     current_size : 0 .. capacity]

\* RingBuffer(capacity): the storage comes from new char[] and is never
\* initialised; fill stands for whatever the heap held.
NewRing(capacity, fill) ==
    [buffer       |-> [i \in 0 .. capacity - 1 |-> fill],
     capacity     |-> capacity,
     read_ptr     |-> 0,
     write_ptr    |-> 0,
     current_size |-> 0]

is_empty(rb) == rb.current_size = 0

is_full(rb) == rb.current_size = rb.capacity

space_left(rb) == rb.capacity - rb.current_size

\* Mutation of push: the pointer moves before the item is written.
push_advances_first(rb, item) ==
    IF is_full(rb) THEN rb
    ELSE LET w == (rb.write_ptr + 1) % rb.capacity
         IN  [rb EXCEPT !.buffer[w]    = item,
                        !.write_ptr    = w,
                        !.current_size = @ + 1]

push(rb, item) ==
    IF is_full(rb) THEN rb
    ELSE [buffer       |-> [rb.buffer EXCEPT ![rb.write_ptr] = item],
          capacity     |-> rb.capacity,
          read_ptr     |-> rb.read_ptr,
          write_ptr    |-> (rb.write_ptr + 1) % rb.capacity,
          current_size |-> rb.current_size + 1]

\* Mutation of popN: the read pointer runs past the end of the storage.
popN_without_wrap(rb, n) ==
    [rb EXCEPT !.read_ptr = @ + n, !.current_size = @ - n]

\* n successful calls of pop.
popN(rb, n) ==
    [buffer       |-> rb.buffer,
     capacity     |-> rb.capacity,
     read_ptr     |-> (rb.read_ptr + n) % rb.capacity,
     write_ptr    |-> rb.write_ptr,
     current_size |-> rb.current_size - n]

reset(rb) ==
    [buffer       |-> rb.buffer,
     capacity     |-> rb.capacity,
     read_ptr     |-> 0,
     write_ptr    |-> 0,
     current_size |-> 0]

\* The items in the order pop returns them.
Contents(rb) ==
    [i \in 1 .. rb.current_size |-> rb.buffer[(rb.read_ptr + i - 1) % rb.capacity]]

\* The count agrees with the distance between the pointers: what makes
\* is_full and is_empty tell a full ring from an empty one.
Consistent(rb) == rb.write_ptr = (rb.read_ptr + rb.current_size) % rb.capacity
=============================================================================
