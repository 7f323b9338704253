---------------------------- MODULE SensorProofs ----------------------------
(***************************************************************************)
(* The slice of a field, the readings of an average and the flow of        *)
(* results of src/sensor.cpp, for every buffer, every set of settings and  *)
(* any number of saves and readings.                                       *)
(***************************************************************************)
EXTENDS Sensor, TLAPS

B == SERIAL_BUFFERS_SIZE
N == pub.avg_cnt

(* What the state holds, as far as the argument needs it. *)
Types ==
    /\ pub \in Entries
    /\ accum \in Seq(Nat)
    /\ avg_cnt_current \in Nat
    /\ bytes_received \in 0 .. B
    /\ len \in Nat
    /\ from \in Nat \cup {NONE}
    /\ reading \in Nat
    /\ spent \subseteq Nat
    /\ waiting \in Nat

(* Where the slice stands: nothing is copied before its place and length   *)
(* are known, and both lie in the line unless a save fell between the test *)
(* of Skip and the copy.                                                   *)
Slice ==
    /\ pc \in {"enabled", "length", "copy"} => from = NONE
    /\ pc = "length" /\ ~raced => ~Skip
    /\ pc = "copy" /\ ~raced /\ ~Simulated => pub.start + len <= bytes_received
    /\ SliceInBounds

(* The steps of a field before its reading is added up or published. *)
InHand == pc \in {"enabled", "length", "copy", "is_num", "avg_cnt", "add", "publish"}

(* The readings added up are counted, were not published, and the one in   *)
(* hand is not among them nor among the published ones.                    *)
Readings ==
    /\ Len(accum) = avg_cnt_current
    /\ pc = "average" /\ ~raced => avg_cnt_current = N
    /\ \A i \in 1 .. Len(accum) : accum[i] <= reading /\ accum[i] \notin spent
    /\ InHand => \A i \in 1 .. Len(accum) : accum[i] < reading
    /\ \A r \in spent : r <= reading
    /\ pc # "line" => \A r \in spent : r < reading

(* How long the field has waited for a result, from the readings counted:  *)
(* between two fields, between the copy and the sum, and after the sum.  A *)
(* count of N + 1 is what a lowered avg_cnt leaves behind: one more        *)
(* reading notices it.                                                     *)
Waits ==
    N > 0 =>
        /\ pc \in {"line", "enabled", "length", "copy"} =>
              \/ waiting = 0
              \/ waiting = 1 /\ avg_cnt_current = N + 1
              \/ avg_cnt_current \in 1 .. N - 1 /\ waiting <= avg_cnt_current + 1
        /\ pc \in {"is_num", "avg_cnt", "add"} =>
              \/ waiting <= 1
              \/ waiting = 2 /\ avg_cnt_current = N + 1
              \/ avg_cnt_current \in 1 .. N - 1 /\ waiting <= avg_cnt_current + 2
        /\ pc = "complete" =>
              \/ waiting = 0
              \/ waiting = 1 /\ avg_cnt_current \in 1 .. N + 1
              \/ avg_cnt_current \in 1 .. N /\ waiting <= avg_cnt_current + 1

IInv == Types /\ Slice /\ Readings /\ Waits

-----------------------------------------------------------------------------
LEMMA Fields ==
    ASSUME Types
    PROVE  /\ B \in Nat \ {0}
           /\ pub.start \in Nat /\ pub.end \in Nat /\ N \in Int
<1>1. pub \in [enabled : BOOLEAN, simulate_values : BOOLEAN, start : 0 .. 2 ^ 16 - 1,
              end : 0 .. 2 ^ 16 - 1, is_num : BOOLEAN, avg_cnt : Int]
  BY EntriesAssumption DEF Types
<1>2. pub.start \in 0 .. 2 ^ 16 - 1 /\ pub.end \in 0 .. 2 ^ 16 - 1 /\ pub.avg_cnt \in Int
  BY <1>1
<1> QED BY <1>2, SizeAssumption DEF B, N

(* A length as a size_t: what lies in range stays as it is. *)
LEMMA AsSizeNat ==
    ASSUME NEW n \in Int
    PROVE  AsSize(n) \in Nat /\ (n \in 0 .. 2 ^ 16 - 1 => AsSize(n) = n)
BY DEF AsSize

LEMMA InitIInv == Init => IInv
<1> SUFFICES ASSUME Init PROVE IInv
  OBVIOUS
<1>1. Types
  BY SizeAssumption DEF Init, Types, B
<1>2. Slice
  BY DEF Init, Slice, SliceInBounds, NONE
<1>3. Readings
  BY DEF Init, Readings, InHand
<1>4. Waits
  BY DEF Init, Waits
<1> QED BY <1>1, <1>2, <1>3, <1>4 DEF IInv

LEMMA LineStep ==
    ASSUME IInv, Line
    PROVE  IInv'
<1> USE Fields DEF IInv
<1>1. /\ pc = "line" /\ pc' = "enabled" /\ reading' = reading + 1 /\ from' = NONE /\ len' = 0
      /\ UNCHANGED <<pub, accum, avg_cnt_current, spent, waiting>> /\ raced' = FALSE
      /\ bytes_received' \in 0 .. B
  BY DEF Line, B
<1>2. Types'
  BY <1>1 DEF Types
<1>3. Slice'
  BY <1>1 DEF Slice, SliceInBounds
<1>4. Readings'
  <2>1. \A i \in 1 .. Len(accum) : accum[i] \in Nat
    BY DEF Types
  <2> QED BY <1>1, <2>1 DEF Readings, InHand, Types, N
<1>5. Waits'
  BY <1>1 DEF Waits, N
<1> QED BY <1>2, <1>3, <1>4, <1>5

LEMMA EnabledStep ==
    ASSUME IInv, FieldEnabled
    PROVE  IInv'
<1> USE Fields DEF IInv
<1>1. /\ pc = "enabled" /\ pc' = IF Skip THEN "line" ELSE "length"
      /\ UNCHANGED <<pub, accum, avg_cnt_current, bytes_received, len, from, reading, raced, spent,
                     waiting>>
  BY DEF FieldEnabled
<1>2. Types'
  BY <1>1 DEF Types
<1>3. Slice'
  BY <1>1 DEF Slice, SliceInBounds, Skip, Simulated
<1>4. Readings'
  BY <1>1 DEF Readings, InHand, N
<1>5. Waits'
  BY <1>1 DEF Waits, N
<1> QED BY <1>2, <1>3, <1>4, <1>5

LEMMA LengthStep ==
    ASSUME IInv, FieldLength
    PROVE  IInv'
<1> USE Fields DEF IInv
<1>1. /\ pc = "length" /\ pc' \in {"line", "copy"} /\ len' = SliceLength
      /\ UNCHANGED <<pub, accum, avg_cnt_current, bytes_received, from, reading, raced, spent,
                     waiting>>
  BY DEF FieldLength
<1> DEFINE n == (IF ~Simulated /\ pub.end > bytes_received THEN bytes_received ELSE pub.end)
                     - pub.start
<1>2. n \in Int
  BY DEF Types
<1>3. SliceLength = IF AsSize(n) > B - 1 THEN B - 1 ELSE AsSize(n)
  BY DEF SliceLength, B
<1>4. SliceLength \in 0 .. B - 1
  BY <1>2, <1>3, AsSizeNat
<1>5. Types'
  BY <1>1, <1>4 DEF Types
<1>6. Slice'
  <2>1. ASSUME ~raced, ~Simulated
        PROVE  pub.start + SliceLength <= bytes_received
    <3>1. pub.end > pub.start /\ pub.start < bytes_received
      BY <1>1, <2>1 DEF Slice, Skip, Types
    <3>2. n \in 0 .. 2 ^ 16 - 1 /\ pub.start + n <= bytes_received
      <4>1. pub.end \in 0 .. 2 ^ 16 - 1
        BY EntriesAssumption DEF Types
      <4> QED BY <3>1, <2>1, <4>1 DEF Types
    <3>3. SliceLength <= n
      BY <1>2, <1>3, <3>2, AsSizeNat
    <3> QED BY <1>2, <1>4, <3>2, <3>3 DEF Types
  <2>2. from = NONE /\ from' = NONE
    BY <1>1 DEF Slice
  <2> QED BY <1>1, <1>4, <2>1, <2>2 DEF Slice, SliceInBounds, Simulated, B
<1>7. Readings'
  BY <1>1 DEF Readings, InHand, N
<1>8. Waits'
  BY <1>1 DEF Waits, N
<1> QED BY <1>5, <1>6, <1>7, <1>8

LEMMA CopyStep ==
    ASSUME IInv, FieldCopy
    PROVE  IInv'
<1> USE Fields DEF IInv
<1>1. /\ pc = "copy" /\ pc' = "is_num" /\ from' = (IF Simulated THEN 0 ELSE pub.start)
      /\ waiting' = waiting + 1
      /\ UNCHANGED <<pub, accum, avg_cnt_current, bytes_received, len, reading, raced, spent>>
  BY DEF FieldCopy
<1>2. Types'
  BY <1>1 DEF Types
<1>3. Slice'
  BY <1>1 DEF Slice, SliceInBounds, Simulated, Types
<1>4. Readings'
  BY <1>1 DEF Readings, InHand, N
<1>5. Waits'
  BY <1>1 DEF Waits, N, Types
<1> QED BY <1>2, <1>3, <1>4, <1>5

(* The tests of is_num, of avg_cnt and of the count. *)
LEMMA TestStep ==
    ASSUME IInv, IsNum \/ Averaging \/ Complete
    PROVE  IInv'
<1> USE Fields DEF IInv
<1>1. UNCHANGED <<pub, accum, avg_cnt_current, bytes_received, len, from, reading, raced, spent,
                  waiting>>
  BY DEF IsNum, Averaging, Complete
<1>2. \/ pc = "is_num" /\ pc' \in {"avg_cnt", "publish"}
      \/ pc = "avg_cnt" /\ pc' \in {"add", "publish"}
      \/ pc = "complete" /\ avg_cnt_current = N /\ pc' = "average"
      \/ pc = "complete" /\ avg_cnt_current # N /\ pc' = "line"
  BY DEF IsNum, Averaging, Complete, N
<1>3. Types'
  BY <1>1 DEF Types
<1>4. Slice'
  BY <1>1, <1>2 DEF Slice, SliceInBounds, Simulated
<1>5. Readings'
  BY <1>1, <1>2 DEF Readings, InHand, N
<1>6. Waits'
  BY <1>1, <1>2 DEF Waits, N, Types
<1> QED BY <1>3, <1>4, <1>5, <1>6

LEMMA AddStep ==
    ASSUME IInv, Add
    PROVE  IInv'
<1> USE Fields DEF IInv
<1> DEFINE base == IF Restart THEN <<>> ELSE accum
           count == IF Restart THEN 0 ELSE avg_cnt_current
<1>1. /\ pc = "add" /\ pc' = "complete" /\ accum' = Append(base, reading)
      /\ avg_cnt_current' = count + 1
      /\ UNCHANGED <<pub, bytes_received, len, from, reading, raced, spent, waiting>>
  BY DEF Add
<1>2. base \in Seq(Nat) /\ Len(base) = count
  BY DEF Types, Readings
<1>3. Types'
  <2>1. Append(base, reading) \in Seq(Nat)
    BY <1>2 DEF Types
  <2> QED BY <1>1, <1>2, <2>1 DEF Types
<1>4. Slice'
  BY <1>1 DEF Slice, SliceInBounds, Simulated
<1>5. Readings'
  <2>1. Len(accum') = avg_cnt_current'
    BY <1>1, <1>2 DEF Types
  <2>2. \A i \in 1 .. Len(base) : base[i] < reading /\ base[i] \notin spent /\ base[i] \in Nat
    BY <1>1 DEF Readings, InHand, Types
  <2>3. reading \notin spent /\ \A r \in spent : r < reading
    BY <1>1 DEF Readings, Types
  <2>4. \A i \in 1 .. Len(accum') : accum'[i] <= reading /\ accum'[i] \notin spent
    BY <1>1, <1>2, <2>2, <2>3 DEF Types
  <2> QED BY <1>1, <2>1, <2>3, <2>4 DEF Readings, InHand
<1>6. Waits'
  <2>1. N \in Int /\ waiting \in Nat /\ avg_cnt_current \in Nat
    BY DEF Types
  <2>2. Restart <=> avg_cnt_current > N
    BY DEF Restart, N
  <2> QED BY <1>1, <2>1, <2>2 DEF Waits, N
<1> QED BY <1>3, <1>4, <1>5, <1>6

LEMMA AverageStep ==
    ASSUME IInv, Average
    PROVE  IInv'
<1> USE Fields DEF IInv
<1>1. /\ pc = "average" /\ pc' = "line" /\ accum' = <<>> /\ avg_cnt_current' = 0
      /\ waiting' = 0 /\ UNCHANGED <<pub, bytes_received, len, from, reading, raced>>
      /\ spent' = spent \cup {accum[i] : i \in DOMAIN accum}
  BY DEF Average, sendToEndpoints
<1>2. \A r \in spent' : r \in Nat /\ r <= reading
  <2>1. \A i \in DOMAIN accum : accum[i] \in Nat /\ accum[i] <= reading
    BY DEF Types, Readings
  <2> QED BY <1>1, <2>1 DEF Types, Readings
<1>3. Types'
  <2>1. spent' \subseteq Nat /\ <<>> \in Seq(Nat)
    BY <1>2
  <2> QED BY <1>1, <2>1 DEF Types
<1>4. Slice'
  BY <1>1 DEF Slice, SliceInBounds, Simulated
<1>5. Readings'
  BY <1>1, <1>2 DEF Readings, InHand
<1>6. Waits'
  BY <1>1 DEF Waits
<1> QED BY <1>3, <1>4, <1>5, <1>6

LEMMA PublishStep ==
    ASSUME IInv, Publish
    PROVE  IInv'
<1> USE Fields DEF IInv
<1>1. /\ pc = "publish" /\ pc' = "line" /\ waiting' = 0
      /\ UNCHANGED <<pub, accum, avg_cnt_current, bytes_received, len, from, reading, raced>>
      /\ spent' = spent \cup {<<reading>>[i] : i \in DOMAIN <<reading>>}
  BY DEF Publish, sendToEndpoints
<1>2. spent' = spent \cup {reading}
  BY <1>1
<1>3. Types'
  BY <1>1, <1>2 DEF Types
<1>4. Slice'
  BY <1>1 DEF Slice, SliceInBounds, Simulated
<1>5. Readings'
  <2>1. \A i \in 1 .. Len(accum) : accum[i] \in Nat /\ accum[i] < reading
    BY <1>1 DEF Types, Readings, InHand
  <2> QED BY <1>1, <1>2, <2>1 DEF Readings, InHand, Types
<1>6. Waits'
  BY <1>1 DEF Waits
<1> QED BY <1>3, <1>4, <1>5, <1>6

LEMMA SaveStep ==
    ASSUME IInv, SaveSettings
    PROVE  IInv'
<1> USE Fields DEF IInv
<1>1. /\ pub' \in Entries /\ raced' = (raced \/ pc # "line") /\ waiting' = 0
      /\ UNCHANGED <<accum, avg_cnt_current, pc, bytes_received, len, from, reading, spent>>
  BY DEF SaveSettings
<1>2. Types'
  BY <1>1 DEF Types
<1>3. Slice'
  BY <1>1 DEF Slice, SliceInBounds, Simulated
<1>4. Readings'
  BY <1>1 DEF Readings, InHand
<1>5. Waits'
  BY <1>1 DEF Waits
<1> QED BY <1>2, <1>3, <1>4, <1>5

(* The queues are no part of the invariant. *)
LEMMA OtherStep ==
    ASSUME IInv, MqttTask \/ WebsocketTask \/ UNCHANGED vars
    PROVE  IInv'
<1>1. UNCHANGED <<pub, accum, avg_cnt_current, pc, bytes_received, len, from, reading, raced, spent,
                  waiting>>
  BY DEF MqttTask, WebsocketTask, vars
<1> QED BY <1>1 DEF IInv, Types, Slice, SliceInBounds, Skip, Simulated, Readings, InHand, Waits, N

(* No step of the task, of a save or of the consumers leaves the invariant. *)
THEOREM Invariance == Spec => []IInv
<1>1. IInv /\ [Next]_vars => IInv'
  BY LineStep, EnabledStep, LengthStep, CopyStep, TestStep, AddStep, AverageStep, PublishStep,
     SaveStep, OtherStep DEF Next, Field
<1> QED BY InitIInv, <1>1, PTL DEF Spec

(* SliceInBounds (the memcpy of read_task): the slice and its terminator   *)
(* fit into data, and it lies in the line unless a save raced it, for      *)
(* every buffer size and all settings.                                     *)
THEOREM SliceStays == Spec => []SliceInBounds
<1>1. IInv => SliceInBounds
  BY DEF IInv, Slice
<1> QED BY Invariance, <1>1, PTL

(* ResultsKeepComing (avg_fields of process_and_publish): at most avg_cnt  *)
(* readings pass without a result once the settings stay.                  *)
THEOREM ResultsCome == Spec => []ResultsKeepComing
<1>1. IInv => ResultsKeepComing
  BY Fields DEF IInv, Waits, ResultsKeepComing, Types, N
<1> QED BY Invariance, <1>1, PTL

(* AverageExact (process_and_publish): an average no save interfered with  *)
(* divides by the number of readings it is of, and no reading goes into    *)
(* two results.                                                            *)
THEOREM AveragesExact == Spec => AverageExact
<1> DEFINE Exact == last' # last
                      => /\ ~raced => last'.by = Len(last'.over)
                         /\ \A i \in DOMAIN last'.over : last'.over[i] \notin spent
<1>1. IInv /\ [Next]_vars => [Exact]_vars
  <2> SUFFICES ASSUME IInv, Next, last' # last
               PROVE  Exact
    OBVIOUS
  <2> USE DEF IInv
  <2>1. Average \/ Publish
    BY DEF Next, Field, Line, FieldEnabled, FieldLength, FieldCopy, IsNum, Averaging, Add, Complete,
           SaveSettings, MqttTask, WebsocketTask
  <2>2. CASE Average
    <3>1. last' = [over |-> accum, by |-> N] /\ pc = "average"
      BY <2>2 DEF Average, sendToEndpoints, N
    <3>2. last'.over = accum /\ last'.by = N
      BY <3>1
    <3>3. ~raced => N = Len(accum)
      BY <3>1 DEF Readings
    <3>4. \A i \in DOMAIN accum : accum[i] \notin spent
      BY DEF Readings, Types
    <3> QED BY <3>2, <3>3, <3>4
  <2>3. CASE Publish
    <3>1. last' = [over |-> <<reading>>, by |-> 1] /\ pc = "publish"
      BY <2>3 DEF Publish, sendToEndpoints
    <3>2. last'.over = <<reading>> /\ last'.by = 1
      BY <3>1
    <3>3. reading \notin spent
      BY <3>1 DEF Readings, Types
    <3> QED BY <3>2, <3>3
  <2> QED BY <2>1, <2>2, <2>3
<1>2. Spec => [][Exact]_vars
  BY Invariance, <1>1, PTL DEF Spec
<1> QED BY <1>2 DEF AverageExact
=============================================================================
