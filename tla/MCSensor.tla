------------------------------ MODULE MCSensor ------------------------------
(***************************************************************************)
(* Two families of settings: windows of different lengths over a fixed     *)
(* slice, and slices inside, across and beyond the line with no averaging. *)
(***************************************************************************)
EXTENDS Sensor

Entry(en, sim, s, e, num, avg) ==
    [enabled |-> en, simulate_values |-> sim, start |-> s, end |-> e, is_num |-> num,
     avg_cnt |-> avg]

MCEntries ==
    {Entry(TRUE, sim, 0, 1, num, avg) : sim \in {FALSE}, num \in BOOLEAN, avg \in {0, 2, 3}}
        \cup {Entry(TRUE, sim, s, e, FALSE, 0) : sim \in BOOLEAN, s \in {0, 2, 3}, e \in {1, 3, 5}}
        \cup {Entry(FALSE, FALSE, 0, 1, TRUE, 2)}
=============================================================================
