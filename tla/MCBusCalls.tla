----------------------------- MODULE MCBusCalls -----------------------------
(* A bus of two RAM words, two registers and one unmodelled peripheral word. *)
EXTENDS BusCalls

(* An IRAM word and the address after it, the last byte of DRAM, two bytes *)
(* of the FIFO register, STATUS, an unmodelled peripheral, and the top of  *)
(* the address space.                                                      *)
MCCallAddr == {160, 162, 163, 164, 115, 80, 81, 84, 88, 255}

(* The bytes 3, 2, 1, 0 and 1, 0, 0, 0 from the least significant up. *)
MCCallValue == {27, 1}

MCCallBlock == {<<0, 2>>, <<0, 0, 0, 0>>}

(* No action reads `reply', so states that differ in it alone behave alike; *)
(* the refinement is checked on every step all the same.                   *)
MCView == <<ram, uart, taken>>
=============================================================================
