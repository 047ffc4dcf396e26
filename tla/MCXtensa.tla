------------------------------ MODULE MCXtensa ------------------------------
(* Words with every op0, t and r, and registers and immediates at the ends *)
(* of their ranges, decoded at both ends of the address space.             *)
EXTENDS Xtensa

Ends == {0, 3, 15}

(* Third bytes: the op2 rows of the ALU table and one next to them, a      *)
(* non-zero op1, and immediates around the change of sign.                 *)
ThirdBytes == {0, 16, 32, 48, 128, 192, 144, 1, 127, 255}

MCWords ==
    {Rri8(op0, t, s, r, imm8) :
        op0 \in 0 .. 7, t \in 0 .. 15, s \in Ends, r \in 0 .. 15, imm8 \in ThirdBytes}
    \cup {Rrrn(op0, t, s, r) : op0 \in 8 .. 15, t \in 0 .. 15, s \in Ends, r \in 0 .. 15}

MCPcs == {1, 3, WORD - 4, WORD - 2}
=============================================================================
