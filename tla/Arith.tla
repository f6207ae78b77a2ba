------------------------------- MODULE Arith -------------------------------
(***************************************************************************)
(* Integer arithmetic shared by every module.                              *)
(***************************************************************************)
EXTENDS Integers

MinOf(a, b) == IF a <= b THEN a ELSE b

\* Truncated subtraction.
Monus(a, b) == IF a >= b THEN a - b ELSE 0

\* ceil(a / b), as ceil_div in programs/oft/src/instructions/quote_send.rs.
CeilDiv(a, b) == (a + b - 1) \div b

=============================================================================
