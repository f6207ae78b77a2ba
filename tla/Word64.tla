------------------------------- MODULE Word64 -------------------------------
(***************************************************************************)
(* The u64 word of the Solana program and Rust's Option.                   *)
(*                                                                         *)
(* The program is built with overflow-checks (Cargo.toml, profile          *)
(* release): a + b that does not fit aborts the instruction, so a checked  *)
(* operation is a guard of its action.  saturating_add and saturating_mul  *)
(* stop at MaxU64, which a check sets to a small number in order to reach  *)
(* it.                                                                     *)
(***************************************************************************)
EXTENDS Arith

CONSTANTS MaxU64,  \* u64::MAX
          None     \* the absent Option

ASSUME WordAssumption == MaxU64 \in Nat /\ None \notin Nat

Amounts == 0 .. MaxU64

Option(S) == S \cup {None}

SatAdd(a, b) == MinOf(a + b, MaxU64)
SatMul(a, b) == MinOf(a * b, MaxU64)

=============================================================================
