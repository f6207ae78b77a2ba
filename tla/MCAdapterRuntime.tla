-------------------------- MODULE MCAdapterRuntime --------------------------
(* A small instance of AdapterRuntime for TLC. *)
EXTENDS AdapterRuntime, TLC

GuidSymmetry == Permutations(Guids)

NoTokenFees == {[bps |-> 0, max |-> 0]}

\* A limiter that a message of two exhausts.
OneLimit == {[capacity |-> 2, rate |-> 1]}

\* Wired, and all but the executor.
SomeWirings == {Libraries, Libraries \ {"executor"}}

\* Bound: nobody is made pauser or unpauser.
NoPausers == store.pauser = None /\ store.unpauser = None

=============================================================================
