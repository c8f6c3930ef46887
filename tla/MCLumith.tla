------------------------------ MODULE MCLumith ------------------------------
(***************************************************************************)
(* Instances of Lumith for TLC.                                            *)
(***************************************************************************)
EXTENDS Lumith

MCWorkers == 1..2
MCOneWorker == {1}

\* socket_in with %u: each process has an address of its own.
MCOwnAddress == [w \in Workers |-> w]

MCNobody == {}
\* A process outside the gateway holds the address of worker 2.
MCForeign == {2}

MCParsable == {"numbered", "unnumbered"}
MCAllForms == AllForms
=============================================================================
