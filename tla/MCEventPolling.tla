--------------------------- MODULE MCEventPolling ---------------------------
(* Instances of EventPolling for TLC. *)
EXTENDS EventPolling

CONSTANTS net, cam

\* Every event is one of the Protect console.
MCSourceOf == [e \in Events |-> cam]

=============================================================================
