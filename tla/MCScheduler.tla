----------------------------- MODULE MCScheduler -----------------------------
(* Instances of Scheduler for TLC. *)
EXTENDS Scheduler, TLC

CONSTANTS NumSchedules, Copies, Period, RetryDelay

MCSymmetry == Permutations(Servers)
MCSchedules == 1 .. NumSchedules
MCExecs == MCSchedules \X (1 .. Copies)
MCScheduleOf == [e \in MCExecs |-> e[1]]
MCInterval == [s \in MCSchedules |-> Period]
MCBackoff == [n \in 1 .. MaxAttempts |-> RetryDelay * 2 ^ (n - 1)]
MCStartBy[n \in 1 .. MaxAttempts] ==
  IF n = 1 THEN 2 * TxDelay ELSE MCStartBy[n - 1] + JobTimeout + MCBackoff[n - 1]

=============================================================================
