----------------------------- MODULE MCWebhooks -----------------------------
(* Instances of Webhooks for TLC. *)
EXTENDS Webhooks, TLC

\* Two events and one destination, which wants both.
MCWanted == Events \X Destinations

=============================================================================
