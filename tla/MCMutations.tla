---------------------------- MODULE MCMutations ----------------------------
(* Instances of Mutations for TLC. *)
EXTENDS Mutations, TLC

CONSTANTS i1, i2, n1, n2, c1, c2

\* One network, switch or rule; the other ID is free.
MCStart == (i1 :> [name |-> n1, subnet |-> 1, pool |-> 1]) @@ (i2 :> Absent)

Ask(tool, target, subnet, pool, confirm) ==
  [tool |-> tool, target |-> target, change |-> [subnet |-> subnet, pool |-> pool],
   confirm |-> confirm]

Networks ==
  {Ask(create_network, n1, 2, 2, TRUE), Ask(create_network, n1, 1, 2, TRUE),
   Ask(update_network, n1, 2, 2, TRUE), Ask(update_network, n1, Keep, 2, TRUE),
   Ask(delete_network, n1, Keep, Keep, TRUE), Ask(delete_network, n1, Keep, Keep, FALSE)}

Others ==
  {Ask(set_device_port, i1, Keep, 2, TRUE),
   Ask(create_wlan, n2, 1, 1, TRUE), Ask(update_wlan, n1, 2, Keep, TRUE),
   Ask(create_port_forward, n2, 1, 1, TRUE), Ask(delete_port_forward, i1, Keep, Keep, TRUE),
   Ask(set_firewall_policy_enabled, i1, Keep, 2, TRUE),
   Ask(update_site_settings, i1, 2, Keep, TRUE),
   Ask(device_command, i1, Keep, Keep, TRUE)}

\* One call may be any of them, the other is one that meets all of them.
MCRequests ==
  (c1 :> (Networks \cup Others))
    @@ (c2 :> {Ask(update_network, n1, 2, 2, TRUE), Ask(set_device_port, i1, 2, Keep, TRUE)})

\* A call of a network tool alone.
MCNetworkRequests == c1 :> Networks

\* A setting is changed, or the object is deleted or given to the other ID.
MCEdits == {[name |-> n1, subnet |-> 2, pool |-> 1], Absent}

=============================================================================
