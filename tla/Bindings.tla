------------------------------- MODULE Bindings -------------------------------
(***************************************************************************)
(* What the users of the binding table may expect: it is a set of          *)
(* bindings.  Removing a group takes out exactly the bindings to it,       *)
(* whatever their cluster, and nothing else.                               *)
(***************************************************************************)
CONSTANTS Endpoints, Clusters, Groups, Devices

VARIABLE bound

Binding == [ep : Endpoints, cluster : Clusters, to : Groups \cup Devices]

Init == bound = {}

Bind(b) == bound' = bound \cup {b}

Unbind(b) == bound' = bound \ {b}

RemoveGroup(ep, g) == bound' = {b \in bound : b.ep # ep \/ b.to # g}

RemoveAllGroups(ep) == bound' = {b \in bound : b.ep # ep \/ b.to \notin Groups}

Next ==
    \/ \E b \in Binding : Bind(b)
    \/ \E b \in bound : Unbind(b)
    \/ \E ep \in Endpoints, g \in Groups : RemoveGroup(ep, g)
    \/ \E ep \in Endpoints : RemoveAllGroups(ep)

Spec == Init /\ [][Next]_bound

=============================================================================
