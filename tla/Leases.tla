------------------------------- MODULE Leases -------------------------------
(***************************************************************************)
(* What a membership promises (docs/mesh-membership.md:93-99), without     *)
(* messages or time: an ID is held by at most one agent, no other agent    *)
(* takes it over while it is held, and no two held IDs share an instance   *)
(* or an endpoint.                                                         *)
(***************************************************************************)
CONSTANTS Agents, NoOne

VARIABLE holder     \* the agent that holds the lease of every ID, or NoOne

IDs == {a.id : a \in Agents}

Conflicts(a, b) == a.instance = b.instance \/ a.endpoint = b.endpoint

Init == holder = [x \in IDs |-> NoOne]

\* A free ID is claimed by an agent that shares nothing with the other holders.
Claim(a) ==
    /\ holder[a.id] = NoOne
    /\ \A x \in IDs : holder[x] # NoOne => ~Conflicts(holder[x], a)
    /\ holder' = [holder EXCEPT ![a.id] = a]

\* Leases end, several at once when time passes or the controller is lost.
End == \E ended \in SUBSET IDs :
         holder' = [x \in IDs |-> IF x \in ended THEN NoOne ELSE holder[x]]

Next == End \/ \E a \in Agents : Claim(a)

Spec == Init /\ [][Next]_holder
=============================================================================
