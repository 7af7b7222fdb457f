---------------------------- MODULE MCDelivery ----------------------------
(***************************************************************************)
(* How a deploy gets to the edge: the clients that upload and publish, and *)
(* the routes the API writes.  The two share no state; a behaviour runs    *)
(* one of them.                                                            *)
(***************************************************************************)
EXTENDS DeployClient, RouteProjection, TLC

CONSTANTS c1, c2, b1, b2

VARIABLE part

MCFolder == (c1 :> {b1, b2}) @@ (c2 :> {b1, b2})

vars == <<part, clientVars, projectionVars>>

Init == part \in {"clients", "routes"} /\ ClientInit /\ ProjectionInit

Next ==
    /\ UNCHANGED part
    /\ \/ part = "clients" /\ ClientNext /\ UNCHANGED projectionVars
       \/ part = "routes" /\ ProjectionNext /\ UNCHANGED clientVars

\* The fairness of each part, while it is the one that runs.
Fairness ==
    /\ \A c \in Client : WF_clientVars(part = "clients" /\ Own(c))
    /\ \A c \in Sdk : WF_clientVars(part = "clients" /\ Settle(c))
    /\ \A r \in Handler : WF_projectionVars(part = "routes" /\ Serve(r))
    /\ WF_projectionVars(part = "routes" /\ Continue)

Spec == Init /\ [][Next]_vars /\ Fairness

(* The type invariants of both parts.                                      *)
DeliveryTypeOK == ClientTypeOK /\ ProjectionTypeOK
=============================================================================
