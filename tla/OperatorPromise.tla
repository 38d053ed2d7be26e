-------------------------- MODULE OperatorPromise --------------------------
(***************************************************************************)
(* What the deployment of one node promises, whatever the passes over its  *)
(* network, the tiles, the memory levels and the kernel: before anything   *)
(* runs the network or the node may be refused; once it runs, bytes of its *)
(* outputs come to hold what the operator means, none of them is spoilt    *)
(* again, and it finishes only when all do.                                *)
(***************************************************************************)
VARIABLES wanted,   \* the bytes of the outputs that are not yet right
          state

promise == <<wanted, state>>

Init == state \in {"exported", "planned"}

(* The network is lowered, and a node of it is to be deployed. *)
Plan == state = "exported" /\ wanted = {} /\ state' = "planned"

(* The mapper that takes the node may leave optional outputs out. *)
Choose == state = "planned" /\ wanted' \subseteq wanted /\ UNCHANGED state

Refuse == state \in {"exported", "planned"} /\ state' = "refused" /\ UNCHANGED wanted

(* Some bytes are made right; those that were stay so. *)
Deliver ==
    /\ state \in {"planned", "running"}
    /\ state' = "running"
    /\ wanted' \subseteq wanted

Finish ==
    /\ state \in {"planned", "running"}
    /\ wanted' = {}
    /\ state' = "finished"

Next == Plan \/ Choose \/ Refuse \/ Deliver \/ Finish

Spec == Init /\ [][Next]_promise
=============================================================================
