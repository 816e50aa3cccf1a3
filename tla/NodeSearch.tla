----------------------------- MODULE NodeSearch -----------------------------
(***************************************************************************)
(* LocalNode::isNodeInQuorum: the transitive search that decides whether a *)
(* node may ever matter to the local node.  It follows the quorum sets of  *)
(* the statements known of every node; the ones that cannot be looked up   *)
(* turn a negative answer into "maybe".                                    *)
(*                                                                         *)
(* An operator whose name ends in a word after "_" is a faulty variant of  *)
(* the definition that follows it, kept to show that a property notices.   *)
(***************************************************************************)
CONSTANTS
    Node,
    Self     \* mNodeID

VARIABLES
    target,     \* the node that is looked for
    known,      \* the nodes with an entry in the map of statements
    qsets,      \* per node, the nodes of every quorum set that qfun finds
    missing,    \* the nodes with a statement whose quorum set is not found
    backlog, visited,
    res,        \* "false" or "maybe"
    pc          \* "search", then the value returned

inputs == <<target, known, qsets, missing>>
vars == <<target, known, qsets, missing, backlog, visited, res, pc>>

Init ==
    /\ target \in Node
    /\ known \in SUBSET Node
    /\ qsets \in [Node -> SUBSET SUBSET Node]
    /\ missing \in SUBSET known
    /\ backlog = {Self}
    /\ visited = {}
    /\ res = "false"
    /\ pc = "search"

(* Nothing can be looked up for a node without an entry.                   *)
Links(c) == IF c \in known THEN UNION qsets[c] ELSE {}

Incomplete(c) == c \notin known \/ c \in missing

Found(c) ==
    /\ pc = "search"
    /\ c = target
    /\ pc' = "true"
    /\ UNCHANGED <<inputs, backlog, visited, res>>

(* A node without an entry is skipped in silence.                          *)
Visit_silent(c) ==
    /\ pc = "search"
    /\ c # target
    /\ visited' = visited \cup {c}
    /\ backlog' = (backlog \ {c}) \cup (Links(c) \ visited')
    /\ res' = IF c \in missing THEN "maybe" ELSE res
    /\ UNCHANGED <<inputs, pc>>

Visit(c) ==
    /\ pc = "search"
    /\ c # target
    /\ visited' = visited \cup {c}
    /\ backlog' = (backlog \ {c}) \cup (Links(c) \ visited')
    /\ res' = IF Incomplete(c) THEN "maybe" ELSE res
    /\ UNCHANGED <<inputs, pc>>

Return ==
    /\ pc = "search"
    /\ backlog = {}
    /\ pc' = res
    /\ UNCHANGED <<inputs, backlog, visited, res>>

(* The backlog is an unordered set: any of its nodes may come first.       *)
Next == (\E c \in backlog : Found(c) \/ Visit(c)) \/ Return

Spec == Init /\ [][Next]_vars /\ WF_vars(Next)

-----------------------------------------------------------------------------
TypeOK ==
    /\ target \in Node
    /\ known \in SUBSET Node
    /\ qsets \in [Node -> SUBSET SUBSET Node]
    /\ missing \in SUBSET Node
    /\ backlog \in SUBSET Node
    /\ visited \in SUBSET Node
    /\ res \in {"false", "maybe"}
    /\ pc \in {"search", "true", "false", "maybe"}

(* The sets of nodes that contain the local node and, with a node, all the *)
(* nodes of its known quorum sets: a node is reachable if it is in each.   *)
Closed(C) == Self \in C /\ \A c \in C : Links(c) \subseteq C

Reachable(n) == \A C \in SUBSET Node : Closed(C) => n \in C

(* isNodeInQuorum answers "true" exactly when the target is reachable, and *)
(* "false" rather than "maybe" exactly when nothing was missing about any  *)
(* node that the search depends on.                                        *)
SearchCorrect ==
    pc # "search" =>
        /\ pc = "true" <=> Reachable(target)
        /\ pc = "false" =>
                \A n \in Node : Reachable(n) => ~Incomplete(n)
        /\ pc = "maybe" =>
                \E n \in Node : Reachable(n) /\ Incomplete(n)

(* The search ends, whatever cycles the quorum sets form.                  *)
Terminates == <>(pc # "search")
=============================================================================
