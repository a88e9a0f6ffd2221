--------------------------- MODULE PluginExclusion ---------------------------
(***************************************************************************)
(* What the load/prove gate of a PJRT client promises, free of how it      *)
(* keeps the promise (bridge/src/artifact.rs, the comments of `Gate`,      *)
(* `enter_load` and `enter_prove`): loads share the plugin, a prove has    *)
(* it alone, and once a prove has asked, no further load is let in before  *)
(* it.  There is no counter, no lock and no condition variable here.       *)
(***************************************************************************)
CONSTANTS Loads,   \* threads that load one program at a time
          Proves   \* threads that run one prove at a time

VARIABLES inside,  \* the threads that hold a pass of the gate
          asking   \* the proves that asked and do not hold one yet

vars == <<inside, asking>>

Init == inside = {} /\ asking = {}

JoinLoad(t) ==
    /\ t \in Loads \ inside
    /\ asking = {}
    /\ inside \subseteq Loads
    /\ inside' = inside \cup {t}
    /\ UNCHANGED asking

AskProve(t) ==
    /\ t \in Proves \ (inside \cup asking)
    /\ inside # {}
    /\ asking' = asking \cup {t}
    /\ UNCHANGED inside

\* A prove that asked before, or that finds the plugin free at once.
StartProve(t) ==
    /\ t \in Proves
    /\ inside = {}
    /\ inside' = {t}
    /\ asking' = asking \ {t}

Leave(t) ==
    /\ t \in inside
    /\ inside' = inside \ {t}
    /\ UNCHANGED asking

Next ==
    \/ \E t \in Loads : JoinLoad(t)
    \/ \E t \in Proves : AskProve(t) \/ StartProve(t)
    \/ \E t \in Loads \cup Proves : Leave(t)

Spec == Init /\ [][Next]_vars
=============================================================================
