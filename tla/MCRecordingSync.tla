--------------------------- MODULE MCRecordingSync ---------------------------
(* Instances for TLC of the two ways in which master and nodes follow each other,
   RecordingSync and NodeRegistry: `unit` says which of them, which share no state,
   a behaviour belongs to. *)
EXTENDS RecordingSync, NodeRegistry

VARIABLE unit

UnitsInit ==
    /\ Init /\ RegistryInit
    /\ unit \in {"sync", "registry"}
    /\ unit = "registry" => \A n \in Nodes : ~active[n]

UnitsNext ==
    \/ unit = "sync" /\ Next /\ UNCHANGED <<registryVars, unit>>
    \/ unit = "registry" /\ RegistryNext /\ UNCHANGED <<vars, unit>>

UnitsSpec ==
    /\ UnitsInit /\ [][UnitsNext]_<<vars, registryVars, unit>>
    /\ \/ unit = "sync" /\ Fairness
       \/ unit = "registry" /\ RegistryFairness
==============================================================================
