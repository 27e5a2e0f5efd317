---------------------------- MODULE MCLocalState ---------------------------
(* The files of Belay's home, for TLC: the store with its key file, the    *)
(* spool cursor, the MCP registries with their manifest, and the state of  *)
(* the update check.  They share no variable, so a behaviour is one of the *)
(* store, the spool, the registries or the update check: their product     *)
(* would say nothing more.                                                 *)
EXTENDS StoreOpening, SpoolTail, MCPConfig, UpdateCheck

VARIABLE part  \* the part of the home that this behaviour is about

homeVars == <<openVars, tailVars, mcpVars, updateVars, part>>

HomeInit ==
    /\ Init /\ TailInit /\ MCPInit /\ UpdateInit
    /\ \/ part = "store" /\ manifest.state = "missing" /\ \A t \in Targets : entry[t] = None
       \/ part \in {"spool", "update"} /\ plain = {} /\ manifest.state = "missing"
          /\ \A t \in Targets : entry[t] = None
       \/ part = "registries" /\ plain = {}

StoreStep == part = "store" /\ Next /\ UNCHANGED <<tailVars, mcpVars, updateVars, part>>
SpoolStep == part = "spool" /\ TailNext /\ UNCHANGED <<openVars, mcpVars, updateVars, part>>
RegistryStep ==
    part = "registries" /\ MCPNext /\ UNCHANGED <<openVars, tailVars, updateVars, part>>
UpdateStep == part = "update" /\ UpdateNext /\ UNCHANGED <<openVars, tailVars, mcpVars, part>>

HomeNext == StoreStep \/ SpoolStep \/ RegistryStep \/ UpdateStep
HomeSpec == HomeInit /\ [][HomeNext]_homeVars
=============================================================================
