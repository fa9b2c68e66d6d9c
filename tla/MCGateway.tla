------------------------------ MODULE MCGateway ------------------------------
(***************************************************************************)
(* Instances for TLC of three parts of the Gateway that share no state     *)
(* here: a behaviour is one of ActivityChain, of GatewayProcesses or of    *)
(* PluginAgent, chosen at the start, while the other two stay in their     *)
(* initial states.                                                         *)
(***************************************************************************)
EXTENDS ActivityChain, GatewayProcesses, PluginAgent

VARIABLE part

(* Of the initial states of a part that is not chosen one is enough.       *)
GatewayInit ==
    /\ part \in {"log", "processes", "plugin"}
    /\ Init /\ ProcessesInit /\ PluginInit
    /\ part # "processes" => env = [p \in Pids |-> CHOOSE e \in Environments : TRUE]
    /\ part # "plugin" => supervised

GatewayNext ==
    /\ \/ part = "log" /\ Next /\ UNCHANGED <<processes, pluginAgent>>
       \/ part = "processes" /\ ProcessesNext /\ UNCHANGED <<vars, pluginAgent>>
       \/ part = "plugin" /\ PluginNext /\ UNCHANGED <<vars, processes>>
    /\ UNCHANGED part

(* The fairness of PluginSpec; the other two state none.                   *)
GatewaySpec ==
    /\ GatewayInit /\ [][GatewayNext]_<<vars, processes, pluginAgent, part>>
    /\ WF_pluginAgent(part = "plugin" /\ Poll)
    /\ WF_pluginAgent(part = "plugin" /\ Handler)
    /\ WF_pluginAgent(part = "plugin" /\ TimePasses)
=============================================================================
