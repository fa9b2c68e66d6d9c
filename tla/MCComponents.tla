---------------------------- MODULE MCComponents ----------------------------
(***************************************************************************)
(* Instances for TLC of ten components that share no state: a behaviour    *)
(* is one of SupervisedRuntime, of Channel, of Reminders, of Heartbeats,   *)
(* of TokenCache, of Sentinel, of Handoff, of ToolLoop, of AdapterTasks or *)
(* of AdapterDispatch, chosen at the start, while the others stay in their *)
(* initial states.  The states of the run are the sum of the ten, not      *)
(* their product.                                                          *)
(***************************************************************************)
EXTENDS SupervisedRuntime, Channel, Reminders, Heartbeats, TokenCache,
        Sentinel, Handoff, ToolLoop, AdapterTasks, AdapterDispatch

VARIABLE component

plugins == <<adapterTasks, dispatch>>

others == <<reminders, heartbeats, cache, sentinel, handoff, toolLoop, plugins>>

Init ==
    /\ component \in {"runtime", "channel", "reminders", "heartbeats", "cache", "sentinel",
                     "handoff", "toolLoop", "adapterTasks", "dispatch"}
    /\ SupervisorInit /\ ChannelInit /\ RemindersInit /\ HeartbeatsInit /\ CacheInit
    /\ SentinelInit /\ HandoffInit /\ ToolLoopInit /\ AdapterTasksInit /\ DispatchInit
    /\ component # "runtime" => broken = NoError
    /\ component # "channel" => own = {}
    /\ component # "sentinel" => ~streamEdits
    /\ component # "handoff" => options = [o \in DOMAIN options |-> FALSE]
    /\ component # "toolLoop" => vendor = "groq"

Next ==
    /\ \/ component = "runtime" /\ SupervisorNext /\ UNCHANGED <<channel, others>>
       \/ component = "channel" /\ ChannelNext /\ UNCHANGED <<supervisor, others>>
       \/ /\ component = "reminders" /\ RemindersNext
          /\ UNCHANGED <<supervisor, channel, heartbeats, cache, sentinel, handoff, toolLoop,
                         plugins>>
       \/ /\ component = "heartbeats" /\ HeartbeatsNext
          /\ UNCHANGED <<supervisor, channel, reminders, cache, sentinel, handoff, toolLoop,
                         plugins>>
       \/ /\ component = "cache" /\ CacheNext
          /\ UNCHANGED <<supervisor, channel, reminders, heartbeats, sentinel, handoff,
                         toolLoop, plugins>>
       \/ /\ component = "sentinel" /\ SentinelNext
          /\ UNCHANGED <<supervisor, channel, reminders, heartbeats, cache, handoff, toolLoop,
                         plugins>>
       \/ /\ component = "handoff" /\ HandoffNext
          /\ UNCHANGED <<supervisor, channel, reminders, heartbeats, cache, sentinel, toolLoop,
                         plugins>>
       \/ /\ component = "toolLoop" /\ ToolLoopNext
          /\ UNCHANGED <<supervisor, channel, reminders, heartbeats, cache, sentinel, handoff,
                         plugins>>
       \/ /\ component = "adapterTasks" /\ AdapterTasksNext
          /\ UNCHANGED <<supervisor, channel, reminders, heartbeats, cache, sentinel, handoff,
                         toolLoop, dispatch>>
       \/ /\ component = "dispatch" /\ DispatchNext
          /\ UNCHANGED <<supervisor, channel, reminders, heartbeats, cache, sentinel, handoff,
                         toolLoop, adapterTasks>>
    /\ UNCHANGED component

(* The fairness of each specification that states any, for its component.  *)
RuntimeFair ==
    /\ WF_supervisor(component = "runtime" /\ Pass)
    /\ WF_supervisor(component = "runtime" /\ BackoffElapses)
    /\ WF_supervisor(component = "runtime" /\ MonitorReports)
    /\ WF_supervisor(component = "runtime" /\ MonitorSees)

ChannelFair ==
    /\ WF_channel(component = "channel" /\ ThreadHands)
    /\ WF_channel(component = "channel" /\ LoopStarts)
    /\ WF_channel(component = "channel" /\ PushQueues)
    /\ WF_channel(component = "channel" /\ Emitter)

RemindersFair ==
    /\ WF_reminders(component = "reminders" /\ RunLoads)
    /\ WF_reminders(component = "reminders" /\ RunSaves)
    /\ \A p \in Policies :
        /\ WF_reminders(component = "reminders" /\ (RunFires(p) \/ RunIsRefused(p)))
        /\ SF_reminders(component = "reminders" /\ RunFires(p))

SentinelFair == WF_sentinel(component = "sentinel" /\ MentionWorker)

Spec ==
    /\ Init /\ [][Next]_<<supervisor, channel, others, component>>
    /\ RuntimeFair /\ ChannelFair /\ RemindersFair /\ SentinelFair

(* The types of the state of the ten; the queues of the channel and of the *)
(* sentinel are within their sizes.                                        *)
TypeOK ==
    /\ SupervisorTypeOK /\ ChannelTypeOK /\ RemindersTypeOK /\ HeartbeatsTypeOK
    /\ CacheTypeOK /\ SentinelTypeOK /\ HandoffTypeOK /\ ToolLoopTypeOK /\ AdapterTasksTypeOK
    /\ DispatchTypeOK
=============================================================================
