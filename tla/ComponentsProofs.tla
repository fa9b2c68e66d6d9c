--------------------------- MODULE ComponentsProofs ---------------------------
(***************************************************************************)
(* Proofs about MCComponents, in which one of ten components takes its     *)
(* steps while the others stay as they began.  A step of the whole is a    *)
(* step of each component or leaves it as it is: the invariants of         *)
(* StoresProofs and BridgesProofs hold together.                           *)
(***************************************************************************)
EXTENDS MCComponents, StoresProofs, BridgesProofs

ComponentsInv ==
    /\ SupervisorInv /\ ChannelInv /\ RemindersInv /\ HeartbeatsInv /\ CacheInv
    /\ SentinelInv /\ HandoffInv /\ ToolLoopInv /\ BeatsInv /\ DispatchInv

LEMMA ComponentsStart == Init => ComponentsInv
  <1> SUFFICES ASSUME Init PROVE ComponentsInv
    OBVIOUS
  <1>1. /\ SupervisorInit /\ ChannelInit /\ RemindersInit /\ HeartbeatsInit /\ CacheInit
        /\ SentinelInit /\ HandoffInit /\ ToolLoopInit /\ AdapterTasksInit /\ DispatchInit
    BY DEF Init
  <1>2. SupervisorInv /\ ChannelInv /\ RemindersInv /\ HeartbeatsInv /\ CacheInv
    BY <1>1, SupervisorStart, ChannelInitInv, RemindersInitInv, HeartbeatsStart, CacheInitInv
  <1>3. SentinelInv /\ HandoffInv /\ ToolLoopInv /\ BeatsInv /\ DispatchInv
    BY <1>1, SentinelInitInv, HandoffInitInv, ToolLoopInitInv, BeatsInit, DispatchInitInv
  <1> QED BY <1>2, <1>3 DEF ComponentsInv

(* A step of one is a stuttering step of the others.                       *)
LEMMA EachSteps ==
  ASSUME [Next]_<<supervisor, channel, others, component>>
  PROVE  /\ [SupervisorNext]_supervisor /\ [ChannelNext]_channel /\ [RemindersNext]_reminders
         /\ [HeartbeatsNext]_heartbeats /\ [CacheNext]_cache /\ [SentinelNext]_sentinel
         /\ [HandoffNext]_handoff /\ [ToolLoopNext]_toolLoop
         /\ [AdapterTasksNext]_adapterTasks /\ [DispatchNext]_dispatch
  BY DEF Next, others, plugins

LEMMA ComponentsStep ==
  ComponentsInv /\ [Next]_<<supervisor, channel, others, component>> => ComponentsInv'
  <1> SUFFICES ASSUME ComponentsInv, [Next]_<<supervisor, channel, others, component>>
               PROVE  ComponentsInv'
    OBVIOUS
  <1>1. (SupervisorInv /\ ChannelInv /\ RemindersInv /\ HeartbeatsInv /\ CacheInv)'
    BY EachSteps, SupervisorStep, ChannelStepInv, RemindersStep, HeartbeatsStep, CacheStepInv
    DEF ComponentsInv
  <1>2. (SentinelInv /\ HandoffInv /\ ToolLoopInv /\ BeatsInv /\ DispatchInv)'
    BY EachSteps, SentinelStepInv, HandoffStepInv, ToolLoopStepInv, BeatsStep, DispatchStepInv
    DEF ComponentsInv
  <1> QED BY <1>1, <1>2 DEF ComponentsInv

(* The ten components keep their types, and the queues of the channel and  *)
(* of the sentinel their sizes, whichever of them it is that runs.         *)
THEOREM ComponentsTypeCorrect == Spec => []TypeOK
  <1>1. ComponentsInv => TypeOK
    BY RemindersTyped, SentinelTyped, HandoffTyped
    DEF ComponentsInv, TypeOK, SupervisorInv, ChannelInv, HeartbeatsInv, CacheInv, ToolLoopInv,
        BeatsInv, DispatchInv
  <1> QED BY <1>1, ComponentsStart, ComponentsStep, PTL DEF Spec
=============================================================================
