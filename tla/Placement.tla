------------------------------- MODULE Placement -------------------------------
(***************************************************************************)
(* The space an agent works in: where the platform places it, what its row *)
(* of registry.json says, and which space's stream its runtime reads.      *)
(*                                                                         *)
(* `gateway agents move` (ax_cli/commands/gateway_agents.py) asks the      *)
(* platform and saves the answer; the runtime's listener applies the       *)
(* platform's placement events (ax_cli/gateway_entries.py); the daemon's   *)
(* poll rebinds the runtime where row and runtime differ, and saves the    *)
(* row it had loaded.  The space is not among the fields a save merges.    *)
(* One agent that is wanted running; the spaces of a row (current, active, *)
(* default) are one; a revert is a move; pins and the status "moving",     *)
(* which every poll overwrites, are left out.                              *)
(***************************************************************************)
EXTENDS Naturals

CONSTANTS
    Spaces,
    NoSpace,        \* none of Spaces: a listener that is not connected
    Nothing,        \* no runtime, no poll, no move
    MaxPlacements,  \* bound: placements by the platform
    MaxRestarts     \* bound: restarts of the daemon

(* revision: placement_revision, 0 where the row has none.                 *)
Place == [space : Spaces, revision : Nat]
BoundRuntime == [space : Spaces, revision : Nat, stream : Spaces \cup {NoSpace}]

VARIABLES
    platform,       \* the placement on record upstream
    events,         \* agent.placement.changed events that may still come
    place,          \* the row in registry.json
    bound,          \* the runtime: its entry, and the stream it reads
    poll,           \* the daemon's poll: its copy of the row
    mover,          \* a move: its copy, and what it asks for
    restarts        \* of the daemon, so far

placement == <<platform, events, place, bound, poll, mover, restarts>>

PlacementInit ==
    /\ \E s \in Spaces : platform = [space |-> s, revision |-> 0]
    /\ events = {}
    /\ place = platform
    /\ bound = Nothing /\ poll = Nothing /\ mover = Nothing
    /\ restarts = 0

(* The platform places the agent and tells those who listen.               *)
Placed(s) ==
    /\ platform.revision < MaxPlacements
    /\ platform' = [space |-> s, revision |-> platform.revision + 1]
    /\ events' = events \cup {platform'}

(* Somebody moves the agent upstream.                                      *)
PlatformPlaces ==
    /\ \E s \in Spaces \ {platform.space} : Placed(s)
    /\ UNCHANGED <<place, bound, poll, mover, restarts>>

-----------------------------------------------------------------------------
(* ax gateway agents move                                                  *)

(* A move to the space the row names already asks nobody.                  *)
MoveLoads(s) ==
    /\ mover = Nothing
    /\ mover' = [at |-> IF s = place.space THEN "save" ELSE "ask", copy |-> place, space |-> s]
    /\ UNCHANGED <<platform, events, place, bound, poll, restarts>>

MoveAsks ==
    /\ mover # Nothing /\ mover.at = "ask"
    /\ \/ Placed(mover.space) /\ mover' = [mover EXCEPT !.at = "read"]
       \/ mover' = Nothing /\ UNCHANGED <<platform, events>>
    /\ UNCHANGED <<place, bound, poll, restarts>>

(* The placement is read back, or that fails and it is what was asked.     *)
MoveReads ==
    /\ mover # Nothing /\ mover.at = "read"
    /\ \E s \in {platform.space, mover.space} : mover' = [mover EXCEPT !.at = "save", !.space = s]
    /\ UNCHANGED <<platform, events, place, bound, poll, restarts>>

MoveSaves ==
    /\ mover # Nothing /\ mover.at = "save"
    /\ place' = [mover.copy EXCEPT !.space = mover.space]
    /\ mover' = Nothing
    /\ UNCHANGED <<platform, events, bound, poll, restarts>>

-----------------------------------------------------------------------------
(* The daemon's poll                                                       *)

PlacePollLoads ==
    /\ poll = Nothing
    /\ poll' = [copy |-> place, done |-> FALSE]
    /\ UNCHANGED <<platform, events, place, bound, mover, restarts>>

(* restart_fields: a runtime of another space is stopped and a new one     *)
(* started; any other takes over the copy.                                 *)
PlacePollReconciles ==
    /\ poll # Nothing /\ ~poll.done
    /\ LET kept == bound # Nothing /\ bound.space = poll.copy.space
       IN  bound' = [space |-> poll.copy.space, revision |-> poll.copy.revision,
                     stream |-> IF kept THEN bound.stream ELSE NoSpace]
    /\ poll' = [poll EXCEPT !.done = TRUE]
    /\ UNCHANGED <<platform, events, place, mover, restarts>>

PlacePollSaves ==
    /\ poll # Nothing /\ poll.done
    /\ place' = poll.copy
    /\ poll' = Nothing
    /\ UNCHANGED <<platform, events, bound, mover, restarts>>

(* The daemon goes down and comes up.                                      *)
PlaceDaemonRestarts ==
    /\ bound # Nothing /\ restarts < MaxRestarts
    /\ bound' = Nothing /\ poll' = Nothing
    /\ restarts' = restarts + 1
    /\ UNCHANGED <<platform, events, place, mover>>

-----------------------------------------------------------------------------
(* The runtime's listener                                                  *)

(* connect_sse asks for the stream of the entry's space.                   *)
StreamConnects ==
    /\ bound # Nothing /\ bound.stream = NoSpace
    /\ bound' = [bound EXCEPT !.stream = bound.space]
    /\ UNCHANGED <<platform, events, place, poll, mover, restarts>>

StreamBreaks ==
    /\ bound # Nothing /\ bound.stream # NoSpace
    /\ bound' = [bound EXCEPT !.stream = NoSpace]
    /\ UNCHANGED <<platform, events, place, poll, mover, restarts>>

InSync(e) == bound.space = e.space /\ bound.revision >= e.revision

(* _apply_placement_event: the row is loaded, changed and saved, and the   *)
(* entry of the runtime follows; the stream stays what it is.              *)
EventApplied(e) ==
    /\ bound # Nothing /\ bound.stream # NoSpace
    /\ events' = events \ {e}
    /\ \/ InSync(e) /\ UNCHANGED <<place, bound>>
       \/ /\ ~InSync(e)
          /\ place' = e
          /\ bound' = [bound EXCEPT !.space = e.space, !.revision = e.revision]
    /\ UNCHANGED <<platform, poll, mover, restarts>>

PlacementNext ==
    \/ PlatformPlaces
    \/ \E s \in Spaces : MoveLoads(s)
    \/ MoveAsks \/ MoveReads \/ MoveSaves
    \/ PlacePollLoads \/ PlacePollReconciles \/ PlacePollSaves
    \/ PlaceDaemonRestarts
    \/ StreamConnects \/ StreamBreaks
    \/ \E e \in events : EventApplied(e)

(* The daemon polls, the listener connects.  Events may be lost, streams   *)
(* need not break.                                                         *)
PlacementSpec ==
    /\ PlacementInit /\ [][PlacementNext]_placement
    /\ WF_placement(PlacePollLoads) /\ WF_placement(PlacePollReconciles)
    /\ WF_placement(PlacePollSaves) /\ WF_placement(StreamConnects)

-----------------------------------------------------------------------------
(* Properties                                                              *)

PlacementTypeOK ==
    /\ platform \in Place /\ place \in Place
    /\ events \in SUBSET Place
    /\ restarts \in Nat
    /\ bound \in BoundRuntime \cup {Nothing}
    /\ poll # Nothing => poll.copy \in Place /\ poll.done \in BOOLEAN
    /\ mover # Nothing => /\ mover.at \in {"ask", "read", "save"}
                          /\ mover.copy \in Place /\ mover.space \in Spaces

(* Nothing that works on a copy runs ahead of the platform: no row, copy,  *)
(* runtime or event has a revision the platform has not given, and an      *)
(* event of its latest revision is its placement, so that applying it      *)
(* brings row and runtime to where the platform has the agent.             *)
RevisionsAreUpstream ==
    /\ place.revision <= platform.revision
    /\ bound # Nothing => bound.revision <= platform.revision
    /\ poll # Nothing => poll.copy.revision <= platform.revision
    /\ mover # Nothing => mover.copy.revision <= platform.revision
    /\ \A e \in events : /\ e.revision <= platform.revision
                         /\ e.revision = platform.revision => e = platform

(* "updates the agent's `active_space_id` in the registry and rebinds the  *)
(* runtime" (move-agent-to-new-space.md): a runtime whose row comes to     *)
(* name a space for good reads, at times, the stream of that space.  The   *)
(* event of a move overtakes the poll: the entry names the new space       *)
(* already, nothing seems to have changed, and the stream stays.           *)
StreamFollows ==
    \A s \in Spaces :
        <>[](place.space = s) => []<>(bound # Nothing /\ bound.stream = s)

(* REFUTED.  "gateway local registry is a view, never the source of truth" *)
(* (gateway_agents.py): a poll puts back the space an agent was moved      *)
(* from, and the platform's placement is nobody's.                         *)
RowIsAView == [][place'.space # place.space => place'.space = platform.space]_place
=============================================================================
