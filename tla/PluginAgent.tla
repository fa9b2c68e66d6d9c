----------------------------- MODULE PluginAgent -----------------------------
(***************************************************************************)
(* An agent for which a Hermes plugin listens, run by the daemon           *)
(* (runtime_type hermes_plugin) or by hand: what its row says while the    *)
(* daemon polls, an operator commands and the plugin announces itself at   *)
(* the Gateway's UI server.  From _announce_external_agent_runtime and     *)
(* _set_managed_agent_desired_state of commands/gateway_lifecycle.py,      *)
(* GatewayDaemon._reconcile_runtime, annotate_runtime_health and the       *)
(* adapter's heartbeat_loop and disconnect.                                *)
(*                                                                         *)
(* Each request to the UI server has a thread that loads the registry,     *)
(* changes the row and saves it whole; so does the poll.  Of the fields    *)
(* here only desired_state is merged.  Ages are told apart at              *)
(* RUNTIME_STALE_AFTER_SECONDS; errors of setup, the daemon's end and      *)
(* attached sessions are left out.                                         *)
(***************************************************************************)
EXTENDS Naturals, FiniteSets

CONSTANTS
    NoPoll,
    NoObject,       \* the daemon has no ManagedAgentRuntime for the agent
    Unread,         \* the thread of an announcement has not loaded yet
    MaxCommands,    \* bound: commands of operators
    MaxExits,       \* bound: plugins that end on their own
    MaxPosts        \* bound: announcements in flight

ASSUME PluginBounds == MaxCommands \in Nat /\ MaxExits \in Nat /\ MaxPosts \in Nat

Desired == {"running", "stopped"}

(* shown: effective_state; fresh: last_seen_at is recent; ext:             *)
(* external_runtime_state; request: restart_requested_at.                  *)
Row == [desired : Desired, shown : {"running", "stale", "stopped"}, fresh : BOOLEAN,
        ext : {"none", "connected", "offline"}, request : Nat]

Announcement == [status : {"connected", "offline"}, loaded : Row \cup {Unread}]

ASSUME NoRowHere == Unread \notin Row

(* What snapshot() says, and the row whose restart_requested_at the object *)
(* was made with.                                                          *)
PluginObject == [request : Nat, shown : {"running", "stopped"}, fresh : BOOLEAN]

ASSUME NoObjectHere == NoObject \notin PluginObject

VARIABLES
    supervised,     \* does the daemon run the plugin?
    row,            \* the row in registry.json
    poll,           \* the daemon's poll in progress
    object,         \* its runtime object: request, and what snapshot() says
    plugin,         \* the plugin's process: none, up, ending
    posts,          \* announcements sent and not yet saved
    order,          \* history: what the operator asked for last
    commands, exits \* counters, for the bounds

pluginAgent == <<supervised, row, poll, object, plugin, posts, order, commands, exits>>

PluginInit ==
    /\ supervised \in BOOLEAN
    /\ row = [desired |-> "running", shown |-> "stopped", fresh |-> FALSE, request |-> 0,
              ext |-> IF supervised THEN "none" ELSE "offline"]
    /\ poll = NoPoll
    /\ object = NoObject
    /\ plugin = "none"
    /\ posts = {}
    /\ order = "start"
    /\ commands = 0 /\ exits = 0

-----------------------------------------------------------------------------
(* What a row means                                                        *)

(* MUTATION of Connected: a plugin that announced itself is connected.     *)
ConnectedOnce(r) == r.ext = "connected"

(* _external_runtime_connected                                             *)
Connected(r) == r.ext = "connected" /\ r.fresh

(* annotate_runtime_health: is the agent shown connected?                  *)
Live(r) ==
    \/ r.shown = "running" /\ r.fresh
    \/ r.desired # "stopped" /\ Connected(r)

(* What annotate_runtime_health makes of effective_state.                  *)
Annotated(r) ==
    [r EXCEPT !.shown = IF r.desired # "stopped" /\ Connected(r) THEN "running"
                        ELSE IF @ = "running" /\ ~r.fresh THEN "stale" ELSE @]

-----------------------------------------------------------------------------
(* The daemon's poll                                                       *)

PollLoads ==
    /\ poll = NoPoll
    /\ poll' = [desired |-> row.desired, copy |-> row, step |-> "loaded"]
    /\ UNCHANGED <<supervised, row, object, plugin, posts, order, commands, exits>>

Reconciling == poll # NoPoll /\ poll.step = "loaded"

ReconciledTo(r) == poll' = [poll EXCEPT !.copy = Annotated(r), !.step = "done"]

(* The external branch: a plugin run by hand is only looked at.            *)
PollLooks ==
    /\ Reconciling /\ ~supervised
    /\ ReconciledTo([poll.copy EXCEPT !.shown =
           IF poll.copy.desired = "running" /\ Connected(poll.copy) THEN "running"
           ELSE IF poll.copy.desired = "stopped" \/ poll.copy.ext = "offline" THEN "stopped"
           ELSE "stale"])
    /\ UNCHANGED <<supervised, row, object, plugin, posts, order, commands, exits>>

Unwanted ==
    object # NoObject /\ (poll.copy.desired = "stopped" \/ object.request # poll.copy.request)

(* runtime.stop(): SIGTERM, and within the poll it waits for the end.      *)
PollSignals ==
    /\ Reconciling /\ supervised /\ Unwanted
    /\ plugin' = IF plugin = "up" THEN "ending" ELSE plugin
    /\ poll' = [poll EXCEPT !.step = "waiting"]
    /\ UNCHANGED <<supervised, row, object, posts, order, commands, exits>>

(* The process has ended, or it has not in time and is killed.             *)
PollWaited ==
    /\ poll # NoPoll /\ poll.step = "waiting"
    /\ plugin' = "none"
    /\ object' = NoObject
    /\ poll' = [poll EXCEPT !.step = "loaded"]
    /\ UNCHANGED <<supervised, row, posts, order, commands, exits>>

PollStops ==
    /\ Reconciling /\ supervised /\ ~Unwanted
    /\ poll.copy.desired = "stopped"
    /\ ReconciledTo([poll.copy EXCEPT !.shown = "stopped"])
    /\ UNCHANGED <<supervised, row, object, plugin, posts, order, commands, exits>>

(* start(), then entry.update(runtime.snapshot()).                         *)
Running(o) == ReconciledTo([poll.copy EXCEPT !.shown = o.shown, !.fresh = o.fresh])

PollSpawns ==
    /\ Reconciling /\ supervised /\ ~Unwanted
    /\ poll.copy.desired = "running" /\ plugin = "none"
    /\ plugin' = "up"
    /\ object' = [request |-> poll.copy.request, shown |-> "running", fresh |-> TRUE]
    /\ Running(object')
    /\ UNCHANGED <<supervised, row, posts, order, commands, exits>>

PollLeaves ==
    /\ Reconciling /\ supervised /\ ~Unwanted
    /\ poll.copy.desired = "running" /\ plugin # "none"
    /\ Running(object)
    /\ UNCHANGED <<supervised, row, object, plugin, posts, order, commands, exits>>

(* save_gateway_registry of a row loaded with that desired_state.          *)
SavedOver(r, desired) ==
    row' = [r EXCEPT !.desired = IF row.desired # desired THEN row.desired ELSE @]

PollSaves ==
    /\ poll # NoPoll /\ poll.step = "done"
    /\ SavedOver(poll.copy, poll.desired)
    /\ poll' = NoPoll
    /\ UNCHANGED <<supervised, object, plugin, posts, order, commands, exits>>

(* One look of the monitor thread; the second branch is its last.          *)
MonitorLooks ==
    /\ object # NoObject /\ (poll # NoPoll => poll.step # "waiting")
    /\ \/ plugin # "none" /\ object' = [object EXCEPT !.shown = "running", !.fresh = TRUE]
       \/ /\ plugin = "none" /\ object.shown = "running"
          /\ object' = [object EXCEPT !.shown = "stopped", !.fresh = TRUE]
    /\ UNCHANGED <<supervised, row, poll, plugin, posts, order, commands, exits>>

-----------------------------------------------------------------------------
(* The plugin, and its announcements                                       *)

(* `hermes gateway run`, by hand.                                          *)
PluginStarts ==
    /\ ~supervised /\ plugin = "none"
    /\ plugin' = "up"
    /\ UNCHANGED <<supervised, row, poll, object, posts, order, commands, exits>>

(* Interrupted, or stopped with `hermes gateway stop`: disconnect begins.  *)
PluginEnds ==
    /\ plugin = "up" /\ exits < MaxExits
    /\ plugin' = "ending"
    /\ exits' = exits + 1
    /\ UNCHANGED <<supervised, row, poll, object, posts, order, commands>>

PluginDies ==
    /\ plugin = "up" /\ exits < MaxExits
    /\ plugin' = "none"
    /\ exits' = exits + 1
    /\ UNCHANGED <<supervised, row, poll, object, posts, order, commands>>

(* disconnect is over; what it announced may have been lost.               *)
PluginLeaves ==
    /\ plugin = "ending"
    /\ plugin' = "none"
    /\ UNCHANGED <<supervised, row, poll, object, posts, order, commands, exits>>

(* A heartbeat or an activity while it is up, "offline" in disconnect.     *)
PluginAnnounces ==
    /\ plugin # "none" /\ Cardinality(posts) < MaxPosts
    /\ posts' = posts \cup {[loaded |-> Unread,
                             status |-> IF plugin = "up" THEN "connected" ELSE "offline"]}
    /\ UNCHANGED <<supervised, row, poll, object, plugin, order, commands, exits>>

HandlerLoads(p) ==
    /\ p.loaded = Unread
    /\ posts' = (posts \ {p}) \cup {[p EXCEPT !.loaded = row]}
    /\ UNCHANGED <<supervised, row, poll, object, plugin, order, commands, exits>>

(* MUTATION of Announced: a heartbeat marks the agent live, whatever the   *)
(* operator asked for.                                                     *)
AnnouncedLive(r, status) ==
    IF status = "offline"
    THEN [r EXCEPT !.desired = "stopped", !.ext = "offline", !.shown = "stopped"]
    ELSE [r EXCEPT !.ext = "connected", !.fresh = TRUE, !.shown = "running"]

Announced(r, status) ==
    IF status = "offline"
    THEN [r EXCEPT !.desired = "stopped", !.ext = "offline", !.shown = "stopped"]
    ELSE [r EXCEPT !.ext = "connected", !.fresh = TRUE,
                   !.shown = IF r.desired = "stopped" THEN "stopped" ELSE "running"]

HandlerSaves(p) ==
    /\ p.loaded # Unread
    /\ SavedOver(Announced(p.loaded, p.status), p.loaded.desired)
    /\ posts' = posts \ {p}
    /\ UNCHANGED <<supervised, poll, object, plugin, order, commands, exits>>

-----------------------------------------------------------------------------
(* Operators, time                                                         *)

OperatorCommands(what, r) ==
    /\ commands < MaxCommands
    /\ commands' = commands + 1
    /\ order' = what
    /\ row' = r
    /\ UNCHANGED <<supervised, poll, object, plugin, posts, exits>>

OperatorStarts == OperatorCommands("start", [row EXCEPT !.desired = "running"])

OperatorRestarts ==
    OperatorCommands("start", [row EXCEPT !.desired = "running", !.request = commands'])

OperatorStops == OperatorCommands("stop", [row EXCEPT !.desired = "stopped"])

Aged(r) == [r EXCEPT !.fresh = FALSE]

(* What was seen recently was seen long ago, in every copy.                *)
TimePasses ==
    /\ row' = Aged(row)
    /\ poll' = IF poll = NoPoll THEN poll ELSE [poll EXCEPT !.copy = Aged(@)]
    /\ object' = IF object = NoObject THEN object ELSE Aged(object)
    /\ posts' = {IF p.loaded = Unread THEN p ELSE [p EXCEPT !.loaded = Aged(@)] : p \in posts}
    /\ UNCHANGED <<supervised, plugin, order, commands, exits>>

Poll ==
    \/ PollLoads \/ PollLooks \/ PollSignals \/ PollWaited \/ PollStops \/ PollSpawns
    \/ PollLeaves \/ PollSaves

Handler == \E p \in posts : HandlerLoads(p) \/ HandlerSaves(p)

PluginNext ==
    \/ Poll \/ MonitorLooks
    \/ PluginStarts \/ PluginEnds \/ PluginDies \/ PluginLeaves \/ PluginAnnounces
    \/ Handler
    \/ OperatorStarts \/ OperatorRestarts \/ OperatorStops \/ TimePasses

(* The daemon polls, threads of the UI server end, time passes.  A plugin  *)
(* need not announce itself.                                               *)
PluginSpec ==
    /\ PluginInit /\ [][PluginNext]_pluginAgent
    /\ WF_pluginAgent(Poll) /\ WF_pluginAgent(Handler) /\ WF_pluginAgent(TimePasses)

-----------------------------------------------------------------------------
(* Properties                                                              *)

PluginTypeOK ==
    /\ supervised \in BOOLEAN
    /\ row \in Row
    /\ poll \in [desired : Desired, copy : Row, step : {"loaded", "waiting", "done"}] \cup {NoPoll}
    /\ object \in PluginObject \cup {NoObject}
    /\ plugin \in {"none", "up", "ending"}
    /\ posts \subseteq Announcement
    /\ order \in {"start", "stop"}
    /\ commands \in Nat /\ exits \in Nat

(* No announcement and no poll that holds an older row makes a stopped     *)
(* agent wanted again: the row is wanted stopped from an operator's stop   *)
(* until an operator starts it.                                            *)
StopIsKept == order = "stop" => row.desired = "stopped"

(* The daemon does not forget a plugin it has started: while the process   *)
(* lives, there is an object to stop it by.                                *)
PluginIsHeld == supervised /\ plugin # "none" => object # NoObject

(* "Operator requested stop; external runtime heartbeats will not mark     *)
(* this agent live": after the operator's last stop no announcement, and   *)
(* no save of an older row, brings the agent back for good or again and    *)
(* again, and a plugin the daemon runs is gone.                            *)
StopHolds ==
    <>[](order = "stop") => <>[](~Live(row) /\ (supervised => plugin = "none"))

(* A plugin that died without a word is in the end no longer shown live,   *)
(* whatever rows were loaded while it lived.                               *)
DeadIsNotLive == <>[](plugin = "none") => <>[]~Live(row)

(* An agent that the operator asked to run, or to restart, runs on as long *)
(* as its plugin does not end by itself.                                   *)
StartHolds == <>[](order = "start") /\ supervised => <>[](plugin = "up")

(* REFUTED.  A plugin that is run by hand again is shown live when it      *)
(* announces itself: its own "offline" counts as an operator's stop.       *)
ReturnIsShown ==
    [][\A p \in posts :
         HandlerSaves(p) /\ p.status = "connected" /\ order = "start" => Live(row')]_pluginAgent
=============================================================================
