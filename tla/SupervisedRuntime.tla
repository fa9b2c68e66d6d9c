-------------------------- MODULE SupervisedRuntime --------------------------
(***************************************************************************)
(* A runtime the daemon runs as a child process (Hermes plugin, sentinel), *)
(* from ManagedAgentRuntime.start, stop and _record_setup_error            *)
(* (ax_cli/gateway_runtime.py) under GatewayDaemon._reconcile_registry.    *)
(*                                                                         *)
(* Each pass of the daemon works on a copy of the agent's row, starts or   *)
(* stops the child accordingly and saves the copy.  A start that fails is  *)
(* counted, delayed and, repeated MaxErrors times, gives the agent up      *)
(* until an operator starts it.  A monitor thread per child reports what   *)
(* became of it.  Operators and the daemon's death come in anywhere.       *)
(***************************************************************************)
EXTENDS Naturals, Sequences

CONSTANTS
    Errors,         \* what setup may fail with
    NoError,
    NoObject,       \* no ManagedAgentRuntime; no pass in progress
    MaxErrors,      \* SETUP_ERROR_MAX_CONSECUTIVE
    MaxCommands,    \* bound: commands of operators
    MaxExits,       \* bound: children that exit on their own
    MaxDeaths       \* bound: daemons killed

ASSUME ErrorAssumption ==
    NoError \notin Errors /\ MaxErrors \in Nat \ {0}

(* failed: last_runtime_error_at is set; count, sig and disabled: the      *)
(* consecutive_setup_errors, their signature and setup_disabled; shown and *)
(* status: effective_state and whether current_status is "error".          *)
Shown == {"stopped", "running", "error"}
AgentRecord == [desired : {"running", "stopped"}, request : Nat, failed : BOOLEAN,
                count : Nat, sig : Errors \cup {NoError}, disabled : BOOLEAN,
                shown : Shown, status : BOOLEAN]

(* child: the _supervised_process, 0 without; watched: the children that   *)
(* monitor threads of this object still look after.                        *)
RuntimeObject == [request : Nat, child : Nat, watched : SUBSET Nat,
                  count : Nat, sig : Errors \cup {NoError}, disabled : BOOLEAN,
                  shown : Shown, status : BOOLEAN]

ASSUME NoObjectAssumption ==
    /\ NoObject \notin RuntimeObject
    /\ NoObject \notin [loaded : AgentRecord, copy : AgentRecord, done : BOOLEAN]

VARIABLES
    agent,          \* the row in registry.json
    pass,           \* the daemon's pass in progress
    object,         \* the daemon's runtime object for the agent
    children,       \* what became of each child process, by birth
    broken,         \* what setup fails with at present
    cooling,        \* is the latest setup error younger than its backoff?
    up,             \* does the daemon run?
    commands, exits, deaths,    \* counters, for the bounds
    tries           \* history: failures of one kind since a start or success

supervisor == <<agent, pass, object, children, broken, cooling, up, commands, exits, deaths, tries>>

NoTries == [error |-> NoError, number |-> 0]

SupervisorInit ==
    /\ agent = [desired |-> "running", request |-> 0, failed |-> FALSE, count |-> 0,
                sig |-> NoError, disabled |-> FALSE, shown |-> "stopped", status |-> FALSE]
    /\ pass = NoObject
    /\ object = NoObject
    /\ children = <<>>
    /\ broken \in Errors \cup {NoError}
    /\ cooling = FALSE
    /\ up = TRUE
    /\ commands = 0 /\ exits = 0 /\ deaths = 0
    /\ tries = NoTries

Living(c) == c \in DOMAIN children /\ children[c] = "alive"

(* The children after stop() of the object: _stop_..._process ends the one *)
(* it holds, and the others are dead or not its own.                       *)
Ended(o, how) ==
    [c \in DOMAIN children |->
        IF o # NoObject /\ c = o.child /\ Living(c) THEN how ELSE children[c]]

-----------------------------------------------------------------------------
(* A pass of the daemon                                                    *)

(* load_gateway_registry at the head of the loop.                          *)
PassLoads ==
    /\ up /\ pass = NoObject
    /\ pass' = [loaded |-> agent, copy |-> agent, done |-> FALSE]
    /\ UNCHANGED <<agent, object, children, broken, cooling, up, commands, exits, deaths, tries>>

(* The pass takes the copy, the object and the children to these.          *)
ReconciledTo(copy, o, chs) ==
    /\ pass' = [pass EXCEPT !.copy = copy, !.done = TRUE]
    /\ object' = o
    /\ children' = chs

(* entry.update(runtime.snapshot()).                                       *)
WithSnapshot(copy, o) ==
    [copy EXCEPT !.count = o.count, !.sig = o.sig, !.disabled = o.disabled,
                 !.shown = o.shown, !.status = o.status]

(* A disabled row's object is stopped, and nothing else is done for it.    *)
PassSkips ==
    /\ pass # NoObject /\ ~pass.done
    /\ pass.copy.disabled
    /\ ReconciledTo(pass.copy, NoObject, Ended(object, "killed"))
    /\ UNCHANGED <<agent, broken, cooling, up, commands, exits, deaths, tries>>

PassStops ==
    /\ pass # NoObject /\ ~pass.done
    /\ ~pass.copy.disabled /\ pass.copy.desired = "stopped"
    /\ ReconciledTo([pass.copy EXCEPT !.shown = "stopped", !.status = FALSE],
                    NoObject, Ended(object, "killed"))
    /\ UNCHANGED <<agent, broken, cooling, up, commands, exits, deaths, tries>>

(* MUTATION of Current: a new object starts to count afresh.               *)
CurrentUncounted ==
    IF object # NoObject /\ object.request = pass.copy.request THEN object
    ELSE [request |-> pass.copy.request, child |-> 0, watched |-> {}, count |-> 0,
          sig |-> NoError, disabled |-> FALSE, shown |-> "stopped", status |-> FALSE]

(* The object start() is called on: a new one where there is none or where *)
(* a restart was requested since.                                          *)
Kept == object # NoObject /\ object.request = pass.copy.request
Current ==
    IF Kept THEN object
    ELSE [request |-> pass.copy.request, child |-> 0, watched |-> {}, count |-> pass.copy.count,
          sig |-> pass.copy.sig, disabled |-> pass.copy.disabled, shown |-> "stopped", status |-> FALSE]
ChildrenLeft == IF Kept THEN children ELSE Ended(object, "killed")

PassRuns ==
    /\ pass # NoObject /\ ~pass.done
    /\ ~pass.copy.disabled /\ pass.copy.desired = "running"

(* MUTATION of StartReturns: it does not look for a living child.          *)
StartReturnsBlindly == pass.copy.failed /\ cooling

(* MUTATION of StartReturns: an error delays for ever.                     *)
StartReturnsAfterError == (Kept /\ Living(object.child)) \/ pass.copy.failed

(* start() returns at once when its child lives or the backoff runs.       *)
StartReturns == (Kept /\ Living(object.child)) \/ (pass.copy.failed /\ cooling)

PassLeaves ==
    /\ PassRuns /\ StartReturns
    /\ ReconciledTo(WithSnapshot(pass.copy, Current), Current, ChildrenLeft)
    /\ UNCHANGED <<agent, broken, cooling, up, commands, exits, deaths, tries>>

(* _record_setup_error: the count, and giving up.                          *)
Recorded(o, error) ==
    LET count == IF o.sig = error THEN o.count + 1 ELSE 1
    IN  [o EXCEPT !.count = count, !.sig = error, !.disabled = @ \/ count >= MaxErrors,
                  !.shown = "error", !.status = TRUE]

PassFails ==
    /\ PassRuns /\ ~StartReturns
    /\ broken # NoError
    /\ LET o == Recorded(Current, broken)
       IN  ReconciledTo(WithSnapshot([pass.copy EXCEPT !.failed = TRUE], o), o, ChildrenLeft)
    /\ cooling' = TRUE
    /\ tries' = [error |-> broken, number |-> IF tries.error = broken THEN tries.number + 1 ELSE 1]
    /\ UNCHANGED <<agent, broken, up, commands, exits, deaths>>

(* MUTATION of Spawned: no new monitor while an old one has not returned.  *)
SpawnedUnwatched(o, c) ==
    [o EXCEPT !.child = c, !.watched = IF @ = {} THEN {c} ELSE @, !.count = 0, !.sig = NoError,
              !.disabled = FALSE, !.shown = "running", !.status = FALSE]

(* The child is spawned, the error state cleared, a monitor started.       *)
Spawned(o, c) ==
    [o EXCEPT !.child = c, !.watched = @ \cup {c}, !.count = 0, !.sig = NoError,
              !.disabled = FALSE, !.shown = "running", !.status = FALSE]

PassSpawns ==
    /\ PassRuns /\ ~StartReturns
    /\ broken = NoError
    /\ LET o == Spawned(Current, Len(children) + 1)
       IN  ReconciledTo(WithSnapshot([pass.copy EXCEPT !.failed = FALSE], o), o,
                        Append(ChildrenLeft, "alive"))
    /\ tries' = NoTries
    /\ UNCHANGED <<agent, broken, cooling, up, commands, exits, deaths>>

(* save_gateway_registry: of these fields only desired_state is taken from *)
(* the disk when another writer changed it.                                *)
PassSaves ==
    /\ pass # NoObject /\ pass.done
    /\ agent' = [pass.copy EXCEPT !.desired =
                    IF agent.desired # pass.loaded.desired THEN agent.desired ELSE pass.copy.desired]
    /\ pass' = NoObject
    /\ UNCHANGED <<object, children, broken, cooling, up, commands, exits, deaths, tries>>

-----------------------------------------------------------------------------
(* Monitors, children, time                                                *)

(* One look of a monitor thread: a living child is running, of a dead one  *)
(* it reports how it ended, and is done.                                   *)
MonitorLooks(c) ==
    /\ object # NoObject /\ c \in object.watched
    /\ object' = IF Living(c) THEN [object EXCEPT !.shown = "running"]
                 ELSE [object EXCEPT !.watched = @ \ {c}, !.status = children[c] # "exited",
                                     !.shown = IF children[c] = "exited" THEN "stopped" ELSE "error"]
    /\ UNCHANGED <<agent, pass, children, broken, cooling, up, commands, exits, deaths, tries>>

ChildExits(c) ==
    /\ Living(c) /\ exits < MaxExits
    /\ \E how \in {"exited", "crashed"} : children' = [children EXCEPT ![c] = how]
    /\ exits' = exits + 1
    /\ UNCHANGED <<agent, pass, object, broken, cooling, up, commands, deaths, tries>>

(* A script, binary or token file goes missing or comes back.              *)
SetupChanges ==
    /\ broken' \in (Errors \cup {NoError}) \ {broken}
    /\ UNCHANGED <<agent, pass, object, children, cooling, up, commands, exits, deaths, tries>>

BackoffElapses ==
    /\ cooling
    /\ cooling' = FALSE
    /\ UNCHANGED <<agent, pass, object, children, broken, up, commands, exits, deaths, tries>>

-----------------------------------------------------------------------------
(* Operators                                                               *)

Commanded == commands < MaxCommands /\ commands' = commands + 1

Cleared(row) ==
    [row EXCEPT !.desired = "running", !.failed = FALSE, !.count = 0, !.sig = NoError, !.disabled = FALSE]

(* agents start; unhiding an agent that ran does the same.                 *)
OperatorStarts ==
    /\ Commanded
    /\ agent' = Cleared(agent)
    /\ tries' = NoTries
    /\ UNCHANGED <<pass, object, children, broken, cooling, up, exits, deaths>>

OperatorRestarts ==
    /\ Commanded /\ up
    /\ agent' = [Cleared(agent) EXCEPT !.request = commands']
    /\ tries' = NoTries
    /\ UNCHANGED <<pass, object, children, broken, cooling, up, exits, deaths>>

OperatorStops ==
    /\ Commanded
    /\ agent' = [agent EXCEPT !.desired = "stopped"]
    /\ UNCHANGED <<pass, object, children, broken, cooling, up, exits, deaths, tries>>

-----------------------------------------------------------------------------
(* The daemon                                                              *)

(* gateway stop, between passes: every runtime is stopped and the last     *)
(* snapshots are saved.                                                    *)
SupervisorStops ==
    /\ Commanded /\ up /\ pass = NoObject
    /\ agent' = LET row == [agent EXCEPT !.shown = "stopped"]
                IN  IF object = NoObject THEN row
                    ELSE WithSnapshot(row, [object EXCEPT !.shown = "stopped", !.status = FALSE])
    /\ children' = Ended(object, "killed")
    /\ object' = NoObject
    /\ up' = FALSE
    /\ UNCHANGED <<pass, broken, cooling, exits, deaths, tries>>

(* Killed anywhere: the children have sessions of their own and live on;   *)
(* what the pass did is not saved, and the row may show an older error.    *)
SupervisorDies ==
    /\ up /\ deaths < MaxDeaths
    /\ children' = [c \in DOMAIN children |-> IF Living(c) THEN "orphan" ELSE children[c]]
    /\ object' = NoObject
    /\ pass' = NoObject
    /\ cooling' \in {FALSE, cooling}
    /\ up' = FALSE
    /\ deaths' = deaths + 1
    /\ UNCHANGED <<agent, broken, commands, exits, tries>>

SupervisorStarts ==
    /\ ~up
    /\ up' = TRUE
    /\ UNCHANGED <<agent, pass, object, children, broken, cooling, commands, exits, deaths, tries>>

PassReconciles == PassSkips \/ PassStops \/ PassLeaves \/ PassFails \/ PassSpawns
Pass == PassLoads \/ PassReconciles \/ PassSaves

SupervisorNext ==
    \/ PassLoads \/ PassSkips \/ PassStops \/ PassLeaves \/ PassFails \/ PassSpawns \/ PassSaves
    \/ \E c \in DOMAIN children : MonitorLooks(c) \/ ChildExits(c)
    \/ SetupChanges \/ BackoffElapses
    \/ OperatorStarts \/ OperatorRestarts \/ OperatorStops
    \/ SupervisorStops \/ SupervisorDies \/ SupervisorStarts

MonitorReports == \E c \in DOMAIN children : ~Living(c) /\ MonitorLooks(c)
MonitorSees == \E c \in DOMAIN children : Living(c) /\ MonitorLooks(c)

(* The loop goes on while the daemon runs, monitors look every five        *)
(* seconds, and time passes.  Nobody need start a daemon again.            *)
SupervisorSpec ==
    /\ SupervisorInit /\ [][SupervisorNext]_supervisor
    /\ WF_supervisor(Pass) /\ WF_supervisor(BackoffElapses)
    /\ WF_supervisor(MonitorReports) /\ WF_supervisor(MonitorSees)

-----------------------------------------------------------------------------
(* Properties                                                              *)

SupervisorTypeOK ==
    /\ agent \in AgentRecord
    /\ pass \in [loaded : AgentRecord, copy : AgentRecord, done : BOOLEAN] \cup {NoObject}
    /\ object \in RuntimeObject \cup {NoObject}
    /\ children \in Seq({"alive", "exited", "crashed", "killed", "orphan"})
    /\ broken \in Errors \cup {NoError}
    /\ cooling \in BOOLEAN /\ up \in BOOLEAN
    /\ commands \in Nat /\ exits \in Nat /\ deaths \in Nat
    /\ tries \in [error : Errors \cup {NoError}, number : Nat]

(* The daemon has one living child for the agent, the one its runtime      *)
(* object holds and can stop.                                              *)
OneChild == \A c \in DOMAIN children : Living(c) => object # NoObject /\ object.child = c

(* A setup that keeps failing in one way is tried MaxErrors times and then *)
(* given up; only a daemon killed before it saved a try allows one more.   *)
GivesUp == tries.number <= MaxErrors + deaths

Failing(e) == broken = e /\ up /\ agent.desired = "running" /\ \A c \in DOMAIN children : ~Living(c)

(* Giving up comes: when setup fails in one way for good, the agent is     *)
(* disabled, whatever was started, stopped or killed before.               *)
BrokenIsDisabled == \A e \in Errors : <>[]Failing(e) => <>[]agent.disabled

(* A child that lives on is in the end shown running, though monitors of   *)
(* its dead predecessors report after it was started.                      *)
ChildShown == <>[](\E c \in DOMAIN children : Living(c)) => <>[](agent.shown = "running")

(* REFUTED.  Who was given up failed MaxErrors times since the operator    *)
(* started him: the object keeps its count when the row's is cleared, so a *)
(* start between two passes buys one try, and one during a pass none.      *)
GivenUpAfterAll == agent.disabled => tries.number >= MaxErrors

(* REFUTED.  The error a dead child's monitor reports does not outlive it: *)
(* reported after the restart, it stays, for the new child's monitor sets  *)
(* effective_state and leaves current_status.                              *)
StatusRecovers == <>[](\E c \in DOMAIN children : Living(c)) => <>[](~agent.status)

(* REFUTED.  A stop reaches the agent's processes: children of a daemon    *)
(* that was killed are nobody's, and a second child runs beside them.      *)
StopReachesAll ==
    <>[](up /\ agent.desired = "stopped")
        => <>[](\A c \in DOMAIN children : children[c] \notin {"alive", "orphan"})
=============================================================================
