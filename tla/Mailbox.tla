------------------------------- MODULE Mailbox -------------------------------
(***************************************************************************)
(* The mailbox of one pass-through (passive) agent: pending.json and the   *)
(* backlog_depth of its registry row.                                      *)
(*                                                                         *)
(* The listener thread of the agent's runtime, in the daemon, appends what *)
(* it hears upstream.  Acks, replies and inbox polls, in the UI server or  *)
(* a command of their own, take items out.  Every change is a load, some   *)
(* work and a save of the whole file, without a lock.  The upstream        *)
(* service keeps an unread mark of its own on every message; a poll lists  *)
(* upstream and may both mark what it lists and clear the file.            *)
(*                                                                         *)
(* The file is a count of items per message: the order of items tells no   *)
(* property here apart.  A load and save of the registry row is one step   *)
(* unless other work comes between (GatewayRegistry has those races).      *)
(***************************************************************************)
EXTENDS Integers, FiniteSets, FiniteSetsExt, Functions

CONSTANTS
    Messages,
    Callers,        \* threads and processes that ack, reply and poll
    NoMessage,      \* a send that is no reply; an idle listener
    Limit,          \* of messages an inbox poll lists
    MaxSwitches     \* bound: operator starts and stops

ASSUME MessageAssumption == NoMessage \notin Messages
ASSUME LimitAssumption == Limit \in Nat /\ MaxSwitches \in Nat

VARIABLES
    pending,        \* pending.json
    backlog,        \* backlog_depth of the registry row
    wanted,         \* desired_state is running
    switches,       \* counts the operator's starts and stops
    running,        \* the daemon runs the agent's listener
    seen,           \* _seen_ids of the listener
    listener,       \* the message it is appending and the file it has loaded
    tick,           \* the backlog_depth the daemon's poll has read; NoTick
    job,            \* what each caller is doing
    posted,         \* messages that are upstream
    unread,         \* and not marked read there
    reached,        \* history: what a poll has returned, or was acked or answered
    appended        \* history: what this listener has written to the file

daemonVars == <<running, seen, tick>>
upstreamVars == <<posted, unread>>
operatorVars == <<wanted, switches>>
vars == <<pending, backlog, operatorVars, daemonVars, listener, job, upstreamVars,
          reached, appended>>

Files == [Messages -> Nat]
EmptyFile == [m \in Messages |-> 0]
Holds(file, m) == file[m] > 0
Depth(file) == FoldFunction(+, 0, file)

(* The daemon is not between the load and the save of its poll.            *)
NoTick == -2

Idle == [step |-> "idle"]
NotAppending == [msg |-> NoMessage, copy |-> EmptyFile]

Init ==
    /\ pending = EmptyFile
    /\ backlog = 0
    /\ wanted \in BOOLEAN /\ switches = 0
    /\ running = FALSE /\ seen = {} /\ tick = NoTick
    /\ listener = NotAppending
    /\ job = [c \in Callers |-> Idle]
    /\ posted = {} /\ unread = {}
    /\ reached = {} /\ appended = {}

-----------------------------------------------------------------------------
(* The listener                                                            *)

(* Somebody mentions the agent upstream.                                   *)
Post(m) ==
    /\ m \notin posted
    /\ posted' = posted \cup {m}
    /\ unread' = unread \cup {m}
    /\ UNCHANGED <<pending, backlog, operatorVars, daemonVars, listener, job,
                   reached, appended>>

(* MUTATION of Receive: _seen_ids is not consulted.                        *)
ReceiveAgain(m) ==
    /\ running /\ listener.msg = NoMessage
    /\ m \in posted
    /\ seen' = seen \cup {m}
    /\ listener' = [msg |-> m, copy |-> pending]
    /\ UNCHANGED <<pending, backlog, operatorVars, running, tick, job, upstreamVars,
                   reached, appended>>

(* The stream may deliver a message again, also after a restart of the     *)
(* listener.                                                               *)
Receive(m) ==
    /\ running /\ listener.msg = NoMessage
    /\ m \in posted \ seen
    /\ seen' = seen \cup {m}
    /\ listener' = [msg |-> m, copy |-> pending]
    /\ UNCHANGED <<pending, backlog, operatorVars, running, tick, job, upstreamVars,
                   reached, appended>>

WithItem(file, m) == IF Holds(file, m) THEN file ELSE [file EXCEPT ![m] = 1]

(* append_agent_pending_message saves only when it has added an item.      *)
Append ==
    /\ listener.msg # NoMessage
    /\ LET file == WithItem(listener.copy, listener.msg)
       IN IF file # listener.copy
          THEN pending' = file /\ appended' = appended \cup {listener.msg}
          ELSE UNCHANGED <<pending, appended>>
    /\ listener' = NotAppending
    /\ UNCHANGED <<backlog, operatorVars, daemonVars, job, upstreamVars, reached>>

-----------------------------------------------------------------------------
(* The daemon's poll                                                       *)

OperatorSwitches ==
    /\ switches < MaxSwitches
    /\ switches' = switches + 1
    /\ wanted' = ~wanted
    /\ UNCHANGED <<pending, backlog, daemonVars, listener, job, upstreamVars,
                   reached, appended>>

(* MUTATION of Snapshot: the row's own depth, not that of the file.        *)
SnapshotOfRow == IF wanted THEN backlog ELSE 0

(* A running passive agent's row shows the depth of the file, a stopped    *)
(* one's shows 0.                                                          *)
Snapshot == IF wanted THEN Depth(pending) ELSE 0

(* A poll loads the registry and brings the runtime to the desired state;  *)
(* it also replaces a runtime whose row was rebound (_reconcile_runtime).  *)
(* A stop waits for the listener; a started listener has seen nothing.     *)
TickLoad ==
    /\ tick = NoTick
    /\ \E rebound \in BOOLEAN :
          /\ running /\ (rebound \/ ~wanted) => listener.msg = NoMessage
          /\ IF wanted /\ (rebound \/ ~running)
             THEN seen' = {} /\ appended' = {}
             ELSE UNCHANGED <<seen, appended>>
    /\ running' = wanted
    /\ tick' = Snapshot
    /\ UNCHANGED <<pending, backlog, operatorVars, listener, job, upstreamVars, reached>>

TickSave ==
    /\ tick # NoTick
    /\ backlog' = tick
    /\ tick' = NoTick
    /\ UNCHANGED <<pending, operatorVars, running, seen, listener, job, upstreamVars,
                   reached, appended>>

-----------------------------------------------------------------------------
(* Acks and replies                                                        *)

Become(c, next) == job' = [job EXCEPT ![c] = next]

Without(file, m) == [file EXCEPT ![m] = 0]

(* _ack_managed_agent_message loads the registry and the file, saves the   *)
(* file if that removes something, and saves the registry it had loaded.   *)
AckLoad(c, m) ==
    /\ job[c] = Idle
    /\ m \in posted
    /\ Become(c, [step |-> "ack", msg |-> m, copy |-> pending, row |-> backlog])
    /\ UNCHANGED <<pending, backlog, operatorVars, daemonVars, listener, upstreamVars,
                   reached, appended>>

AckSave(c) ==
    /\ job[c].step = "ack"
    /\ pending' = IF Holds(job[c].copy, job[c].msg)
                  THEN Without(job[c].copy, job[c].msg) ELSE pending
    /\ reached' = reached \cup {job[c].msg}
    /\ Become(c, [step |-> "row", row |-> job[c].row, then |-> "idle"])
    /\ UNCHANGED <<backlog, operatorVars, daemonVars, listener, upstreamVars, appended>>

(* _send_from_managed_agent: a stopped agent does not send; a send that is *)
(* a reply takes its message out of the file, then every send polls.       *)
SendLoad(c, m) ==
    /\ job[c] = Idle
    /\ wanted
    /\ m \in posted \cup {NoMessage}
    /\ Become(c, [step |-> "send", msg |-> m, copy |-> pending])
    /\ UNCHANGED <<pending, backlog, operatorVars, daemonVars, listener, upstreamVars,
                   reached, appended>>

SendSave(c) ==
    /\ job[c].step = "send"
    /\ LET m == job[c].msg
           rest == IF m = NoMessage THEN job[c].copy ELSE Without(job[c].copy, m)
       IN /\ pending' = IF m = NoMessage THEN pending ELSE rest
          /\ reached' = reached \cup ({m} \ {NoMessage})
          /\ Become(c, [step |-> "row", row |-> Depth(rest), then |-> "poll"])
    /\ UNCHANGED <<backlog, operatorVars, daemonVars, listener, upstreamVars, appended>>

(* The registry save that ends an ack, a reply or a marking poll.          *)
SaveRow(c) ==
    /\ job[c].step = "row"
    /\ backlog' = job[c].row
    /\ Become(c, IF job[c].then = "poll"
                 THEN [step |-> "load", onlyUnread |-> TRUE, mark |-> TRUE] ELSE Idle)
    /\ UNCHANGED <<pending, operatorVars, daemonVars, listener, upstreamVars, reached,
                   appended>>

-----------------------------------------------------------------------------
(* Inbox polls                                                             *)

(* _inbox_for_managed_agent: its own command, and the end of every send,   *)
(* which repeats it for a while if nothing comes of it.                    *)
ManagedPoll(c, onlyUnread, mark) ==
    /\ job[c] = Idle
    /\ Become(c, [step |-> "load", onlyUnread |-> onlyUnread, mark |-> mark])
    /\ UNCHANGED <<pending, backlog, operatorVars, daemonVars, listener, upstreamVars,
                   reached, appended>>

(* It loads the file before it lists: with unread_only the caller is given *)
(* only messages of that copy.                                             *)
ManagedPollLoad(c) ==
    /\ job[c].step = "load"
    /\ Become(c, [step |-> "list", onlyUnread |-> job[c].onlyUnread, mark |-> job[c].mark,
                  given |-> IF job[c].onlyUnread
                            THEN {m \in Messages : Holds(pending, m)} ELSE Messages])
    /\ UNCHANGED <<pending, backlog, operatorVars, daemonVars, listener, upstreamVars,
                   reached, appended>>

(* _local_session_inbox: the caller is given all that upstream lists.      *)
LocalPoll(c, onlyUnread, mark) ==
    /\ job[c] = Idle
    /\ Become(c, [step |-> "list", onlyUnread |-> onlyUnread, mark |-> mark,
                  given |-> Messages])
    /\ UNCHANGED <<pending, backlog, operatorVars, daemonVars, listener, upstreamVars,
                   reached, appended>>

(* GET /api/v1/messages: at most Limit messages, marked read if asked.     *)
Listing(onlyUnread) ==
    LET visible == IF onlyUnread THEN unread ELSE posted
    IN kSubset(IF Cardinality(visible) < Limit THEN Cardinality(visible) ELSE Limit, visible)

List(c) ==
    /\ job[c].step = "list"
    /\ \E listed \in Listing(job[c].onlyUnread) :
          /\ unread' = IF job[c].mark THEN unread \ listed ELSE unread
          /\ reached' = reached \cup (listed \cap job[c].given)
    /\ Become(c, IF job[c].mark THEN [step |-> "clear"] ELSE Idle)
    /\ UNCHANGED <<pending, backlog, operatorVars, daemonVars, listener, posted,
                   appended>>

(* The request upstream fails and the poll with it.                        *)
ListFails(c) ==
    /\ job[c].step = "list"
    /\ Become(c, Idle)
    /\ UNCHANGED <<pending, backlog, operatorVars, daemonVars, listener, upstreamVars,
                   reached, appended>>

Clear(c) ==
    /\ job[c].step = "clear"
    /\ pending' = EmptyFile
    /\ Become(c, [step |-> "row", row |-> 0, then |-> "idle"])
    /\ UNCHANGED <<backlog, operatorVars, daemonVars, listener, upstreamVars, reached,
                   appended>>

-----------------------------------------------------------------------------
(* Specification                                                           *)

Listener == Append \/ \E m \in Messages : Receive(m)

Daemon == TickLoad \/ TickSave

Caller(c) ==
    \/ \E m \in Messages : AckLoad(c, m)
    \/ \E m \in Messages \cup {NoMessage} : SendLoad(c, m)
    \/ AckSave(c) \/ SendSave(c) \/ SaveRow(c)
    \/ \E onlyUnread, mark \in BOOLEAN :
          ManagedPoll(c, onlyUnread, mark) \/ LocalPoll(c, onlyUnread, mark)
    \/ ManagedPollLoad(c) \/ List(c) \/ ListFails(c) \/ Clear(c)

Next ==
    \/ \E m \in Messages : Post(m)
    \/ Listener
    \/ Daemon
    \/ OperatorSwitches
    \/ \E c \in Callers : Caller(c)

Spec == Init /\ [][Next]_vars

(* The daemon polls every second and an append is a few local file         *)
(* operations; nothing is assumed of the callers.                          *)
FairSpec == Spec /\ WF_vars(Append) /\ WF_vars(TickLoad) /\ WF_vars(TickSave)

-----------------------------------------------------------------------------
(* Properties                                                              *)

(* Type correctness; depths are what Depth makes of a file.                *)
TypeOK ==
    /\ pending \in Files
    /\ wanted \in BOOLEAN /\ switches \in 0..MaxSwitches
    /\ running \in BOOLEAN
    /\ listener \in [msg : Messages \cup {NoMessage}, copy : Files]
    /\ DOMAIN job = Callers
    /\ seen \subseteq posted /\ appended \subseteq seen
    /\ unread \subseteq posted /\ reached \subseteq posted
    /\ posted \subseteq Messages

(* The file never holds a message twice, whatever loads and saves overlap: *)
(* append_agent_pending_message tests the copy it has loaded, and an       *)
(* overlapping save can put back only what a copy without repetitions      *)
(* holds.  A repeated item would be counted twice and survive no ack.      *)
NoDuplicates == \A m \in Messages : pending[m] <= 1

(* One run of the listener appends a message at most once, though the      *)
(* stream repeats it and acks, replies and polls take it out in between: a *)
(* message an agent has dealt with does not come back by redelivery.       *)
AppendedOnce ==
    [][\A m \in appended : Append => ~(listener.msg = m /\ pending' # pending)]_vars

(* Once nobody acks, replies or polls any more, the row of a running agent *)
(* comes to show the depth of the file and stays there, whatever stale     *)
(* depths overlapping acks, polls and daemon polls have saved before       *)
(* ("backlog_depth is read straight off the queue file").                  *)
BadgeSettles ==
    <>[](\A c \in Callers : job[c] = Idle)
        => <>[](running => backlog = Depth(pending))

(* What the listener has put in the mailbox stays there, unread upstream,  *)
(* or reaches somebody: it is shown by a poll, acked or replied to.  The   *)
(* docstring of _poll_managed_agent_inbox_after_send says that "every      *)
(* send-as-agent path should return inbound messages that arrived during   *)
(* the send".                                                              *)
NothingUnseen ==
    \A m \in appended :
        Holds(pending, m) \/ m \in unread \cup reached
=============================================================================
