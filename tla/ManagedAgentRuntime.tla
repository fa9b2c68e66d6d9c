------------------------- MODULE ManagedAgentRuntime -------------------------
(***************************************************************************)
(* One agent's runtime in the daemon, from start to after stop: class      *)
(* ManagedAgentRuntime of ax_cli/gateway_runtime.py.                       *)
(*                                                                         *)
(* A listener thread reads the agent's event stream and puts each new      *)
(* message on a bounded queue; a worker thread takes messages off it, runs *)
(* the agent's handler and posts the reply.  The daemon's main thread      *)
(* stops the two and waits for neither longer than five seconds, so both   *)
(* may still be at work when stop() returns.  The daemon then discards the *)
(* object: a new start of the agent is a new runtime with an empty queue.  *)
(*                                                                         *)
(* posts[m] is what the runtime posts about message m, in order: its       *)
(* processing statuses and, as "reply", the reply itself.  A status post   *)
(* is best effort, so an element of posts[m] is an attempt.                *)
(***************************************************************************)
EXTENDS Naturals, Sequences, FiniteSets

CONSTANTS
    Messages,       \* messages that reach the agent's stream, any number of times
    NoMessage,
    StopMark,       \* the None that stop() puts on the queue
    QueueSize

ASSUME MarkAssumption == NoMessage \notin Messages /\ StopMark \notin Messages
ASSUME QueueAssumption == QueueSize \in Nat \ {0}

VARIABLES
    blank,          \* messages that hold a mention of the agent and no more text
    stopEvent,
    stopping,       \* is the daemon inside stop()?  no, waiting, returned
    sendClient,     \* is _send_client set?
    queue,
    seen,           \* _seen_ids
    completedSeen,  \* _completed_seen_ids
    noReplySeen,    \* _no_reply_seen_ids
    lpc, lmsg,      \* the listener, and the message it is accepting
    wpc, wmsg,      \* the worker, and the message it is working on
    outcome,        \* of its handler: [text, declined]
    posts

listenerVars == <<lpc, lmsg>>
workerVars == <<wpc, wmsg, outcome>>
marks == <<blank, completedSeen, noReplySeen>>
vars == <<stopEvent, stopping, sendClient, queue, seen, marks, listenerVars,
          workerVars, posts>>

NoOutcome == [text |-> FALSE, declined |-> FALSE]

(* start(): the two threads begin with everything empty.                   *)
Init ==
    /\ blank \in SUBSET Messages
    /\ stopEvent = FALSE
    /\ stopping = "no"
    /\ sendClient = FALSE
    /\ queue = <<>>
    /\ seen = {} /\ completedSeen = {} /\ noReplySeen = {}
    /\ lpc = "top" /\ lmsg = NoMessage
    /\ wpc = "top" /\ wmsg = NoMessage /\ outcome = NoOutcome
    /\ posts = [m \in Messages |-> <<>>]

(* _publish_processing_status: makes itself a client when there is none,   *)
(* even after stop() has closed and dropped the runtime's.                 *)
Publish(m, status) ==
    /\ posts' = [posts EXCEPT ![m] = Append(@, status)]
    /\ sendClient' = TRUE

Posted(m, status) == \E i \in 1..Len(posts[m]) : posts[m][i] = status

-----------------------------------------------------------------------------
(* The listener: _listener_loop.                                           *)

ListenerTop ==
    /\ lpc = "top"
    /\ lpc' = IF stopEvent THEN "done" ELSE "dialing"
    /\ UNCHANGED <<stopEvent, stopping, sendClient, queue, seen, marks, lmsg,
                   workerVars, posts>>

Dial ==
    /\ lpc = "dialing"
    /\ lpc' = "stream"
    /\ sendClient' = TRUE
    /\ UNCHANGED <<stopEvent, stopping, queue, seen, marks, lmsg, workerVars, posts>>

(* An exception, wherever it strikes: the loop ends if the runtime is      *)
(* being stopped, or goes round; its sleep is time spent at the top.       *)
AfterError == IF stopEvent THEN "done" ELSE "top"

DialFails ==
    /\ lpc = "dialing"
    /\ lpc' = AfterError
    /\ sendClient' \in {sendClient, TRUE}
    /\ UNCHANGED <<stopEvent, stopping, queue, seen, marks, lmsg, workerVars, posts>>

(* The stream is cut, idles too long, or ends; stop() closes it too.       *)
StreamEnds ==
    /\ lpc = "stream"
    /\ lpc' \in {AfterError, "top"}
    /\ UNCHANGED <<stopEvent, stopping, sendClient, queue, seen, marks, lmsg,
                   workerVars, posts>>

Receive(m) ==
    /\ lpc = "stream" /\ ~stopEvent
    /\ m \notin seen
    /\ seen' = seen \cup {m}
    /\ lpc' = "claiming" /\ lmsg' = m
    /\ UNCHANGED <<stopEvent, stopping, sendClient, queue, marks, workerVars, posts>>

Enqueue ==
    /\ lpc = "claiming"
    /\ Len(queue) < QueueSize
    /\ queue' = Append(queue, lmsg)
    /\ lpc' = "claimed"
    /\ UNCHANGED <<stopEvent, stopping, sendClient, seen, marks, lmsg, workerVars, posts>>

BackToStream == lpc' = "stream" /\ lmsg' = NoMessage

(* The message is on the queue by now: the worker may have finished it.    *)
Announce ==
    /\ lpc = "claimed"
    /\ Publish(lmsg, "started")
    /\ BackToStream
    /\ UNCHANGED <<stopEvent, stopping, queue, seen, marks, workerVars>>

(* queue.Full: the message is dropped, and stays in the seen set.          *)
Drop ==
    /\ lpc = "claiming"
    /\ Len(queue) >= QueueSize
    /\ Publish(lmsg, "dropped")
    /\ BackToStream
    /\ UNCHANGED <<stopEvent, stopping, queue, seen, marks, workerVars>>

-----------------------------------------------------------------------------
(* The worker: _worker_loop.                                               *)

(* MUTATION of WorkerTop: the worker relies on the stop mark alone.        *)
WorkerTopIgnoresStop ==
    /\ wpc = "top"
    /\ wpc' = "getting"
    /\ UNCHANGED <<stopEvent, stopping, sendClient, queue, seen, marks,
                   listenerVars, wmsg, outcome, posts>>

WorkerTop ==
    /\ wpc = "top"
    /\ wpc' = IF stopEvent THEN "done" ELSE "getting"
    /\ UNCHANGED <<stopEvent, stopping, sendClient, queue, seen, marks,
                   listenerVars, wmsg, outcome, posts>>

GetNothing ==
    /\ wpc = "getting" /\ queue = <<>>
    /\ wpc' = "top"
    /\ UNCHANGED <<stopEvent, stopping, sendClient, queue, seen, marks,
                   listenerVars, wmsg, outcome, posts>>

(* A stop mark ends the loop, a message without a prompt is skipped.       *)
Get ==
    /\ wpc = "getting" /\ queue # <<>>
    /\ queue' = Tail(queue)
    /\ wmsg' = IF Head(queue) \in Messages \ blank THEN Head(queue) ELSE NoMessage
    /\ wpc' = CASE Head(queue) = StopMark -> "done"
                [] Head(queue) \in blank -> "top"
                [] OTHER -> "starting"
    /\ UNCHANGED <<stopEvent, stopping, sendClient, seen, marks, listenerVars,
                   outcome, posts>>

Prepare ==
    /\ wpc = "starting"
    /\ Publish(wmsg, "processing")
    /\ wpc' = "handling"
    /\ UNCHANGED <<stopEvent, stopping, queue, seen, marks, listenerVars, wmsg, outcome>>

(* The handler reports that it is done (at most once, as bridges must).    *)
BridgeCompletes ==
    /\ wpc = "handling"
    /\ ~Posted(wmsg, "completed")
    /\ completedSeen' = completedSeen \cup {wmsg}
    /\ Publish(wmsg, "completed")
    /\ UNCHANGED <<stopEvent, stopping, queue, seen, blank, noReplySeen, listenerVars, workerVars>>

(* The handler reports that it chose not to answer.                        *)
BridgeDeclines ==
    /\ wpc = "handling"
    /\ ~Posted(wmsg, "no_reply")
    /\ noReplySeen' = noReplySeen \cup {wmsg}
    /\ Publish(wmsg, "no_reply")
    /\ UNCHANGED <<stopEvent, stopping, queue, seen, blank, completedSeen, listenerVars, workerVars>>

(* MUTATION of MayReply: a reply is sent although the handler declined.    *)
MayReplyAlways(result) == result.text /\ sendClient

MayReply(result) == result.text /\ sendClient /\ ~result.declined

(* _handle_prompt returns, with a text to send or without.                 *)
HandlerReturns ==
    /\ wpc = "handling"
    /\ \E text \in BOOLEAN :
         LET result == [text |-> text, declined |-> wmsg \in noReplySeen]
         IN  /\ outcome' = result
             /\ wpc' = IF MayReply(result) THEN "replying" ELSE "closing"
    /\ noReplySeen' = noReplySeen \ {wmsg}
    /\ UNCHANGED <<stopEvent, stopping, sendClient, queue, seen, blank, completedSeen,
                   listenerVars, wmsg, posts>>

(* It raises, or times out.                                                *)
HandlerFails ==
    /\ wpc = "handling"
    /\ wpc' = "failing"
    /\ UNCHANGED <<stopEvent, stopping, sendClient, queue, seen, marks,
                   listenerVars, wmsg, outcome, posts>>

Reply ==
    /\ wpc = "replying"
    /\ sendClient
    /\ posts' = [posts EXCEPT ![wmsg] = Append(@, "reply")]
    /\ wpc' = "closing"
    /\ UNCHANGED <<stopEvent, stopping, sendClient, queue, seen, marks,
                   listenerVars, wmsg, outcome>>

(* send_message raises; so does a client that stop() has just dropped.     *)
ReplyFails ==
    /\ wpc = "replying"
    /\ wpc' = "failing"
    /\ UNCHANGED <<stopEvent, stopping, sendClient, queue, seen, marks,
                   listenerVars, wmsg, outcome, posts>>

NextMessage == wpc' = "top" /\ wmsg' = NoMessage /\ outcome' = NoOutcome

(* MUTATION of Close: a bridge that has completed is completed again.      *)
CloseAgain ==
    /\ wpc = "closing"
    /\ completedSeen' = completedSeen \ {wmsg}
    /\ IF outcome.declined THEN UNCHANGED <<posts, sendClient>>
       ELSE Publish(wmsg, "completed")
    /\ NextMessage
    /\ UNCHANGED <<stopEvent, stopping, queue, seen, blank, noReplySeen, listenerVars>>

Close ==
    /\ wpc = "closing"
    /\ completedSeen' = completedSeen \ {wmsg}
    /\ IF wmsg \in completedSeen \/ outcome.declined
       THEN UNCHANGED <<posts, sendClient>>
       ELSE Publish(wmsg, "completed")
    /\ NextMessage
    /\ UNCHANGED <<stopEvent, stopping, queue, seen, blank, noReplySeen, listenerVars>>

(* MUTATION of Fail: the failure is logged and not posted.                 *)
FailSilently ==
    /\ wpc = "failing"
    /\ NextMessage
    /\ UNCHANGED <<stopEvent, stopping, sendClient, queue, seen, marks,
                   listenerVars, posts>>

Fail ==
    /\ wpc = "failing"
    /\ Publish(wmsg, "error")
    /\ NextMessage
    /\ UNCHANGED <<stopEvent, stopping, queue, seen, marks, listenerVars>>

-----------------------------------------------------------------------------
(* stop(), called by the daemon's main thread.                             *)

Stop ==
    /\ stopping = "no"
    /\ stopEvent' = TRUE
    /\ queue' = IF Len(queue) < QueueSize THEN Append(queue, StopMark) ELSE queue
    /\ stopping' = "waiting"
    /\ UNCHANGED <<sendClient, seen, marks, listenerVars, workerVars, posts>>

(* The joins return when the thread has ended, or after five seconds.      *)
StopReturns ==
    /\ stopping = "waiting"
    /\ stopping' = "returned"
    /\ sendClient' = FALSE
    /\ UNCHANGED <<stopEvent, queue, seen, marks, listenerVars, workerVars, posts>>

Listener ==
    \/ ListenerTop
    \/ Dial
    \/ DialFails
    \/ StreamEnds
    \/ \E m \in Messages : Receive(m)
    \/ Enqueue
    \/ Announce
    \/ Drop

Worker ==
    \/ WorkerTop
    \/ GetNothing
    \/ Get
    \/ Prepare
    \/ BridgeCompletes
    \/ BridgeDeclines
    \/ HandlerReturns
    \/ HandlerFails
    \/ Reply
    \/ ReplyFails
    \/ Close
    \/ Fail

(* The runtime has been stopped and its threads have ended.                *)
Ended == stopping = "returned" /\ lpc = "done" /\ wpc = "done"

Discarded == Ended /\ UNCHANGED vars

Next == Listener \/ Worker \/ Stop \/ StopReturns \/ Discarded

Spec == Init /\ [][Next]_vars

(* Threads run on, joins time out, a handler ends (it has a timeout), a    *)
(* stream that stop() has closed ends.  Otherwise it is the platform that  *)
(* decides whether a stream ends or a message comes.                       *)
Fairness ==
    /\ WF_vars(ListenerTop \/ Dial \/ DialFails \/ Enqueue \/ Announce \/ Drop)
    /\ WF_vars(stopEvent /\ StreamEnds)
    /\ WF_vars(StopReturns)
    /\ WF_vars(WorkerTop \/ GetNothing \/ Get \/ Prepare \/ HandlerReturns
               \/ HandlerFails \/ Reply \/ ReplyFails \/ Close \/ Fail)

FairSpec == Spec /\ Fairness

-----------------------------------------------------------------------------
(* Properties                                                              *)

Statuses == {"started", "dropped", "processing", "completed", "no_reply", "reply", "error"}

TypeOK ==
    /\ blank \subseteq Messages
    /\ stopEvent \in BOOLEAN
    /\ stopping \in {"no", "waiting", "returned"}
    /\ sendClient \in BOOLEAN
    /\ queue \in Seq(Messages \cup {StopMark}) /\ Len(queue) <= QueueSize
    /\ seen \subseteq Messages
    /\ completedSeen \subseteq Messages
    /\ noReplySeen \subseteq Messages
    /\ lpc \in {"top", "dialing", "stream", "claiming", "claimed", "done"}
    /\ lmsg \in Messages \cup {NoMessage}
    /\ wpc \in {"top", "getting", "starting", "handling", "replying", "closing",
                "failing", "done"}
    /\ wmsg \in Messages \cup {NoMessage}
    /\ outcome \in [text : BOOLEAN, declined : BOOLEAN]
    /\ posts \in [Messages -> Seq(Statuses)]

Times(m, status) == Cardinality({i \in 1..Len(posts[m]) : posts[m][i] = status})

(* However often the platform delivers a message, whatever the handler     *)
(* reports and wherever the stop strikes, a message is answered, reported  *)
(* completed and reported failed at most once.                             *)
AnsweredOnce ==
    \A m \in Messages : \A status \in {"reply", "completed", "error"} :
        Times(m, status) <= 1

(* The status spec: once a runtime has declined to answer a message, no    *)
(* chat reply is posted and the message is not worked on again.            *)
DeclinedIsFinal ==
    \A m \in Messages : \A i, j \in 1..Len(posts[m]) :
        posts[m][i] = "no_reply" /\ i < j => posts[m][j] \notin {"reply", "processing"}

(* A message reported as dropped is not worked on after all.               *)
DroppedIsDropped ==
    \A m \in Messages : Posted(m, "dropped") => Len(posts[m]) = 1

(* A message that was claimed, that is not blank and whose runtime is not  *)
(* stopped, is closed in the end: answered, declined or failed.            *)
Closed(m) == \E status \in {"completed", "no_reply", "error"} : Posted(m, status)

ClaimedIsClosed ==
    \A m \in Messages : Posted(m, "started") ~> (Closed(m) \/ m \in blank \/ stopEvent)

(* Stopping ends both threads, although stop() does not wait for them.     *)
StopEndsThreads == stopEvent ~> Ended

(* The status spec's sequence: `started` comes before `processing`.        *)
StartedFirst ==
    \A m \in Messages : \A i \in 1..Len(posts[m]) :
        posts[m][i] = "started" => i = 1

(* The status spec: `completed` says that the final reply was posted.      *)
CompletedMeansReplied ==
    wpc = "closing" /\ outcome.text /\ ~outcome.declined => Posted(wmsg, "reply")

(* The status spec's sequence ends for every message that it begins for.   *)
EveryClaimIsClosed ==
    \A m \in Messages : Posted(m, "started") ~> (Closed(m) \/ stopEvent)

(* Where a message is, in MessageLife's terms.                             *)
Queued(m) == \E i \in 1..Len(queue) : queue[i] = m

Waits(m) ==
    \/ lpc = "claiming" /\ lmsg = m
    \/ Queued(m)
    \/ wpc = "starting" /\ wmsg = m

Works(m) == wpc \in {"handling", "replying", "closing", "failing"} /\ wmsg = m

LifeOf(m) ==
    CASE m \notin seen -> "unheard"
      [] Works(m) -> "working"
      [] Waits(m) -> "waiting"
      [] OTHER -> "over"

Lives == [m \in Messages |-> LifeOf(m)]

Life == INSTANCE MessageLife WITH life <- Lives, told <- posts

(* Two threads, a bounded queue and a stop that waits for neither keep     *)
(* what MessageLife promises: wherever the listener's word that a message  *)
(* started falls, each message is taken up once, worked on alone and once, *)
(* answered or declined but not both, and its end told once; whatever is   *)
(* over was dropped, blank or given an end.                                *)
EachMessageLivesOnce == Life!Spec
=============================================================================
