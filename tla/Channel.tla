------------------------------- MODULE Channel -------------------------------
(***************************************************************************)
(* The bridge from the platform's event stream into a Claude Code session, *)
(* from ChannelBridge and _sse_loop (ax_cli/commands/channel.py).          *)
(*                                                                         *)
(* A thread reads the events, keeps the ids it has seen and hands mentions *)
(* to the asyncio loop; there a bounded queue, an emitter that notifies    *)
(* the client, a task per receipt and the handler of the client's requests *)
(* interleave wherever they await.  Events are repeated after a reconnect. *)
(***************************************************************************)
EXTENDS Naturals, Sequences, FiniteSets

CONSTANTS
    Messages,
    NoMessage,
    QueueSize,      \* --queue-size
    SeenMax,        \* SEEN_MAX
    MaxMatches      \* bound: events taken for mentions

ASSUME SeenAssumption ==
    QueueSize \in Nat /\ SeenMax \in Nat \ {0} /\ NoMessage \notin Messages

VARIABLES
    own,            \* the messages the agent wrote itself; the others mention it
    seen,           \* seen_ids
    handing,        \* the mention the thread completes from the REST API
    handed,         \* _push callbacks the loop has not run
    queue,          \* mention_queue
    loop,           \* serve_stdio: not yet, running, over
    ready,          \* initialized
    emitter,        \* where emit_mentions is, and with which message
    pending,        \* _pending_mentions
    latest,         \* _last_message_id
    handler,        \* where handle_tool_call is, and the message it answers
    receipts,       \* _signal_received tasks not done
    client,         \* does Claude Code still hold the other end?
    status,         \* the processing status the platform shows last
    matches,        \* counter, for the bound
    notified, fetched, forgotten, dropped   \* history

channel == <<own, seen, handing, handed, queue, loop, ready, emitter, pending, latest, handler,
             receipts, client, status, matches, notified, fetched, forgotten, dropped>>

At(place, m) == [at |-> place, message |-> m]

ChannelInit ==
    /\ own \in SUBSET Messages
    /\ seen = {} /\ receipts = {}
    /\ handing = NoMessage /\ latest = NoMessage
    /\ handed = <<>> /\ queue = <<>> /\ pending = <<>>
    /\ loop = "starting" /\ ready = FALSE /\ client = "here"
    /\ emitter = At("get", NoMessage)
    /\ handler = At("idle", NoMessage)
    /\ status = [m \in Messages |-> "none"]
    /\ matches = 0
    /\ notified = [m \in Messages |-> 0]
    /\ forgotten = [m \in Messages |-> 0]
    /\ fetched = {} /\ dropped = {}

-----------------------------------------------------------------------------
(* The event thread.  An event that changes nothing (a repeated id, a      *)
(* placeholder or progress line, which is not put among the seen, a        *)
(* message for somebody else) is no step.                                  *)

Listening == loop # "closed" /\ handing = NoMessage

ThreadSeesOwn(m) ==
    /\ Listening /\ m \in own \ seen
    /\ seen' = seen \cup {m}
    /\ UNCHANGED <<own, handing, handed, queue, loop, ready, emitter, pending, latest, handler,
                   receipts, client, status, matches, notified, fetched, forgotten, dropped>>

(* Past the limit half of the seen ids are kept, whichever list(set) puts  *)
(* last.                                                                   *)
Half == (SeenMax + 1) \div 2
Trimmed(ids) ==
    IF Cardinality(ids) > SeenMax THEN {kept \in SUBSET ids : Cardinality(kept) = Half} ELSE {ids}

(* MUTATION of ThreadMatches: an update of a seen message is taken again.  *)
ThreadMatchesUpdates(m) ==
    /\ Listening /\ m \in Messages \ own
    /\ matches < MaxMatches
    /\ matches' = matches + 1
    /\ seen' \in Trimmed(seen \cup {m})
    /\ forgotten' = [n \in Messages |->
                        forgotten[n] + IF n \in (seen \cup {m}) \ seen' THEN 1 ELSE 0]
    /\ handing' = m
    /\ UNCHANGED <<own, handed, queue, loop, ready, emitter, pending, latest, handler,
                   receipts, client, status, notified, fetched, dropped>>

ThreadMatches(m) ==
    /\ Listening /\ m \in Messages \ (own \cup seen)
    /\ matches < MaxMatches
    /\ matches' = matches + 1
    /\ seen' \in Trimmed(seen \cup {m})
    /\ forgotten' = [n \in Messages |->
                        forgotten[n] + IF n \in (seen \cup {m}) \ seen' THEN 1 ELSE 0]
    /\ handing' = m
    /\ UNCHANGED <<own, handed, queue, loop, ready, emitter, pending, latest, handler,
                   receipts, client, status, notified, fetched, dropped>>

(* enqueue_from_thread: before the loop runs and after it is over the      *)
(* mention is dropped.                                                     *)
ThreadHands ==
    /\ handing # NoMessage
    /\ \/ loop = "serving" /\ handed' = Append(handed, handing) /\ UNCHANGED dropped
       \/ loop # "serving" /\ dropped' = dropped \cup {handing} /\ UNCHANGED handed
    /\ handing' = NoMessage
    /\ UNCHANGED <<own, seen, queue, loop, ready, emitter, pending, latest, handler,
                   receipts, client, status, matches, notified, fetched, forgotten>>

-----------------------------------------------------------------------------
(* The loop: queue and emitter                                             *)

LoopStarts ==
    /\ loop = "starting"
    /\ loop' = "serving"
    /\ UNCHANGED <<own, seen, handing, handed, queue, ready, emitter, pending, latest, handler,
                   receipts, client, status, matches, notified, fetched, forgotten, dropped>>

Serving == loop = "serving"

(* MUTATION of PushQueues: put waits for no room and finds the queue full. *)
PushQueuesAnyway ==
    /\ Serving /\ handed # <<>>
    /\ queue' = Append(queue, Head(handed))
    /\ receipts' = receipts \cup {Head(handed)}
    /\ handed' = Tail(handed)
    /\ UNCHANGED <<own, seen, handing, loop, ready, emitter, pending, latest, handler,
                   client, status, matches, notified, fetched, forgotten, dropped>>

PushQueues ==
    /\ Serving /\ handed # <<>>
    /\ \/ /\ Len(queue) < QueueSize
          /\ queue' = Append(queue, Head(handed))
          /\ receipts' = receipts \cup {Head(handed)}
          /\ UNCHANGED dropped
       \/ /\ Len(queue) >= QueueSize
          /\ dropped' = dropped \cup {Head(handed)}
          /\ UNCHANGED <<queue, receipts>>
    /\ handed' = Tail(handed)
    /\ UNCHANGED <<own, seen, handing, loop, ready, emitter, pending, latest, handler,
                   client, status, matches, notified, fetched, forgotten>>

Reports(m, what) == status' = [status EXCEPT ![m] = what]

ReceiptPosted(m) ==
    /\ Serving /\ m \in receipts
    /\ receipts' = receipts \ {m}
    /\ Reports(m, "received")
    /\ UNCHANGED <<own, seen, handing, handed, queue, loop, ready, emitter, pending, latest, handler,
                   client, matches, notified, fetched, forgotten, dropped>>

(* MUTATION of EmitterTakes: what comes before initialized is discarded.   *)
EmitterTakesWhenReady ==
    /\ Serving /\ emitter.at = "get" /\ queue # <<>>
    /\ emitter' = IF ready THEN At("wait", Head(queue)) ELSE emitter
    /\ queue' = Tail(queue)
    /\ UNCHANGED <<own, seen, handing, handed, loop, ready, pending, latest, handler,
                   receipts, client, status, matches, notified, fetched, forgotten, dropped>>

EmitterTakes ==
    /\ Serving /\ emitter.at = "get" /\ queue # <<>>
    /\ emitter' = At("wait", Head(queue))
    /\ queue' = Tail(queue)
    /\ UNCHANGED <<own, seen, handing, handed, loop, ready, pending, latest, handler,
                   receipts, client, status, matches, notified, fetched, forgotten, dropped>>

EmitterRecords ==
    /\ Serving /\ emitter.at = "wait" /\ ready
    /\ latest' = emitter.message
    /\ pending' = Append(pending, emitter.message)
    /\ emitter' = At("touch", emitter.message)
    /\ UNCHANGED <<own, seen, handing, handed, queue, loop, ready, handler,
                   receipts, client, status, matches, notified, fetched, forgotten, dropped>>

(* touch_gateway is over; the pending mentions are kept within the limit.  *)
EmitterTouched ==
    /\ Serving /\ emitter.at = "touch"
    /\ pending' = IF Len(pending) > SeenMax THEN SubSeq(pending, Len(pending) - Half + 1, Len(pending))
                  ELSE pending
    /\ emitter' = At("notify", emitter.message)
    /\ UNCHANGED <<own, seen, handing, handed, queue, loop, ready, latest, handler,
                   receipts, client, status, matches, notified, fetched, forgotten, dropped>>

(* The notification is written, or the write fails and is logged.          *)
EmitterNotifies ==
    /\ Serving /\ emitter.at = "notify"
    /\ \/ /\ client = "here"
          /\ notified' = [notified EXCEPT ![emitter.message] = @ + 1]
          /\ emitter' = At("report", emitter.message)
       \/ /\ client = "gone"
          /\ emitter' = At("get", NoMessage)
          /\ UNCHANGED notified
    /\ UNCHANGED <<own, seen, handing, handed, queue, loop, ready, pending, latest, handler,
                   receipts, client, status, matches, fetched, forgotten, dropped>>

EmitterReports ==
    /\ Serving /\ emitter.at = "report"
    /\ Reports(emitter.message, "working")
    /\ emitter' = At("get", NoMessage)
    /\ UNCHANGED <<own, seen, handing, handed, queue, loop, ready, pending, latest, handler,
                   receipts, client, matches, notified, fetched, forgotten, dropped>>

-----------------------------------------------------------------------------
(* The client and the handler of its requests, one at a time               *)

HandlerFree == Serving /\ client = "here" /\ handler.at = "idle"

ClientInitializes ==
    /\ HandlerFree /\ ~ready
    /\ ready' = TRUE
    /\ UNCHANGED <<own, seen, handing, handed, queue, loop, emitter, pending, latest, handler,
                   receipts, client, status, matches, notified, fetched, forgotten, dropped>>

(* The get_messages tool, up to a limit, with mark_read or without.        *)
GetMessages ==
    /\ HandlerFree /\ ready /\ pending # <<>>
    /\ \E limit \in 1..Len(pending), mark_read \in BOOLEAN :
        /\ fetched' = fetched \cup {pending[i] : i \in 1..limit}
        /\ pending' = IF mark_read THEN SubSeq(pending, limit + 1, Len(pending)) ELSE pending
    /\ UNCHANGED <<own, seen, handing, handed, queue, loop, ready, emitter, latest, handler,
                   receipts, client, status, matches, notified, forgotten, dropped>>

ShownTo(m) == notified[m] > 0 \/ m \in fetched

(* The reply tool: reply_to is a message the client was shown, or else the *)
(* latest.                                                                 *)
ReplyStarts ==
    /\ HandlerFree /\ ready
    /\ \E m \in {n \in Messages : ShownTo(n)} \cup ({latest} \ {NoMessage}) :
        handler' = At("send", m)
    /\ UNCHANGED <<own, seen, handing, handed, queue, loop, ready, emitter, pending, latest,
                   receipts, client, status, matches, notified, fetched, forgotten, dropped>>

ReplySends ==
    /\ Serving /\ handler.at = "send"
    /\ \E outcome \in {"completing", "idle"} :
        handler' = At(outcome, IF outcome = "idle" THEN NoMessage ELSE handler.message)
    /\ UNCHANGED <<own, seen, handing, handed, queue, loop, ready, emitter, pending, latest,
                   receipts, client, status, matches, notified, fetched, forgotten, dropped>>

ReplyCompletes ==
    /\ Serving /\ handler.at = "completing"
    /\ Reports(handler.message, "completed")
    /\ handler' = At("idle", NoMessage)
    /\ UNCHANGED <<own, seen, handing, handed, queue, loop, ready, emitter, pending, latest,
                   receipts, client, matches, notified, fetched, forgotten, dropped>>

ClientGoes ==
    /\ client = "here"
    /\ client' = "gone"
    /\ UNCHANGED <<own, seen, handing, handed, queue, loop, ready, emitter, pending, latest, handler,
                   receipts, status, matches, notified, fetched, forgotten, dropped>>

(* End of input, read when no request is handled: the emitter is cancelled *)
(* with what it holds.                                                     *)
LoopEnds ==
    /\ Serving /\ client = "gone" /\ handler.at = "idle"
    /\ loop' = "closed"
    /\ emitter' = At("cancelled", NoMessage)
    /\ UNCHANGED <<own, seen, handing, handed, queue, ready, pending, latest, handler,
                   receipts, client, status, matches, notified, fetched, forgotten, dropped>>

Emitter == EmitterTakes \/ EmitterRecords \/ EmitterTouched \/ EmitterNotifies \/ EmitterReports

ChannelNext ==
    \/ \E m \in Messages : ThreadSeesOwn(m) \/ ThreadMatches(m) \/ ReceiptPosted(m)
    \/ ThreadHands \/ LoopStarts \/ PushQueues
    \/ EmitterTakes \/ EmitterRecords \/ EmitterTouched \/ EmitterNotifies \/ EmitterReports
    \/ ClientInitializes \/ GetMessages \/ ReplyStarts \/ ReplySends \/ ReplyCompletes
    \/ ClientGoes \/ LoopEnds

(* The thread and the loop run on, and requests to the platform end.       *)
ChannelSpec ==
    /\ ChannelInit /\ [][ChannelNext]_channel
    /\ WF_channel(ThreadHands) /\ WF_channel(LoopStarts)
    /\ WF_channel(PushQueues) /\ WF_channel(Emitter)

-----------------------------------------------------------------------------
(* Properties                                                              *)

ChannelTypeOK ==
    /\ own \in SUBSET Messages /\ seen \in SUBSET Messages
    /\ handing \in Messages \cup {NoMessage} /\ latest \in Messages \cup {NoMessage}
    /\ handed \in Seq(Messages) /\ queue \in Seq(Messages) /\ pending \in Seq(Messages)
    /\ Len(queue) <= QueueSize
    /\ loop \in {"starting", "serving", "closed"} /\ ready \in BOOLEAN
    /\ emitter \in [at : {"get", "wait", "touch", "notify", "report", "cancelled"},
                    message : Messages \cup {NoMessage}]
    /\ handler \in [at : {"idle", "send", "completing"}, message : Messages \cup {NoMessage}]
    /\ receipts \in SUBSET Messages /\ client \in {"here", "gone"}
    /\ status \in [Messages -> {"none", "received", "working", "completed"}]
    /\ matches \in Nat
    /\ notified \in [Messages -> Nat] /\ forgotten \in [Messages -> Nat]
    /\ fetched \in SUBSET Messages /\ dropped \in SUBSET Messages

(* However often the platform repeats an event, the client is notified of  *)
(* a message once, and once more each time the trimming forgot its id.     *)
NotifiedOnce == \A m \in Messages : notified[m] <= 1 + forgotten[m]

(* A mention that was put among the seen ids, and so will be skipped when  *)
(* it is repeated, reaches the client once it has initialized, unless it   *)
(* was dropped at a full queue or before the loop ran.                     *)
SeenIsOffered ==
    \A m \in Messages :
        (m \in seen \ own) ~> (ShownTo(m) \/ m \in dropped \/ client = "gone" \/ ~ready)

(* REFUTED.  "all mentions buffered in memory, never dropped during busy   *)
(* periods" (the channel's README).                                        *)
NeverDropped == Serving /\ client = "here" => dropped = {}

(* REFUTED.  A reply without reply_to answers a message the client has     *)
(* seen: the latest is set before its notification is written.             *)
RepliesToShown == handler.at # "idle" => ShownTo(handler.message)

(* REFUTED.  The receipt "fires before emit_mentions picks up the event"   *)
(* (_signal_received): it is a task of its own, and may come last.         *)
ReceivedFirst == [][\A m \in Messages : status'[m] = "received" => status[m] \in {"none", "received"}]_status

(* REFUTED.  completed is the last status of a message answered once: the  *)
(* emitter's working is posted while the client already answers.           *)
CompletedIsLast == [][\A m \in Messages : status[m] = "completed" => status'[m] # "working"]_status
=============================================================================
