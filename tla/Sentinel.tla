------------------------------- MODULE Sentinel -------------------------------
(***************************************************************************)
(* The process that a Hermes agent runs in: run, mention_worker and        *)
(* _run_via_runtime_plugin of ax_cli/runtimes/hermes/sentinel.py.          *)
(*                                                                         *)
(* The main thread reads the event stream and queues mentions; a worker    *)
(* runs the agent on one at a time and posts what it says.  Where edits    *)
(* are streamed, each run has a thread that keeps one reply up to date     *)
(* until the run has returned.  Whenever the stream is lost, the main      *)
(* thread closes the client that all of them use and makes a new one.      *)
(***************************************************************************)
EXTENDS Naturals, Sequences, FiniteSets

CONSTANTS
    Mentions,
    NoMention,
    MentionQueue,   \* maxsize of mention_queue
    MaxLimited,     \* rate limits in a row after which the agent is paused
    MaxTroubles     \* bound: streams lost, replies posted whose confirmation is lost and
                    \* pauses by the operator, together

ASSUME SentinelAssumption ==
    /\ NoMention \notin Mentions /\ MaxLimited \in Nat \ {0}
    /\ MentionQueue \in Nat /\ MaxTroubles \in Nat

VARIABLES
    streamEdits,    \* AX_SENTINEL_STREAM_EDITS
    heard,          \* seen_ids
    waiting,        \* mention_queue
    clientNow,      \* which client api_holder has; the ones before it are closed
    worker,         \* where mention_worker is, and with which mention
    runs,           \* per mention: its client, reply, whether text came, finished
    updaters,       \* per mention: _stream_updater, and what it is about to show
    chat,           \* per mention: what its replies show
    completed,      \* mentions whose processing was signalled as completed
    limited,        \* _rate_limit_backoff
    paused,         \* is there a pause file?
    pauses, unanswered,     \* counters, for the bounds
    limitedSince, settled   \* history

sentinel == <<streamEdits, heard, waiting, clientNow, worker, runs, updaters, chat, completed,
              limited, paused, pauses, unanswered, limitedSince, settled>>

WorkerAt(place, m) == [at |-> place, mention |-> m]
UpdaterAt(place, content) == [at |-> place, content |-> content]

Troubles == clientNow + unanswered + pauses     \* for the bound

NewRun == [client |-> 0, reply |-> 0, text |-> FALSE, finished |-> FALSE]
Nothing == ""

SentinelInit ==
    /\ streamEdits \in BOOLEAN
    /\ heard = {} /\ waiting = <<>>
    /\ clientNow = 0
    /\ worker = WorkerAt("get", NoMention)
    /\ runs = [m \in Mentions |-> NewRun]
    /\ updaters = [m \in Mentions |-> UpdaterAt("off", Nothing)]
    /\ chat = [m \in Mentions |-> <<>>]
    /\ completed = {}
    /\ limited = 0 /\ paused = FALSE /\ pauses = 0 /\ unanswered = 0
    /\ limitedSince = 0 /\ settled = {}

-----------------------------------------------------------------------------
(* The main thread                                                         *)

(* A mention of the agent for the first time; at a full queue it is        *)
(* dropped.                                                                *)
Hears(m) ==
    /\ m \notin heard
    /\ heard' = heard \cup {m}
    /\ waiting' = IF Len(waiting) < MentionQueue THEN Append(waiting, m) ELSE waiting
    /\ UNCHANGED <<streamEdits, clientNow, worker, runs, updaters, chat, completed, limited,
                   paused, pauses, unanswered, limitedSince, settled>>

(* The stream ends or fails: the client is closed, whoever is using it.    *)
Reconnects ==
    /\ Troubles < MaxTroubles
    /\ clientNow' = clientNow + 1
    /\ UNCHANGED <<streamEdits, heard, waiting, worker, runs, updaters, chat, completed, limited,
                   paused, pauses, unanswered, limitedSince, settled>>

-----------------------------------------------------------------------------
(* Requests: a closed client sends nothing, an open one may fail before or *)
(* after the platform has acted.                                           *)

IsOpen(m) == runs[m].client = clientNow

SendsReply(m, content) ==
    \/ UNCHANGED <<chat, runs, unanswered>>
    \/ /\ IsOpen(m)
       /\ chat' = [chat EXCEPT ![m] = Append(@, content)]
       /\ \/ /\ runs' = [runs EXCEPT ![m].reply = Len(chat[m]) + 1]
             /\ UNCHANGED unanswered
          \/ /\ Troubles < MaxTroubles
             /\ unanswered' = unanswered + 1
             /\ UNCHANGED runs

EditsReply(m, content) ==
    /\ \/ UNCHANGED chat
       \/ IsOpen(m) /\ chat' = [chat EXCEPT ![m][runs[m].reply] = content]
    /\ UNCHANGED <<runs, unanswered>>

-----------------------------------------------------------------------------
(* The worker                                                              *)

WorkerGets ==
    /\ worker.at = "get" /\ waiting # <<>>
    /\ worker' = WorkerAt("gate", Head(waiting))
    /\ waiting' = Tail(waiting)
    /\ UNCHANGED <<streamEdits, heard, clientNow, runs, updaters, chat, completed, limited,
                   paused, pauses, unanswered, limitedSince, settled>>

(* The pause gate is passed, the client of the moment is the run's.        *)
RunBegins ==
    /\ worker.at = "gate" /\ ~paused
    /\ runs' = [runs EXCEPT ![worker.mention].client = clientNow]
    /\ worker' = [worker EXCEPT !.at = IF streamEdits THEN "announcing" ELSE "running"]
    /\ UNCHANGED <<streamEdits, heard, waiting, clientNow, updaters, chat, completed, limited,
                   paused, pauses, unanswered, limitedSince, settled>>

Announces ==
    /\ worker.at = "announcing"
    /\ SendsReply(worker.mention, "working")
    /\ worker' = [worker EXCEPT !.at = "running"]
    /\ updaters' = [updaters EXCEPT ![worker.mention] = UpdaterAt("waits", Nothing)]
    /\ UNCHANGED <<streamEdits, heard, waiting, clientNow, completed, limited, paused, pauses,
                   limitedSince, settled>>

TextArrives ==
    /\ worker.at = "running"
    /\ runs' = [runs EXCEPT ![worker.mention].text = TRUE]
    /\ UNCHANGED <<streamEdits, heard, waiting, clientNow, worker, updaters, chat, completed,
                   limited, paused, pauses, unanswered, limitedSince, settled>>

(* on_tool_start: as long as there is no text, the reply shows the tools.  *)
ToolStarts ==
    /\ worker.at = "running"
    /\ runs[worker.mention].reply # 0 /\ ~runs[worker.mention].text
    /\ EditsReply(worker.mention, "working")
    /\ UNCHANGED <<streamEdits, heard, waiting, clientNow, worker, updaters, completed, limited,
                   paused, pauses, limitedSince, settled>>

(* MUTATION of RunReturns: the updater is not told that the run is over.   *)
RunReturnsUntold ==
    /\ worker.at = "running"
    /\ worker' = [worker EXCEPT !.at = "over"]
    /\ UNCHANGED <<streamEdits, heard, waiting, clientNow, runs, updaters, chat, completed,
                   limited, paused, pauses, unanswered, limitedSince, settled>>

RunReturns ==
    /\ worker.at = "running"
    /\ runs' = [runs EXCEPT ![worker.mention].finished = TRUE]
    /\ worker' = [worker EXCEPT !.at = "over"]
    /\ UNCHANGED <<streamEdits, heard, waiting, clientNow, updaters, chat, completed, limited,
                   paused, pauses, unanswered, limitedSince, settled>>

(* The final text goes into the reply there is by then, or into a new one. *)
FinalIsPlaced ==
    /\ worker.at = "over"
    /\ worker' = [worker EXCEPT !.at = IF runs[worker.mention].reply = 0 THEN "sending"
                                       ELSE "editing"]
    /\ UNCHANGED <<streamEdits, heard, waiting, clientNow, runs, updaters, chat, completed,
                   limited, paused, pauses, unanswered, limitedSince, settled>>

(* The final text: completed is signalled whether or not it arrived.       *)
FinalIsPosted ==
    /\ worker.at \in {"sending", "editing"}
    /\ LET m == worker.mention
       IN  /\ \/ worker.at = "sending" /\ SendsReply(m, "final")
              \/ worker.at = "editing" /\ EditsReply(m, "final")
           /\ settled' = IF chat' # chat /\ updaters[m].at \in {"off", "waits"}
                         THEN settled \cup {m} ELSE settled
           /\ completed' = completed \cup {m}
    /\ worker' = WorkerAt("get", NoMention)
    /\ limited' = 0 /\ limitedSince' = 0
    /\ UNCHANGED <<streamEdits, heard, waiting, clientNow, updaters, paused, pauses>>

(* The provider's rate limit: nothing is posted; after MaxLimited of them  *)
(* in a row all agents are paused and the queue is thrown away.            *)
RunIsLimited ==
    /\ worker.at = "running"
    /\ runs' = [runs EXCEPT ![worker.mention].finished = TRUE]
    /\ completed' = completed \cup {worker.mention}
    /\ worker' = WorkerAt("get", NoMention)
    /\ limited' = limited + 1
    /\ limitedSince' = limitedSince + 1
    /\ IF limited' >= MaxLimited THEN paused' = TRUE /\ waiting' = <<>>
       ELSE UNCHANGED <<paused, waiting>>
    /\ UNCHANGED <<streamEdits, heard, clientNow, updaters, chat, pauses, unanswered, settled>>

(* MUTATION of RunRaises: the exception ends the worker.                   *)
RunRaisesThrough ==
    /\ worker.at = "running"
    /\ worker' = WorkerAt("ended", NoMention)
    /\ UNCHANGED <<streamEdits, heard, waiting, clientNow, runs, updaters, chat, completed,
                   limited, paused, pauses, unanswered, limitedSince, settled>>

(* An exception is logged; the updater is not told.                        *)
RunRaises ==
    /\ worker.at = "running"
    /\ worker' = WorkerAt("get", NoMention)
    /\ UNCHANGED <<streamEdits, heard, waiting, clientNow, runs, updaters, chat, completed,
                   limited, paused, pauses, unanswered, limitedSince, settled>>

-----------------------------------------------------------------------------
(* The updater of one run                                                  *)

UpdaterLooks(m) ==
    /\ updaters[m].at = "waits" /\ ~runs[m].finished
    /\ \/ /\ runs[m].text
          /\ updaters' = [updaters EXCEPT ![m] =
                 UpdaterAt(IF runs[m].reply = 0 THEN "creates" ELSE "edits", "partial")]
       \/ /\ ~runs[m].text /\ runs[m].reply # 0
          /\ updaters' = [updaters EXCEPT ![m] = UpdaterAt("edits", "working")]
    /\ UNCHANGED <<streamEdits, heard, waiting, clientNow, worker, runs, chat, completed, limited,
                   paused, pauses, unanswered, limitedSince, settled>>

UpdaterPosts(m) ==
    /\ \/ updaters[m].at = "creates" /\ SendsReply(m, updaters[m].content)
       \/ updaters[m].at = "edits" /\ EditsReply(m, updaters[m].content)
    /\ updaters' = [updaters EXCEPT ![m] = UpdaterAt("waits", Nothing)]
    /\ UNCHANGED <<streamEdits, heard, waiting, clientNow, worker, completed, limited, paused,
                   pauses, limitedSince, settled>>

UpdaterEnds(m) ==
    /\ updaters[m].at = "waits" /\ runs[m].finished
    /\ updaters' = [updaters EXCEPT ![m] = UpdaterAt("off", Nothing)]
    /\ UNCHANGED <<streamEdits, heard, waiting, clientNow, worker, runs, chat, completed, limited,
                   paused, pauses, unanswered, limitedSince, settled>>

-----------------------------------------------------------------------------
(* The operator's pause files                                              *)

OperatorPauses ==
    /\ ~paused /\ Troubles < MaxTroubles
    /\ paused' = TRUE
    /\ pauses' = pauses + 1
    /\ UNCHANGED <<streamEdits, heard, waiting, clientNow, worker, runs, updaters, chat, completed,
                   limited, unanswered, limitedSince, settled>>

OperatorResumes ==
    /\ paused
    /\ paused' = FALSE
    /\ limitedSince' = 0
    /\ UNCHANGED <<streamEdits, heard, waiting, clientNow, worker, runs, updaters, chat, completed,
                   limited, pauses, unanswered, settled>>

MentionWorker ==
    \/ WorkerGets \/ RunBegins \/ Announces \/ RunReturns \/ FinalIsPlaced \/ FinalIsPosted
    \/ RunIsLimited \/ RunRaises

SentinelNext ==
    \/ \E m \in Mentions : Hears(m) \/ UpdaterLooks(m) \/ UpdaterPosts(m) \/ UpdaterEnds(m)
    \/ Reconnects
    \/ MentionWorker
    \/ TextArrives \/ ToolStarts
    \/ OperatorPauses \/ OperatorResumes

(* Threads run on and a run of the agent ends (it has a timeout).          *)
SentinelSpec == SentinelInit /\ [][SentinelNext]_sentinel /\ WF_sentinel(MentionWorker)

-----------------------------------------------------------------------------
(* Properties                                                              *)

SentinelTypeOK ==
    /\ streamEdits \in BOOLEAN
    /\ heard \subseteq Mentions /\ completed \subseteq Mentions /\ settled \subseteq Mentions
    /\ waiting \in Seq(Mentions) /\ Len(waiting) <= MentionQueue
    /\ clientNow \in 0..MaxTroubles
    /\ worker \in [at : {"get", "gate", "announcing", "running", "over", "sending",
                          "editing"},
                   mention : Mentions \cup {NoMention}]
    /\ runs \in [Mentions -> [client : Nat, reply : Nat, text : BOOLEAN, finished : BOOLEAN]]
    /\ updaters \in [Mentions -> [at : {"off", "waits", "edits", "creates"},
                                  content : {Nothing, "working", "partial"}]]
    /\ chat \in [Mentions -> Seq({"working", "partial", "final"})]
    /\ limited \in Nat /\ limitedSince \in 0..MaxLimited /\ paused \in BOOLEAN
    /\ pauses \in Nat /\ unanswered \in Nat

(* Once a final text has arrived while no update was under way, nothing    *)
(* changes what the replies to that mention show.                          *)
FinalStands == [][\A m \in settled : chat'[m] = chat[m]]_sentinel

(* Whatever becomes of the runs before it, a mention on the queue is taken *)
(* up, unless the agent is paused.                                         *)
Queued(m) == \E i \in DOMAIN waiting : waiting[i] = m

MentionIsTaken == \A m \in Mentions : Queued(m) ~> (~Queued(m) \/ paused)

(* REFUTED.  "create one editable reply and let the final result overwrite *)
(* it": an update under way when the run returns overwrites the final text.*)
FinalOverwrites ==
    \A m \in completed : "final" \in {chat[m][i] : i \in DOMAIN chat[m]} =>
        chat[m][Len(chat[m])] = "final"

(* REFUTED.  "worker always uses the current one": a run keeps the client  *)
(* that it began with, and a reconnect closes it; the reply is lost and    *)
(* the mention signalled as completed.                                     *)
RunsUseTheCurrentClient ==
    worker.at \in {"sending", "editing"} => runs[worker.mention].client = clientNow

(* REFUTED.  "Rate limited -- don't post ANYTHING to chat": with streamed  *)
(* edits the placeholder stays.                                            *)
LimitedIsSilent == [][limited' > limited => chat[worker.mention] = <<>>]_sentinel


(* REFUTED.  "threaded worker (no dropped messages)".                      *)
NoneIsDropped ==
    \A m \in heard : Queued(m) \/ worker.mention = m \/ runs[m] # NewRun \/ m \in completed
=============================================================================
