------------------------------ MODULE Heartbeats ------------------------------
(***************************************************************************)
(* The local-first heartbeat store of an agent, from                       *)
(* ax_cli/commands/heartbeat.py.                                           *)
(*                                                                         *)
(* `send` holds the store while it posts, `watch` posts and then loads it, *)
(* `push` posts the latest heartbeat the platform does not have and marks  *)
(* what it held.  Each saves the whole store, through a temporary file of  *)
(* one name, without a lock.  What was recorded offline stays unpushed.    *)
(***************************************************************************)
EXTENDS Naturals, Sequences

CONSTANTS
    Beaters,        \* processes that run heartbeat commands
    Unwritten,      \* no temporary file
    HistorySize,    \* of the ring buffer
    MaxBeats        \* bound: commands

ASSUME HeartbeatAssumption == HistorySize \in Nat \ {0}

Beat == [beat : Nat, pushed : BOOLEAN]
History == Seq(Beat)
ASSUME UnwrittenAssumption == Unwritten \notin History

VARIABLES
    history,        \* of the store on disk; a heartbeat is its number
    temporary,      \* heartbeats.json.tmp
    beaters,        \* where each process is
    beats,          \* heartbeats numbered so far
    arrived,        \* heartbeats the platform received, and
    presence        \* the latest of them

heartbeats == <<history, temporary, beaters, beats, arrived, presence>>

Resting == [at |-> "rest", does |-> "send", copy |-> <<>>, beat |-> 0]

HeartbeatsInit ==
    /\ history = <<>>
    /\ temporary = Unwritten
    /\ beaters = [b \in Beaters |-> Resting]
    /\ beats = 0
    /\ arrived = {}
    /\ presence = 0

Latest(h, n) == IF Len(h) > n THEN SubSeq(h, Len(h) - n + 1, Len(h)) ELSE h

(* _record_heartbeat.                                                      *)
WithBeat(h, beat, pushed) == Latest(Append(h, [beat |-> beat, pushed |-> pushed]), HistorySize)

Unpushed(h) == {i \in DOMAIN h : ~h[i].pushed}

(* MUTATION of Marked: what was recorded meanwhile is marked as well.      *)
MarkedOnDisk(h) == [i \in DOMAIN history |-> [history[i] EXCEPT !.pushed = TRUE]]

(* Presence is latest-wins: the older ones are marked with the pushed one. *)
Marked(h) == [i \in DOMAIN h |-> [h[i] EXCEPT !.pushed = TRUE]]

-----------------------------------------------------------------------------

Moves(b, to) == beaters' = [beaters EXCEPT ![b] = to]

SendBegins(b) ==
    /\ beaters[b].at = "rest" /\ beats < MaxBeats
    /\ beats' = beats + 1
    /\ Moves(b, [at |-> "post", does |-> "send", copy |-> history, beat |-> beats'])
    /\ UNCHANGED <<history, temporary, arrived, presence>>

WatchTicks(b) ==
    /\ beaters[b].at = "rest" /\ beats < MaxBeats
    /\ beats' = beats + 1
    /\ Moves(b, [at |-> "post", does |-> "watch", copy |-> <<>>, beat |-> beats'])
    /\ UNCHANGED <<history, temporary, arrived, presence>>

PushBegins(b) ==
    /\ beaters[b].at = "rest"
    /\ \E i \in Unpushed(history) :
        /\ \A j \in Unpushed(history) : j <= i
        /\ Moves(b, [at |-> "post", does |-> "push", copy |-> history, beat |-> history[i].beat])
    /\ UNCHANGED <<history, temporary, beats, arrived, presence>>

(* What each command has in hand once it knows whether its post succeeded. *)
Answered(job, pushed) ==
    CASE job.does = "send"  -> [job EXCEPT !.at = "write", !.copy = WithBeat(job.copy, job.beat, pushed)]
      [] job.does = "push"  -> [job EXCEPT !.at = "write", !.copy = IF pushed THEN Marked(job.copy) ELSE job.copy]
      [] job.does = "watch" -> [job EXCEPT !.at = IF pushed THEN "load" ELSE "load unpushed"]

(* A post may arrive and its answer be lost.                               *)
PostArrives(b) ==
    /\ beaters[b].at = "post"
    /\ arrived' = arrived \cup {beaters[b].beat}
    /\ presence' = beaters[b].beat
    /\ \E pushed \in BOOLEAN : Moves(b, Answered(beaters[b], pushed))
    /\ UNCHANGED <<history, temporary, beats>>

(* Offline, refused, or --skip-push.                                       *)
PostFails(b) ==
    /\ beaters[b].at = "post"
    /\ Moves(b, Answered(beaters[b], FALSE))
    /\ UNCHANGED <<history, temporary, beats, arrived, presence>>

WatchRecords(b) ==
    /\ beaters[b].at \in {"load", "load unpushed"}
    /\ Moves(b, [beaters[b] EXCEPT !.at = "write",
                                   !.copy = WithBeat(history, beaters[b].beat, beaters[b].at = "load")])
    /\ UNCHANGED <<history, temporary, beats, arrived, presence>>

(* _save_store: the temporary file, then its rename.  Where another save   *)
(* has renamed it the command ends on an error.                            *)
StoreWritten(b) ==
    /\ beaters[b].at = "write"
    /\ temporary' = beaters[b].copy
    /\ Moves(b, [beaters[b] EXCEPT !.at = "rename", !.copy = <<>>])
    /\ UNCHANGED <<history, beats, arrived, presence>>

StoreRenamed(b) ==
    /\ beaters[b].at = "rename"
    /\ \/ temporary = Unwritten /\ UNCHANGED <<history, temporary>>
       \/ temporary # Unwritten /\ history' = temporary /\ temporary' = Unwritten
    /\ Moves(b, Resting)
    /\ UNCHANGED <<beats, arrived, presence>>

Interrupted(b) ==
    /\ beaters[b].at # "rest"
    /\ Moves(b, Resting)
    /\ UNCHANGED <<history, temporary, beats, arrived, presence>>

HeartbeatsNext ==
    \E b \in Beaters :
        \/ SendBegins(b) \/ WatchTicks(b) \/ PushBegins(b)
        \/ PostArrives(b) \/ PostFails(b) \/ WatchRecords(b)
        \/ StoreWritten(b) \/ StoreRenamed(b) \/ Interrupted(b)

HeartbeatsSpec == HeartbeatsInit /\ [][HeartbeatsNext]_heartbeats

-----------------------------------------------------------------------------
(* Properties                                                              *)

HeartbeatsTypeOK ==
    /\ history \in History
    /\ temporary \in History \cup {Unwritten}
    /\ beaters \in [Beaters -> [at : {"rest", "post", "load", "load unpushed", "write", "rename"},
                                does : {"send", "watch", "push"}, copy : History, beat : Nat]]
    /\ beats \in Nat /\ presence \in Nat
    /\ arrived \in SUBSET Nat

(* Who is marked as pushed reached the platform, or one recorded after it  *)
(* did.                                                                    *)
Reached(h, has) == \A i \in DOMAIN h : h[i].pushed => \E j \in i..Len(h) : h[j].beat \in has

(* However commands overlap and lose each other's saves, no heartbeat      *)
(* leaves the queue of the unpushed that neither arrived itself nor was    *)
(* followed by one that did.                                               *)
PushedArrived == Reached(history, arrived)

(* REFUTED.  "presence is latest-wins", "replaying stale heartbeats isn't  *)
(* useful" (push): a heartbeat that is unpushed from before the latest one *)
(* that arrived is posted over it.                                         *)
LatestWins == [][presence' >= presence]_presence

(* REFUTED.  What is recorded stays until the ring buffer is full: a push  *)
(* saves its copy over a heartbeat recorded while it posted.               *)
BeatsKept ==
    [][\A i \in DOMAIN history : Len(history) < HistorySize =>
        \E j \in DOMAIN history' : history'[j].beat = history[i].beat]_history
=============================================================================
