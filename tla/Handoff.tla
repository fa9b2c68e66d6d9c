-------------------------------- MODULE Handoff --------------------------------
(***************************************************************************)
(* `ax handoff` of ax_cli/commands/handoff.py: the probe, the handoff, its *)
(* nudge and the rounds of a loop, each a message that is sent and an      *)
(* answer that is waited for, on the event stream and in the listings of   *)
(* recent messages.                                                        *)
(*                                                                         *)
(* Messages are numbered by the platform as they are posted; a number is   *)
(* at once the id and the time of the message.                             *)
(***************************************************************************)
EXTENDS Naturals, Sequences

CONSTANTS
    Replies,        \* messages that the agent may post
    MaxRounds,      \* --max-rounds
    ClockBehind     \* how many messages the clock of the command is behind the platform's

ASSUME HandoffAssumption == MaxRounds \in Nat \ {0} /\ ClockBehind \in Nat

VARIABLES
    options,        \* of the command line
    wait,           \* where the command is, what for, and the message it waits on
    expired,        \* is the deadline of the wait over?
    blind,          \* did a request of the last look at the listings fail?
    events,         \* on the stream: replies as they were posted, not yet read
    taken,          \* replies that waits returned, in order
    outcome,        \* status of the result
    posted,         \* number of the last message posted
    replies         \* per reply: its number (0: not posted), what it answers, its text

handoff == <<options, wait, expired, blind, events, taken, outcome, posted, replies>>

Unposted == [number |-> 0, to |-> 0, names |-> "nobody", text |-> "progress"]

(* What a reply says: that work is under way (a streamed reply that is not *)
(* final), where it stands, or that it is done.                            *)
Texts == {"progress", "status", "done"}

(* Whom or what it names: the sender of the task, the token of the probe   *)
(* or that of the handoff.                                                 *)
Names == {"nobody", "sender", "ping", "token"}

HandoffInit ==
    /\ options \in [probe : BOOLEAN, nudge : BOOLEAN, loop : BOOLEAN, requires : BOOLEAN]
    /\ options.loop => ~options.requires
    /\ wait = [at |-> "begin", for |-> IF options.probe THEN "probe" ELSE "task", sent |-> 0,
               since |-> 0, round |-> 1, watch |-> TRUE]
    /\ expired = FALSE /\ blind = FALSE
    /\ events = <<>> /\ taken = <<>>
    /\ outcome = "open"
    /\ posted = 0
    /\ replies = [m \in Replies |-> Unposted]

MovesTo(place) == wait' = [wait EXCEPT !.at = place]

(* The end of the command.                                                 *)
Ends(how) == MovesTo("end") /\ outcome' = how

-----------------------------------------------------------------------------
(* Matching                                                                *)

Requires == wait.for = "probe" \/ options.requires

Token == IF wait.for = "probe" THEN "ping" ELSE "token"

(* _matches_handoff_reply: not older than the wait, in the thread of the   *)
(* message or naming the token or the sender; without the token no         *)
(* progress, and done where that is required.                              *)
Matches(reply) ==
    /\ reply.number > wait.since
    /\ reply.to = wait.sent \/ reply.names \in {Token, "sender"}
    /\ reply.text = "progress" \/ (Requires /\ reply.text # "done") => reply.names = Token

Takes(m, reply) ==
    /\ taken' = Append(taken, [reply |-> m, text |-> reply.text])
    /\ MovesTo("found")

-----------------------------------------------------------------------------
(* Sending                                                                 *)

(* started_at is taken; a nudge keeps that of the task.                    *)
Begins ==
    /\ wait.at = "begin"
    /\ wait' = [wait EXCEPT !.at = "send",
                            !.since = IF posted > ClockBehind THEN posted - ClockBehind ELSE 0]
    /\ UNCHANGED <<options, expired, blind, events, taken, outcome, posted, replies>>

(* The answers to a nudge are looked for as those to the task.             *)
Sends ==
    /\ wait.at = "send"
    /\ posted' = posted + 1
    /\ IF wait.for = "task" /\ ~wait.watch
       THEN Ends("queued")
       ELSE /\ wait' = [wait EXCEPT !.at = "look",
                                    !.sent = IF wait.for = "nudge" THEN @ ELSE posted + 1]
            /\ UNCHANGED outcome
    /\ UNCHANGED <<options, expired, blind, events, taken, replies>>

(* The platform refuses, and the command ends; a nudge it may do without.  *)
SendIsRefused ==
    /\ wait.at = "send"
    /\ Ends(IF wait.for = "nudge" THEN "timeout" ELSE "failed")
    /\ UNCHANGED <<options, expired, blind, events, taken, posted, replies>>

-----------------------------------------------------------------------------
(* Waiting                                                                 *)

Posted == {m \in Replies : replies[m].number > 0}

(* What a look at the listings may see: errors are ignored.                *)
Listed == {Posted, {m \in Posted : replies[m].to = wait.sent}, {}}

(* Where the wait goes on after a look that found nothing.                 *)
AfterLook == IF wait.at = "last" THEN "none" ELSE "check"

(* MUTATION of Looks: the last look is left out.                           *)
LooksNotAtLast ==
    /\ wait.at \in {"look", "again", "last"}
    /\ \E seen \in Listed :
        LET found == IF wait.at = "last" THEN {} ELSE {m \in seen : Matches(replies[m])}
        IN  /\ blind' = (seen # Posted)
            /\ IF found = {} THEN MovesTo(AfterLook) /\ UNCHANGED taken
               ELSE \E m \in found : Takes(m, replies[m])
    /\ expired' = (expired /\ wait.at # "look")
    /\ UNCHANGED <<options, events, outcome, posted, replies>>

(* _recent_match, at the start of a wait, after an error and at its end.   *)
Looks ==
    /\ wait.at \in {"look", "again", "last"}
    /\ \E seen \in Listed :
        LET found == {m \in seen : Matches(replies[m])}
        IN  /\ blind' = (seen # Posted)
            /\ IF found = {} THEN MovesTo(AfterLook) /\ UNCHANGED taken
               ELSE \E m \in found : Takes(m, replies[m])
    /\ expired' = (expired /\ wait.at # "look")
    /\ UNCHANGED <<options, events, outcome, posted, replies>>

(* The stream is opened, cannot be reached, or is refused.                 *)
Dials ==
    /\ wait.at = "check" /\ ~expired
    /\ MovesTo("listen") \/ MovesTo("again") \/ MovesTo("last")
    /\ events' = <<>>
    /\ UNCHANGED <<options, expired, blind, taken, outcome, posted, replies>>

GivesUpWaiting ==
    /\ wait.at = "check" /\ expired
    /\ MovesTo("last")
    /\ UNCHANGED <<options, expired, blind, events, taken, outcome, posted, replies>>

ReadsEvent ==
    /\ wait.at = "listen" /\ events # <<>>
    /\ events' = Tail(events)
    /\ LET event == Head(events)
       IN  IF expired THEN MovesTo("check") /\ UNCHANGED taken
           ELSE IF Matches(event.reply) THEN Takes(event.id, event.reply)
           ELSE UNCHANGED <<wait, taken>>
    /\ UNCHANGED <<options, expired, blind, outcome, posted, replies>>

(* The stream is silent for ten seconds, or lost; or it ends and is opened *)
(* again without a look at what was missed.                                *)
StreamStops ==
    /\ wait.at = "listen"
    /\ MovesTo("again") \/ MovesTo("check")
    /\ events' = <<>>
    /\ UNCHANGED <<options, expired, blind, taken, outcome, posted, replies>>

DeadlinePasses ==
    /\ wait.at \in {"check", "listen", "again"} /\ ~expired
    /\ expired' = TRUE
    /\ UNCHANGED <<options, wait, blind, events, taken, outcome, posted, replies>>

-----------------------------------------------------------------------------
(* run, between the waits                                                  *)

(* Without an answer to the probe the task is sent and not waited for.     *)
AfterProbe ==
    /\ wait.for = "probe" /\ wait.at \in {"found", "none"}
    /\ wait' = [wait EXCEPT !.at = "begin", !.for = "task", !.watch = wait.at = "found"]
    /\ UNCHANGED <<options, expired, blind, events, taken, outcome, posted, replies>>

NoAnswer ==
    /\ wait.for # "probe" /\ wait.at = "none"
    /\ IF wait.for = "task" /\ options.nudge
       THEN wait' = [wait EXCEPT !.at = "send", !.for = "nudge"] /\ UNCHANGED outcome
       ELSE Ends(IF wait.for = "round" THEN "loop_timeout" ELSE "timeout")
    /\ UNCHANGED <<options, expired, blind, events, taken, posted, replies>>

(* A loop goes on until its promise is given, at most MaxRounds times.     *)
GoesOn ==
    /\ wait.for # "probe" /\ wait.at = "found"
    /\ IF options.loop /\ taken[Len(taken)].text # "done" /\ wait.round < MaxRounds
       THEN /\ wait' = [wait EXCEPT !.at = "begin", !.for = "round", !.round = @ + 1]
            /\ UNCHANGED outcome
       ELSE Ends("replied")
    /\ UNCHANGED <<options, expired, blind, events, taken, posted, replies>>

-----------------------------------------------------------------------------
(* The agent: it posts replies to messages of this command or of others,   *)
(* and edits those that showed progress, which the stream reports by an    *)
(* event of another type.                                                  *)

AgentPosts(m, reply) ==
    /\ wait.at # "end"
    /\ replies[m] = Unposted
    /\ posted' = posted + 1
    /\ replies' = [replies EXCEPT ![m] = reply]
    /\ events' = IF wait.at = "listen" THEN Append(events, [id |-> m, reply |-> reply]) ELSE events
    /\ UNCHANGED <<options, wait, expired, blind, taken, outcome>>

AgentEdits(m, text) ==
    /\ wait.at # "end"
    /\ replies[m].number > 0 /\ replies[m].text = "progress"
    /\ replies' = [replies EXCEPT ![m].text = text]
    /\ UNCHANGED <<options, wait, expired, blind, events, taken, outcome, posted>>

HandoffNext ==
    \/ Begins \/ Sends \/ SendIsRefused
    \/ Looks \/ Dials \/ GivesUpWaiting \/ ReadsEvent \/ StreamStops \/ DeadlinePasses
    \/ AfterProbe \/ NoAnswer \/ GoesOn
    \/ \E m \in Replies, names \in Names, text \in Texts, to \in {0, wait.sent} :
        AgentPosts(m, [number |-> posted + 1, to |-> to, names |-> names, text |-> text])
    \/ \E m \in Replies, text \in {"status", "done"} : AgentEdits(m, text)

HandoffSpec == HandoffInit /\ [][HandoffNext]_handoff

-----------------------------------------------------------------------------
(* Properties                                                              *)

HandoffTypeOK ==
    /\ options \in [probe : BOOLEAN, nudge : BOOLEAN, loop : BOOLEAN, requires : BOOLEAN]
    /\ wait.at \in {"begin", "send", "look", "check", "listen", "again", "last", "found", "none",
                    "end"}
    /\ wait.for \in {"probe", "task", "nudge", "round"}
    /\ wait.sent <= posted /\ wait.since <= posted /\ wait.round \in 1..MaxRounds
    /\ expired \in BOOLEAN /\ blind \in BOOLEAN
    /\ taken \in Seq([reply : Replies, text : Texts])
    /\ outcome \in {"open", "queued", "failed", "timeout", "loop_timeout", "replied"}
    /\ replies \in [Replies -> [number : 0..posted, to : 0..posted, names : Names, text : Texts]]

(* "Completion means the reply was observed or the wait timed out": a wait *)
(* that ends without an answer, its last look not hindered, leaves none    *)
(* behind that was posted after its message: not one the stream missed,    *)
(* not one that was edited from progress into an answer.                   *)
Answer(m) ==
    /\ replies[m].number > wait.sent /\ replies[m].to = wait.sent
    /\ replies[m].text = "done"

AnswerIsFound ==
    [][wait.at # "none" /\ wait'.at = "none" /\ ~blind' => ~\E m \in Replies : Answer(m)]_handoff

(* REFUTED where the command's clock is behind.  One reply is not the      *)
(* answer to two messages: the answer to the probe does not answer the     *)
(* task, nor that of a round the next round.                               *)
NoReplyTwice ==
    \A i, j \in DOMAIN taken : taken[i].reply = taken[j].reply => i = j

(* REFUTED.  "No reply within {timeout}s": where the stream is refused,    *)
(* the wait is over at once.                                               *)
TimeoutMeansWaited == wait.at = "none" => expired

(* REFUTED.  "watch SSE, and return the result": what the agent answers to *)
(* someone else, or late to the probe, is returned as the result when it   *)
(* mentions the sender.                                                    *)
AnswersInThread ==
    \A i \in DOMAIN taken :
        replies[taken[i].reply].to # 0 \/ replies[taken[i].reply].names \in {"ping", "token"}
=============================================================================
