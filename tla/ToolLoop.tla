------------------------------- MODULE ToolLoop -------------------------------
(***************************************************************************)
(* The runtimes that ask a model provider directly:                        *)
(* ax_cli/runtimes/hermes/runtimes/*_sdk.py, one per provider, and the     *)
(* HistoryStore in which sentinel.py keeps what one thread of mentions has *)
(* said so far.                                                            *)
(*                                                                         *)
(* A mention is a run of turns.  In each the provider is sent the whole    *)
(* history and streams either text, which is the answer, or calls of       *)
(* tools, which are executed and whose results join the history.  What the *)
(* run leaves of its history is cut to its last rows and is what the next  *)
(* mention begins with.                                                    *)
(***************************************************************************)
EXTENDS Naturals, Sequences

CONSTANTS
    Vendors,        \* which of the runtimes the agent may be configured with
    MaxTurns,       \* MAX_TURNS of the loop
    HistoryMax,     \* max_messages of HistoryStore
    MaxCalls,       \* bound: calls of tools in one turn
    MaxMentions     \* bound: mentions

ASSUME ToolLoopAssumption ==
    /\ Vendors \subseteq {"groq", "xai", "together", "openrouter", "leapfrog", "mistral", "gemini",
                         "openai"}
    /\ HistoryMax \in Nat \ {0} /\ MaxTurns \in Nat \ {0}
    /\ MaxCalls \in Nat /\ MaxMentions \in Nat

VARIABLES
    vendor,         \* --runtime
    kept,           \* the rows that HistoryStore has of the thread
    dialogue,       \* the run: where it is, its history, turn, calls not yet executed
    late,           \* has the run's deadline passed?
    ended,          \* exit_reason of the last run
    mentions,       \* counter, for the bound
    refused         \* history: how many mentions in a row the provider refused for their history

toolLoop == <<vendor, kept, dialogue, late, ended, mentions, refused>>

(* Rows of a history: what a user says, what the assistant says, a call of *)
(* n tools, the result of one.                                             *)
User == [is |-> "user", n |-> 0]
Text == [is |-> "text", n |-> 0]
Calls(n) == [is |-> "calls", n |-> n]
Result == [is |-> "result", n |-> 0]
Rows == {User, Text, Result} \cup {Calls(n) : n \in 1..MaxCalls}

(* What a provider takes: every call is followed by its results, and a     *)
(* result follows its call.                                                *)
Whole(h) ==
    \A i \in DOMAIN h :
        /\ h[i].is = "calls" =>
            i + h[i].n <= Len(h) /\ \A j \in (i + 1)..(i + h[i].n) : h[j].is = "result"
        /\ h[i].is = "result" => \E c \in 1..(i - 1) : h[c].is = "calls" /\ i <= c + h[c].n

-----------------------------------------------------------------------------
(* The runtimes.  `refusals' says what becomes of a request that fails, by *)
(* its cause; where the cause is guessed from the message, several things  *)
(* may.  `timed': the deadline is looked at; `keepsCalls': calls and their *)
(* results are rows of the history, not prose; `presses': a first turn     *)
(* without a tool is not taken for the answer; `usedUp': what is reported  *)
(* after MaxTurns.                                                         *)
Causes == {"limit", "auth", "server", "request", "slow", "other"}
Reasons == {"done", "rate_limited", "auth_error", "server_error", "api_error", "timeout",
            "crashed", "iteration_limit"}

(* The exception classes that the SDKs of OpenAI and Groq share.           *)
Typed ==
    [limit |-> {"rate_limited"}, auth |-> {"auth_error"}, server |-> {"server_error"},
     request |-> {"api_error"}, slow |-> {"timeout"}, other |-> {"crashed"}]

Loop(refusals) ==
    [refusals |-> refusals, timed |-> TRUE, keepsCalls |-> TRUE, presses |-> FALSE,
     usedUp |-> "iteration_limit"]

Groq == Loop(Typed)
Xai == Loop(Typed)
Together == Loop(Typed)
OpenRouter == Loop(Typed)
Leapfrog == Loop(Typed)

(* One exception class for all of HTTP, told apart by status; errors of    *)
(* the SDK itself count as the request's.                                  *)
Mistral == Loop([Typed EXCEPT !.other = {"crashed", "api_error"}])

(* By words of the message, timeouts first: "deadline", then "429", "rate" *)
(* or "quota", then "401", "403" or "api key".                             *)
Gemini ==
    Loop([limit |-> {"rate_limited", "timeout"}, auth |-> {"auth_error"}, server |-> {"crashed", "timeout"},
          request |-> {"crashed", "auth_error"}, slow |-> {"timeout"}, other |-> {"crashed"}])

(* By words again, where "generate" holds a "rate"; no deadline; tools are *)
(* told as prose; used-up turns are not told at all.                       *)
OpenAI ==
    LET guessed == {"crashed", "rate_limited"}
    IN  [refusals |-> [limit |-> {"rate_limited"}, auth |-> guessed, server |-> guessed,
                       request |-> guessed, slow |-> guessed, other |-> guessed],
         timed |-> FALSE, keepsCalls |-> FALSE, presses |-> TRUE, usedUp |-> "done"]

Runtime ==
    [groq |-> Groq, xai |-> Xai, together |-> Together, openrouter |-> OpenRouter,
     leapfrog |-> Leapfrog, mistral |-> Mistral, gemini |-> Gemini, openai |-> OpenAI][vendor]

-----------------------------------------------------------------------------
NoDialogue == [at |-> "rest", history |-> <<>>, turn |-> 0, calls |-> 0]

ToolLoopInit ==
    /\ vendor \in Vendors
    /\ kept = <<>>
    /\ dialogue = NoDialogue
    /\ late = FALSE
    /\ ended = "done"
    /\ mentions = 0
    /\ refused = 0

(* MUTATION of LastRows: the store keeps the first rows.                   *)
FirstRows(h) == IF Len(h) <= HistoryMax THEN h ELSE SubSeq(h, 1, HistoryMax)

(* HistoryStore.set: the last rows.                                        *)
LastRows(h) == IF Len(h) <= HistoryMax THEN h ELSE SubSeq(h, Len(h) - HistoryMax + 1, Len(h))

(* The run ends, its history h is what the next one begins with.           *)
Returns(reason, h) ==
    /\ dialogue' = NoDialogue
    /\ kept' = LastRows(h)
    /\ ended' = reason
    /\ UNCHANGED <<vendor, late, mentions>>

(* A mention is taken up, with what the store has of its thread.          *)
Mentioned ==
    /\ dialogue.at = "rest" /\ mentions < MaxMentions
    /\ dialogue' = [at |-> "ask", history |-> Append(kept, User), turn |-> 1, calls |-> 0]
    /\ late' = FALSE
    /\ mentions' = mentions + 1
    /\ UNCHANGED <<vendor, kept, ended, refused>>

(* No key or no SDK: the run ends before it has a history.                 *)
CannotStart ==
    /\ dialogue.at = "rest" /\ mentions < MaxMentions
    /\ ended' = "crashed" /\ mentions' = mentions + 1
    /\ UNCHANGED <<vendor, kept, dialogue, late, refused>>

DialogueTimesOut ==
    /\ dialogue.at # "rest" /\ ~late
    /\ late' = TRUE
    /\ UNCHANGED <<vendor, kept, dialogue, ended, mentions, refused>>

OutOfTime == Runtime.timed /\ late

(* The top of a turn: out of turns, or out of time.                        *)
TurnsUsedUp ==
    /\ dialogue.at = "ask" /\ dialogue.turn > MaxTurns
    /\ Returns(Runtime.usedUp, dialogue.history)
    /\ UNCHANGED refused

TurnIsLate ==
    /\ dialogue.at = "ask" /\ dialogue.turn <= MaxTurns /\ OutOfTime
    /\ Returns("timeout", dialogue.history)
    /\ UNCHANGED refused

Asks == dialogue.at = "ask" /\ dialogue.turn <= MaxTurns /\ ~OutOfTime

(* The provider streams; it takes no history that is not whole.            *)
StreamOpens ==
    /\ Asks /\ Whole(dialogue.history)
    /\ dialogue' = [dialogue EXCEPT !.at = "stream"]
    /\ refused' = 0
    /\ UNCHANGED <<vendor, kept, late, ended, mentions>>

RequestFails(cause) ==
    /\ Asks
    /\ \E reason \in Runtime.refusals[cause] : Returns(reason, dialogue.history)
    /\ refused' = IF cause = "request" /\ ~Whole(dialogue.history) THEN refused + 1 ELSE refused

(* The stream breaks; text that came is kept.                              *)
StreamBreaks ==
    /\ dialogue.at = "stream" /\ Runtime.keepsCalls
    /\ \E partial \in {<<>>, <<Text>>} : Returns("crashed", dialogue.history \o partial)
    /\ UNCHANGED refused

(* What the runtime does not catch ends the run, whose history is nobody's:*)
(* with OpenAI a broken stream, with all of them a call of a tool with     *)
(* arguments that are no record.                                           *)
RunRaisesAway ==
    /\ \/ dialogue.at = "stream" /\ ~Runtime.keepsCalls
       \/ dialogue.at = "tools" /\ dialogue.calls > 0 /\ ~OutOfTime
    /\ dialogue' = NoDialogue /\ ended' = "crashed"
    /\ UNCHANGED <<vendor, kept, late, mentions, refused>>

(* The turn is text, or nothing: that is the answer, unless the run is     *)
(* pressed to use a tool first.                                            *)
StreamEnds ==
    /\ dialogue.at = "stream"
    /\ \E text \in {<<>>, <<Text>>} :
        LET pressed == Runtime.presses /\ dialogue.turn = 1 /\ text # <<>>
        IN  IF pressed
            THEN /\ dialogue' = [dialogue EXCEPT !.at = "ask", !.turn = @ + 1,
                                         !.history = @ \o text \o <<User>>]
                 /\ UNCHANGED <<vendor, kept, late, ended, mentions>>
            ELSE Returns("done", dialogue.history \o text)
    /\ UNCHANGED refused

(* The turn calls n tools.                                                 *)
StreamCalls(n) ==
    /\ dialogue.at = "stream"
    /\ dialogue' = [dialogue EXCEPT !.at = "tools", !.calls = n,
                            !.history = IF Runtime.keepsCalls THEN Append(@, Calls(n)) ELSE @]
    /\ UNCHANGED <<vendor, kept, late, ended, mentions, refused>>

(* One tool is executed, or it is too late for it.                         *)
ToolRuns ==
    /\ dialogue.at = "tools" /\ dialogue.calls > 0 /\ ~OutOfTime
    /\ dialogue' = [dialogue EXCEPT !.calls = @ - 1,
                            !.history = IF Runtime.keepsCalls THEN Append(@, Result) ELSE @]
    /\ UNCHANGED <<vendor, kept, late, ended, mentions, refused>>

ToolIsLate ==
    /\ dialogue.at = "tools" /\ dialogue.calls > 0 /\ OutOfTime
    /\ Returns("timeout", dialogue.history)
    /\ UNCHANGED refused

TurnEnds ==
    /\ dialogue.at = "tools" /\ dialogue.calls = 0
    /\ dialogue' = [dialogue EXCEPT !.at = "ask", !.turn = @ + 1,
                            !.history = IF Runtime.keepsCalls THEN @ ELSE @ \o <<Text, User>>]
    /\ UNCHANGED <<vendor, kept, late, ended, mentions, refused>>

ToolLoopNext ==
    \/ Mentioned \/ CannotStart \/ DialogueTimesOut
    \/ TurnsUsedUp \/ TurnIsLate
    \/ StreamOpens \/ \E cause \in Causes : RequestFails(cause)
    \/ StreamBreaks \/ RunRaisesAway \/ StreamEnds
    \/ \E n \in 1..MaxCalls : StreamCalls(n)
    \/ ToolRuns \/ ToolIsLate \/ TurnEnds

ToolLoopSpec == ToolLoopInit /\ [][ToolLoopNext]_toolLoop

-----------------------------------------------------------------------------
ToolLoopTypeOK ==
    /\ vendor \in Vendors
    /\ kept \in Seq(Rows) /\ Len(kept) <= HistoryMax
    /\ dialogue.at \in {"rest", "ask", "stream", "tools"} /\ dialogue.history \in Seq(Rows)
    /\ dialogue.turn \in 0..(MaxTurns + 1) /\ dialogue.calls \in 0..MaxCalls
    /\ late \in BOOLEAN /\ ended \in Reasons
    /\ mentions \in 0..MaxMentions /\ refused \in Nat

(* A thread whose history the provider refuses recovers: each mention it   *)
(* refuses is a row more, and pushes what it refuses out of the store.     *)
RefusalsEnd == refused <= HistoryMax

(* REFUTED.  "Reply to continue where I left off" (sentinel.py, of a run   *)
(* at its limit): the store cuts between a call and its results, or a     *)
(* deadline comes between them, and the provider refuses the reply.        *)
HistoryIsWhole == Whole(kept)
=============================================================================
