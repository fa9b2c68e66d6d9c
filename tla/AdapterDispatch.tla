---------------------------- MODULE AdapterDispatch ----------------------------
(***************************************************************************)
(* What becomes of a mention in the plugin by which Hermes itself listens: *)
(* AxAdapter of ax_cli/plugins/platforms/ax/adapter.py.                    *)
(*                                                                         *)
(* A mention belongs to the session of its thread.  A run of a session may *)
(* wait for somebody to approve a command; an /approve or /deny that comes *)
(* from another thread is turned to the session that waits, if the threads *)
(* remembered hold exactly one.  Each thread has a bubble, which is set to *)
(* thinking before a mention is handed to Hermes and is cleared when the   *)
(* run ends.  Sessions are those of Hermes, as the adapter uses them.      *)
(*                                                                         *)
(* Events that _seen_or_record knows leave all this as it is: an event     *)
(* here is one that it does not know.                                      *)
(***************************************************************************)
EXTENDS Naturals, FiniteSets

CONSTANTS
    Threads,        \* thread roots
    NoThread,
    MaxRemembered,  \* MAX_REMEMBERED_SESSIONS
    MaxHeard        \* bound: events taken

ASSUME DispatchAssumption ==
    /\ IsFiniteSet(Threads) /\ NoThread \notin Threads
    /\ MaxRemembered \in Nat \ {0} /\ MaxHeard \in Nat

VARIABLES
    given,          \* the thread whose mention _dispatch_inbound announces, and how far it is
    recents,        \* _recent_roots: the threads remembered
    mentionedAt,    \* the event that mentioned a thread last, 0 if none did: the order
                    \*   of _recent_roots, and history for the threads forgotten
    sessions,       \* of Hermes: idle, running, blocked
    waitingFor,     \* threads with a mention for the run after the present one
    bubbles,        \* threads that the platform shows as thinking
    heardSoFar,     \* counter, for the bound
    passedOver,     \* history: for each prompt a redirect passed over, how many
                    \*   other threads were mentioned after its own
    lostBubbles     \* history: bubbles whose clearing was lost, or whose mention was

dispatch == <<given, recents, mentionedAt, sessions, waitingFor, bubbles, heardSoFar, passedOver,
              lostBubbles>>

Given(at, t) == [at |-> at, thread |-> t]
NotGiven == Given("rest", NoThread)

DispatchInit ==
    /\ given = NotGiven
    /\ recents = {} /\ mentionedAt = [t \in Threads |-> 0]
    /\ sessions = [t \in Threads |-> "idle"]
    /\ waitingFor = {} /\ bubbles = {} /\ lostBubbles = {}
    /\ heardSoFar = 0
    /\ passedOver = {}

-----------------------------------------------------------------------------
(* MUTATION of Remember: popitem() as it is by default.                    *)
RememberPopsLast(threads, at) ==
    IF Cardinality(threads) > MaxRemembered
    THEN threads \ {CHOOSE u \in threads : \A v \in threads : at[v] <= at[u]} ELSE threads

Oldest(threads, at) == CHOOSE u \in threads : \A v \in threads : at[u] <= at[v]

(* _remember_session: beyond its size, the one mentioned first is          *)
(* forgotten.                                                              *)
Remember(threads, at) ==
    IF Cardinality(threads) > MaxRemembered THEN threads \ {Oldest(threads, at)} ELSE threads

Blocked == {t \in Threads : sessions[t] = "blocked"}

(* Where an approval from thread t goes: to its own session if that waits, *)
(* to the only remembered one that waits, else to its own.                 *)
ApprovalTarget(t) ==
    LET others == (recents \ {t}) \cap Blocked
    IN  IF t \in Blocked \/ Cardinality(others) # 1 THEN t ELSE CHOOSE u \in others : TRUE

MentionedSince(t) == {u \in Threads : mentionedAt[u] > mentionedAt[t]}

-----------------------------------------------------------------------------
(* The adapter: one event is dispatched at a time                          *)

Remembers(t) ==
    /\ given = NotGiven /\ heardSoFar < MaxHeard
    /\ heardSoFar' = heardSoFar + 1
    /\ mentionedAt' = [mentionedAt EXCEPT ![t] = heardSoFar']
    /\ recents' = Remember(recents \cup {t}, mentionedAt')
    /\ UNCHANGED <<sessions, waitingFor, bubbles, passedOver, lostBubbles>>

HearsMention(t) == Remembers(t) /\ given' = Given("announcing", t)

(* Hermes's other inline commands, as /stop and /new, have no bubble; that *)
(* they may end a run is SessionEnds.                                      *)
HearsCommand(t) == Remembers(t) /\ UNCHANGED given

(* MUTATION of HearsApproval: approvals are announced as mentions are.     *)
HearsApprovalThinking(t) ==
    /\ given = NotGiven /\ heardSoFar < MaxHeard
    /\ heardSoFar' = heardSoFar + 1
    /\ LET target == ApprovalTarget(t)
       IN  sessions' = IF target \in Blocked
                       THEN [sessions EXCEPT ![target] = "running"] ELSE sessions
    /\ bubbles' = bubbles \cup {t}
    /\ UNCHANGED <<given, recents, mentionedAt, waitingFor, passedOver, lostBubbles>>

(* An approval is handed over inline and has no bubble: nothing would      *)
(* clear it.                                                               *)
HearsApproval(t) ==
    /\ given = NotGiven /\ heardSoFar < MaxHeard
    /\ heardSoFar' = heardSoFar + 1
    /\ LET target == ApprovalTarget(t)
       IN  /\ sessions' = IF target \in Blocked
                          THEN [sessions EXCEPT ![target] = "running"] ELSE sessions
           /\ passedOver' = IF target # t
                            THEN passedOver \cup
                                 {Cardinality(MentionedSince(u)) : u \in Blocked \ {target}}
                            ELSE passedOver
    /\ UNCHANGED <<given, recents, mentionedAt, waitingFor, bubbles, lostBubbles>>

(* _post_processing_status: best effort.                                   *)
AnnouncesThinking ==
    /\ given.at = "announcing"
    /\ \/ bubbles' = bubbles \cup {given.thread}
       \/ UNCHANGED bubbles
    /\ given' = Given("handing", given.thread)
    /\ UNCHANGED <<recents, mentionedAt, sessions, waitingFor, heardSoFar, passedOver,
                   lostBubbles>>

(* handle_message: a run, or a mention for the run after this one.         *)
HandsToHermes ==
    /\ given.at = "handing"
    /\ LET t == given.thread
       IN  IF sessions[t] = "idle"
           THEN sessions' = [sessions EXCEPT ![t] = "running"] /\ UNCHANGED waitingFor
           ELSE waitingFor' = waitingFor \cup {t} /\ UNCHANGED sessions
    /\ given' = NotGiven
    /\ UNCHANGED <<recents, mentionedAt, bubbles, heardSoFar, passedOver, lostBubbles>>

(* disconnect cancels the task that dispatches.                            *)
DispatchIsCancelled ==
    /\ given # NotGiven
    /\ given' = NotGiven
    /\ lostBubbles' = lostBubbles \cup ({given.thread} \cap bubbles)
    /\ UNCHANGED <<recents, mentionedAt, sessions, waitingFor, bubbles, heardSoFar,
                   passedOver>>

-----------------------------------------------------------------------------
(* Hermes, and what it calls of the adapter                                *)

SessionBlocks(t) ==
    /\ sessions[t] = "running"
    /\ sessions' = [sessions EXCEPT ![t] = "blocked"]
    /\ UNCHANGED <<given, recents, mentionedAt, waitingFor, bubbles, heardSoFar,
                   passedOver, lostBubbles>>

PromptExpires(t) ==
    /\ sessions[t] = "blocked"
    /\ sessions' = [sessions EXCEPT ![t] = "running"]
    /\ UNCHANGED <<given, recents, mentionedAt, waitingFor, bubbles, heardSoFar,
                   passedOver, lostBubbles>>

(* send_typing: thinking again, as long as the run lasts.                  *)
SessionTypes(t) ==
    /\ sessions[t] = "running"
    /\ bubbles' = bubbles \cup {t}
    /\ UNCHANGED <<given, recents, mentionedAt, sessions, waitingFor, heardSoFar,
                   passedOver, lostBubbles>>

(* send: a reply that is refused for good clears the bubble with an error. *)
ReplyIsRefused(t) ==
    /\ sessions[t] = "running" /\ t \in bubbles
    /\ bubbles' = bubbles \ {t} /\ lostBubbles' = lostBubbles \ {t}
    /\ UNCHANGED <<given, recents, mentionedAt, sessions, waitingFor, heardSoFar, passedOver>>

(* stop_typing when a run ends, whether it replied, was stopped or failed; *)
(* the next run follows.                                                   *)
SessionEnds(t) ==
    /\ sessions[t] = "running"
    /\ sessions' = [sessions EXCEPT ![t] = IF t \in waitingFor THEN "running" ELSE "idle"]
    /\ waitingFor' = waitingFor \ {t}
    /\ \/ bubbles' = bubbles \ {t} /\ lostBubbles' = lostBubbles \ {t}
       \/ UNCHANGED bubbles /\ lostBubbles' = lostBubbles \cup ({t} \cap bubbles)
    /\ UNCHANGED <<given, recents, mentionedAt, heardSoFar, passedOver>>

DispatchNext ==
    \/ AnnouncesThinking \/ HandsToHermes \/ DispatchIsCancelled
    \/ \E t \in Threads :
        \/ HearsMention(t) \/ HearsCommand(t) \/ HearsApproval(t)
        \/ SessionBlocks(t) \/ PromptExpires(t)
        \/ SessionTypes(t) \/ ReplyIsRefused(t) \/ SessionEnds(t)

DispatchSpec == DispatchInit /\ [][DispatchNext]_dispatch

-----------------------------------------------------------------------------
(* Properties                                                              *)

DispatchTypeOK ==
    /\ given \in [at : {"rest", "announcing", "handing"}, thread : Threads \cup {NoThread}]
    /\ recents \subseteq Threads /\ Cardinality(recents) <= MaxRemembered
    /\ mentionedAt \in [Threads -> 0..heardSoFar]
    /\ sessions \in [Threads -> {"idle", "running", "blocked"}]
    /\ waitingFor \subseteq Threads /\ bubbles \subseteq Threads /\ lostBubbles \subseteq Threads
    /\ heardSoFar \in 0..MaxHeard
    /\ passedOver \subseteq Nat

(* "We never guess which of several pending approvals the user meant": an  *)
(* approval is turned to another session's prompt past a second one only   *)
(* when MaxRemembered other threads were mentioned since the second's.     *)
RedirectIsUnambiguous == \A n \in passedOver : n >= MaxRemembered

(* REFUTED.  The same, without the exception: the second prompt's thread   *)
(* is forgotten while its run still waits.                                 *)
NeverGuesses == passedOver = {}

(* No "phantom spinner": a thread that is shown thinking has a run, or a   *)
(* mention on its way to one, unless a status was lost or disconnect fell  *)
(* between the two.                                                        *)
NoPhantomSpinner ==
    \A t \in bubbles : sessions[t] # "idle" \/ given.thread = t \/ t \in lostBubbles
=============================================================================
