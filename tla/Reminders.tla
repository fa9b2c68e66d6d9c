------------------------------ MODULE Reminders ------------------------------
(***************************************************************************)
(* Reminder policies and their drafts, kept in one JSON file, from         *)
(* ax_cli/commands/reminders.py.                                           *)
(*                                                                         *)
(* `run` loads the store, fires what is due over the network and saves the *)
(* whole store at the end of the pass; `drafts send` and `groom` hold it   *)
(* in the same way while they talk to the platform; the other commands     *)
(* load and save it at once.  There is no lock and no merge.  Time is in   *)
(* whole seconds.                                                          *)
(***************************************************************************)
EXTENDS Naturals, Sequences

CONSTANTS
    Policies,
    Idle,           \* no pass, no slow command in progress
    Cadence,        \* seconds between the fires of a policy
    MaxFires,       \* max_fires of a new policy
    MaxTime,        \* bound: seconds
    MaxEdits,       \* bound: commands that change the store
    MaxCrashes      \* bound: passes that end without saving

ASSUME ReminderAssumption ==
    Cadence \in Nat \ {0} /\ MaxFires \in Nat /\ MaxTime \in Nat

(* until: resume_at, 0 for a pause without end; why: disabled_reason;      *)
(* keys: the next_fire_at of fired_keys.                                   *)
Policy == [enabled : BOOLEAN, why : {"", "cancelled", "max_fires", "task", "groomed"}, paused : BOOLEAN,
           until : Nat, mode : {"auto", "draft", "manual"}, fired : Nat, max : Nat,
           next : Nat, keys : SUBSET Nat]
Draft == [policy : Policies, key : Nat, status : {"pending", "sent", "cancelled"}]
IsStore(s) ==
    /\ s = [policies |-> s.policies, drafts |-> s.drafts]
    /\ DOMAIN s.policies \subseteq Policies
    /\ s.policies \in [DOMAIN s.policies -> Policy]
    /\ s.drafts \in Seq(Draft)

Stores == [policies : UNION {[D -> Policy] : D \in SUBSET Policies}, drafts : Seq(Draft)]
RunRecord == [loaded : Stores, copy : Stores, now : Nat, todo : SUBSET Policies]
CommandRecord == [loaded : Stores, draft : Nat, now : Nat]

ASSUME IdleAssumption == Idle \notin RunRecord /\ Idle \notin CommandRecord

VARIABLES
    store,          \* the file
    run,            \* a pass in progress: its copy and what is left to fire
    command,        \* a `drafts send` or `groom` in progress
    closed,         \* policies whose source task is terminal
    clock,
    edits, crashes, \* counters, for the bounds
    reached,        \* history: how often each fire of a policy reached people
    losses          \* history: saves over another's, fires not saved or not known

reminders == <<store, run, command, closed, clock, edits, crashes, reached, losses>>

Keys == 0..(MaxTime + Cadence)

NewPolicy(mode, first) ==
    [enabled |-> TRUE, why |-> "", paused |-> FALSE, until |-> 0, mode |-> mode,
     fired |-> 0, max |-> MaxFires, next |-> first, keys |-> {}]

RemindersInit ==
    /\ store = [policies |-> <<>>, drafts |-> <<>>]
    /\ run = Idle /\ command = Idle
    /\ closed = {}
    /\ clock = 1
    /\ edits = 0 /\ crashes = 0
    /\ reached = [p \in Policies |-> [k \in Keys |-> 0]]
    /\ losses = 0

-----------------------------------------------------------------------------
(* A pass                                                                  *)

Added == DOMAIN store.policies

Completed(q) == q.fired >= q.max
Resumed(q) == [q EXCEPT !.paused = FALSE, !.until = 0]
Awake(q, now) == IF q.paused /\ q.until # 0 /\ q.until <= now THEN Resumed(q) ELSE q

(* _due_policies also resumes what was paused until now and disables what  *)
(* is completed.                                                           *)
Considered(q) == q.enabled /\ q.mode # "manual"
Refreshed(q, now) ==
    IF ~Considered(q) THEN q
    ELSE [Awake(q, now) EXCEPT !.enabled = Awake(q, now).paused \/ ~Completed(q)]
(* MUTATION of Due: the keys of earlier fires are not looked at.           *)
DueAgain(q, now) ==
    /\ Considered(q) /\ ~q.paused
    /\ q.next <= now

Due(q, now) ==
    /\ Considered(q) /\ ~q.paused
    /\ q.next <= now /\ q.next \notin q.keys

RunLoads ==
    /\ run = Idle
    /\ LET copy == [store EXCEPT !.policies = [p \in Added |-> Refreshed(store.policies[p], clock)]]
       IN  run' = [loaded |-> store, copy |-> copy, now |-> clock,
                   todo |-> {p \in Added : Due(copy.policies[p], clock)}]
    /\ UNCHANGED <<store, command, closed, clock, edits, crashes, reached, losses>>

(* _advance_policy.                                                        *)
Advanced(q, now) ==
    LET fired == [q EXCEPT !.fired = @ + 1, !.keys = @ \cup {q.next}]
    IN  IF Completed(fired) THEN [fired EXCEPT !.enabled = FALSE, !.why = "max_fires"]
        ELSE [fired EXCEPT !.next = now + Cadence]

Drafted(p) == Append(run.copy.drafts, [policy |-> p, key |-> run.copy.policies[p].next, status |-> "pending"])

(* The pass is done with p; its copy takes the policy and the drafts.      *)
Handled(p, q, drafts) ==
    run' = [run EXCEPT !.todo = @ \ {p}, !.copy.policies[p] = q, !.copy.drafts = drafts]

Reaches(p) == reached' = [reached EXCEPT ![p][run.copy.policies[p].next] = @ + 1]

Firing(p) == run # Idle /\ p \in run.todo
(* MUTATION of RunSkips: it goes on to the next policy.                    *)
RunSkipsOnly(p) ==
    /\ Firing(p) /\ p \in closed
    /\ Handled(p, run.copy.policies[p], run.copy.drafts)
    /\ UNCHANGED <<store, command, closed, clock, edits, crashes, reached, losses>>

(* The task is looked up; where that fails the policy fires all the same.  *)
RunSkips(p) ==
    /\ Firing(p) /\ p \in closed
    /\ Handled(p, [run.copy.policies[p] EXCEPT !.enabled = FALSE, !.why = "task"], run.copy.drafts)
    /\ UNCHANGED <<store, command, closed, clock, edits, crashes, reached, losses>>

RunSends(p) ==
    /\ Firing(p) /\ run.copy.policies[p].mode = "auto"
    /\ Reaches(p)
    /\ Handled(p, Advanced(run.copy.policies[p], run.now), run.copy.drafts)
    /\ UNCHANGED <<store, command, closed, clock, edits, crashes, losses>>

(* In draft mode, and where the platform cannot be reached: the draft is   *)
(* the fire.  A connection that broke may have carried the message.        *)
RunDrafts(p) ==
    /\ Firing(p)
    /\ \/ UNCHANGED <<reached, losses>>
       \/ run.copy.policies[p].mode = "auto" /\ Reaches(p) /\ losses' = losses + 1
    /\ Handled(p, Advanced(run.copy.policies[p], run.now), Drafted(p))
    /\ UNCHANGED <<store, command, closed, clock, edits, crashes>>

(* An HTTP error: the policy stays due.                                    *)
RunIsRefused(p) ==
    /\ Firing(p) /\ run.copy.policies[p].mode = "auto"
    /\ Handled(p, run.copy.policies[p], run.copy.drafts)
    /\ UNCHANGED <<store, command, closed, clock, edits, crashes, reached, losses>>

Overwrites(loaded) == IF store = loaded THEN 0 ELSE 1

RunSaves ==
    /\ run # Idle /\ run.todo = {}
    /\ store' = run.copy
    /\ losses' = losses + Overwrites(run.loaded)
    /\ run' = Idle
    /\ UNCHANGED <<command, closed, clock, edits, crashes, reached>>

(* The process is killed, or ends on an error it does not catch, like a    *)
(* timeout, which may come after the message arrived.                      *)
RunCrashes ==
    /\ run # Idle /\ crashes < MaxCrashes
    /\ \/ UNCHANGED reached
       \/ \E p \in run.todo : run.copy.policies[p].mode = "auto" /\ Reaches(p)
    /\ losses' = losses + 1
    /\ crashes' = crashes + 1
    /\ run' = Idle
    /\ UNCHANGED <<store, command, closed, clock, edits>>

-----------------------------------------------------------------------------
(* Commands                                                                *)

Edit(q) == edits < MaxEdits /\ edits' = edits + 1 /\ store' = q

EditPolicy(p, q) ==
    /\ Edit([store EXCEPT !.policies[p] = q])
    /\ UNCHANGED <<run, command, closed, clock, crashes, reached, losses>>

Add(p) ==
    /\ p \notin Added
    /\ \E mode \in {"auto", "draft", "manual"}, first \in {clock, clock + 1} :
        Edit([store EXCEPT !.policies = [q \in Added \cup {p} |-> IF q = p THEN NewPolicy(mode, first) ELSE @[q]]])
    /\ UNCHANGED <<run, command, closed, clock, crashes, reached, losses>>

Disable(p) == EditPolicy(p, [store.policies[p] EXCEPT !.enabled = FALSE])
Cancel(p) == EditPolicy(p, [store.policies[p] EXCEPT !.enabled = FALSE, !.why = "cancelled"])

(* pause, without end or until the next second; snooze is the latter.      *)
Pause(p) ==
    \E until \in {0, clock + 1} :
        EditPolicy(p, [store.policies[p] EXCEPT !.paused = TRUE, !.until = until])

Resume(p) ==
    /\ ~Completed(store.policies[p]) /\ store.policies[p].why # "task"
    /\ EditPolicy(p, [Resumed(store.policies[p]) EXCEPT !.enabled = TRUE, !.next = clock])

UpdatePolicy(p) ==
    \/ \E mode \in {"auto", "draft", "manual"} \ {store.policies[p].mode} :
        EditPolicy(p, [store.policies[p] EXCEPT !.mode = mode])
    \/ EditPolicy(p, [store.policies[p] EXCEPT !.max = @ + 1])

Pending(i) == i \in DOMAIN store.drafts /\ store.drafts[i].status = "pending"

CancelDraft(i) ==
    /\ Pending(i)
    /\ Edit([store EXCEPT !.drafts[i].status = "cancelled"])
    /\ UNCHANGED <<run, command, closed, clock, crashes, reached, losses>>

NoDraft == 0

SendLoads(i) ==
    /\ command = Idle /\ Pending(i) /\ edits < MaxEdits
    /\ edits' = edits + 1
    /\ command' = [loaded |-> store, draft |-> i, now |-> clock]
    /\ UNCHANGED <<store, run, closed, clock, crashes, reached, losses>>

Sending == command # Idle /\ command.draft # NoDraft

SendSaves ==
    /\ Sending
    /\ LET draft == command.loaded.drafts[command.draft]
       IN  /\ reached' = [reached EXCEPT ![draft.policy][draft.key] = @ + 1]
           /\ store' = [command.loaded EXCEPT !.drafts[command.draft].status = "sent"]
           /\ losses' = losses + Overwrites(command.loaded)
    /\ command' = Idle
    /\ UNCHANGED <<run, closed, clock, edits, crashes>>

(* An HTTP error or one nobody catches: after a timeout the message may    *)
(* have arrived.                                                           *)
SendFails ==
    /\ Sending
    /\ LET draft == command.loaded.drafts[command.draft]
       IN  \/ UNCHANGED <<reached, losses>>
           \/ /\ reached' = [reached EXCEPT ![draft.policy][draft.key] = @ + 1]
              /\ losses' = losses + 1
    /\ command' = Idle
    /\ UNCHANGED <<store, run, closed, clock, edits, crashes>>

(* groom --apply disables what is completed and what has a task it found   *)
(* closed, and saves, with what it resumed, if it disabled any.            *)
GroomLoads ==
    /\ command = Idle /\ edits < MaxEdits /\ Added # {}
    /\ edits' = edits + 1
    /\ command' = [loaded |-> store, draft |-> NoDraft, now |-> clock]
    /\ UNCHANGED <<store, run, closed, clock, crashes, reached, losses>>

GroomEnds ==
    /\ command # Idle /\ command.draft = NoDraft
    /\ \E found \in SUBSET closed :
        LET held == command.loaded.policies
            awake == [p \in DOMAIN held |-> Awake(held[p], command.now)]
            finished == {p \in DOMAIN held : p \in found \/ (Completed(held[p]) /\ ~awake[p].paused)}
            groomed == [p \in DOMAIN held |->
                            IF p \notin finished THEN awake[p]
                            ELSE [awake[p] EXCEPT !.enabled = FALSE, !.paused = FALSE, !.why = "groomed"]]
        IN  \/ finished = {} /\ UNCHANGED <<store, losses>>
            \/ /\ finished # {}
               /\ store' = [command.loaded EXCEPT !.policies = groomed]
               /\ losses' = losses + Overwrites(command.loaded)
    /\ command' = Idle
    /\ UNCHANGED <<run, closed, clock, edits, crashes, reached>>

-----------------------------------------------------------------------------

TaskCloses(p) ==
    /\ p \notin closed
    /\ closed' = closed \cup {p}
    /\ UNCHANGED <<store, run, command, clock, edits, crashes, reached, losses>>

ClockTicks ==
    /\ clock < MaxTime
    /\ clock' = clock + 1
    /\ UNCHANGED <<store, run, command, closed, edits, crashes, reached, losses>>

RemindersNext ==
    \/ RunLoads \/ RunSaves \/ RunCrashes
    \/ \E p \in Policies :
        \/ RunSkips(p) \/ RunSends(p) \/ RunDrafts(p) \/ RunIsRefused(p)
        \/ Add(p) \/ TaskCloses(p)
    \/ \E p \in Added : Disable(p) \/ Cancel(p) \/ Pause(p) \/ Resume(p) \/ UpdatePolicy(p)
    \/ \E i \in DOMAIN store.drafts : CancelDraft(i) \/ SendLoads(i)
    \/ SendSaves \/ SendFails
    \/ GroomLoads \/ GroomEnds
    \/ ClockTicks

RunFires(p) == RunSkips(p) \/ RunSends(p) \/ RunDrafts(p)

(* `run --watch` makes pass after pass, or cron does; no policy is refused *)
(* for ever.                                                               *)
RemindersSpec ==
    /\ RemindersInit /\ [][RemindersNext]_reminders
    /\ WF_reminders(RunLoads) /\ WF_reminders(RunSaves)
    /\ \A p \in Policies : WF_reminders(RunFires(p) \/ RunIsRefused(p)) /\ SF_reminders(RunFires(p))

-----------------------------------------------------------------------------
(* Properties                                                              *)

RemindersTypeOK ==
    /\ IsStore(store)
    /\ run # Idle => /\ IsStore(run.loaded) /\ IsStore(run.copy)
                     /\ run.todo \subseteq DOMAIN run.copy.policies /\ run.now \in Nat
    /\ command # Idle => /\ IsStore(command.loaded) /\ command.now \in Nat
                         /\ command.draft \in DOMAIN command.loaded.drafts \cup {NoDraft}
    /\ closed \in SUBSET Policies
    /\ clock \in Nat /\ edits \in Nat /\ crashes \in Nat
    /\ reached \in [Policies -> [Keys -> Nat]]
    /\ losses \in Nat

(* One fire of a policy reaches people once, as a message or as a draft    *)
(* somebody sends, and once more only for each save over another's, each   *)
(* pass that was not saved and each message not known to have arrived.     *)
FiredOnce == \A p \in Policies : \A k \in Keys : reached[p][k] <= 1 + losses

IsDue(p) == p \in Added /\ Due(store.policies[p], clock) /\ ~Completed(store.policies[p])

(* A policy that is due, and stays so, is fired or drafted or its task is  *)
(* found closed, though passes crash, are refused and are undone.          *)
DueIsFired == \A p \in Policies : IsDue(p) ~> ~IsDue(p)

(* REFUTED.  "Terminal is a one-way transition.  The runner never          *)
(* re-enables a policy it disabled for lifecycle reasons"                  *)
(* (reminder-lifecycle.md): a save over its pass does, and so does a       *)
(* resume once groom wrote another reason.                                 *)
ClosedStaysOff ==
    [][\A p \in Added : store.policies[p].why = "task" => p \in Added' /\ ~store'.policies[p].enabled]_store

(* REFUTED.  A pass does not put back what was cancelled, nor drop what    *)
(* was added, while it fired.                                              *)
PassKeepsEdits ==
    [][run # Idle /\ run' = Idle =>
        \A p \in Added : p \in Added' /\ (store.policies[p].enabled \/ ~store'.policies[p].enabled)]_store

(* REFUTED.  An enabled policy whose time has come is fired: resumed       *)
(* within the second it was fired for, it has a key that was used.         *)
Ripe(p) ==
    /\ p \in Added /\ store.policies[p].enabled /\ store.policies[p].mode # "manual"
    /\ ~store.policies[p].paused /\ store.policies[p].next <= clock
RipeIsFired == \A p \in Policies : Ripe(p) ~> ~Ripe(p)
=============================================================================
