# A verification project for the ax Gateway

TLA+ models of the concurrent core of `ax_cli`: the Gateway, a daemon that keeps
agents of an organisation's platform running on one machine, with the commands and
the local UI server that share its files, and the programs beside it that bridge,
remind, report and hand tasks over. TLC checks the models on small instances; TLAPS
proves, for every value of the constants, every safety invariant and action property that a
run checks. Source
paths below are relative to the repository (`ax_cli/...`).

1. [The system](#1-the-system)
2. [Modules](#2-modules)
3. [What the runs check](#3-what-the-runs-check)
4. [What is proved](#4-what-is-proved)
5. [Disagreements between code and documents](#5-disagreements-between-code-and-documents)
6. [What is not modelled](#6-what-is-not-modelled)
7. [Plan](#7-plan)

## 1. The system

### Processes

Everything runs on one machine and meets in `~/.ax/gateway` (one directory per
`AX_GATEWAY_ENV`):

* the **daemon** (`GatewayDaemon.run`): polls once a second, loads the registry,
  starts and stops a runtime per agent, saves the registry;
* in the daemon, per agent, a **listener** and a **worker** thread
  (`ManagedAgentRuntime`), and for some runtimes a supervised subprocess with a monitor
  thread, such as the Hermes **sentinel**, which has a reader, a worker and updaters of
  its own;
* the **UI server** (`commands/gateway_ui.py`), whose request threads run the same
  functions as the commands;
* any number of **commands** (`ax gateway ...`, `ax reminders ...`, `ax heartbeat ...`,
  `ax handoff ...`), each a process of its own;
* the **channel** (`ax channel`), a child of a Claude Code session.

They talk through files, mostly without locks: `registry.json`, `activity.jsonl` (with
a lock), `gateway.pid`, one `pending.json` per pass-through agent, the stores of
reminders and heartbeats, `tokens.json`. The **platform** is upstream: an event stream
that may repeat messages, and requests that may fail.

### Components

| Component | State | Operations | What is hard | What makes it correct |
|---|---|---|---|---|
| Registry (`gateway_storage.py`, lifecycle commands) | rows with some thirty fields, approvals, bindings | load, merging save, add, remove, start, stop, archive, restore, hide, approve, deny | every writer loads, edits and saves the whole file; the daemon's copy is seconds old | a save changes only what its author meant to change |
| Activity log (`record_gateway_activity`, `audit/verify.py`) | hash-chained lines of JSON | record, verify | recorders in several processes; death within a write | one chain, nothing rewritten, a verifier that blames the right lines |
| Managed agent runtime (`gateway_runtime.py`) | queue, seen sets, statuses posted | receive, queue, work, reply, stop | two threads and a stop that waits for neither | answered once, closed in the end, stops |
| Supervised subprocess (`gateway_runtime.py`, `gateway_daemon.py`) | row, runtime object, child, monitors | pass, start, back off, give up, stop | old monitors report after new children start; the pass works on a copy | one child; a broken setup is given up, neither early nor never |
| Gateway processes (`GatewayDaemon.run`, `gateway_daemon_cmd.py`) | pid file, process table | start, stop, die | check then write; stale files; reused pids | one daemon; a stop hits its own daemon |
| Pass-through mailbox (`gateway_messaging.py`, `gateway_session.py`) | pending.json, the row's depth, the unread mark upstream | append, ack, reply, poll | load and save without a lock, across processes | nothing twice, nothing lost unseen, a true depth |
| Governance (`gateway_governance.py`, `gateway_identity.py`) | bindings, approval requests, attestation | bind, attest, request, decide, archive | daemon and operator in any order; drift and drift back | what runs was consented to; what is blocked can be approved |
| Placement (`gateway_entries.py`, move command) | space, revision, the stream read | place, move, apply event, rebind | an event may come before or after the poll and the move's answer | the runtime reads the space its row names |
| Reminders (`commands/reminders.py`) | policies and drafts in a JSON store | pass, draft, groom, edit | a pass sends over the network between its load and its save | fired as often as asked, in the end |
| Heartbeats (`commands/heartbeat.py`) | a ring buffer in a JSON store | send, watch, push | the same | nothing marked pushed that did not arrive |
| Client, token cache (`client.py`, `token_cache.py`) | tokens.json, rate-limit window | exchange, invalidate, retry | processes share the file, truncate and chmod are steps | no request is given up on an old token |
| Claude Code channel (`commands/channel.py`) | seen set, bounded queue, receipts | receive, deliver, reply | a thread hands into an asyncio loop; overflow | notified once, nothing left behind |
| Hermes sentinel (`runtimes/hermes/sentinel.py`) | queue, a reply per run, rate-limit count | hear, run, update, finish, pause | a thread edits the reply that the run's end edits for the last time | the final reply stands; limits pause; mentions are taken |
| Handoff (`commands/handoff.py`) | one wait on stream and listings | probe, send, wait, nudge, loop | an answer before the stream is open, or edited afterwards | no answer is left behind, none is taken twice |
| Provider runtimes (`runtimes/hermes/runtimes`) | a thread's history between mentions | ask, call a tool, answer, give up | a deadline, a limit or a broken stream between a call and its result | a refused history does not stay refused |
| Hermes adapter (`plugins/platforms/ax`) | two tasks and a token; threads remembered, bubbles | connect, beat, disconnect; dispatch, approve, type | a heartbeat under way at the disconnect; approvals routed across threads | the last word is offline; no prompt is passed over; no bubble without a run |
| Connectors (`connectors/`) | connectors.json | add, update, remove, call | as the registry, without merge | as the registry |
| Everything else | none that outlives a call | format, validate, request | | |

`PROJECT.json` lists each component with its files and its status, and under `hazards`
what in this code a test would hardly reach, at its line, with the properties about it.

### Interactions

Commands and UI threads change rows of the registry; the daemon's poll reads what they
want (`desired_state`), starts and stops runtimes, and writes back what it observed.
Runtimes take messages from the platform and post statuses and replies. For a
pass-through agent the listener only fills the mailbox; the agent, a process the Gateway
does not run, empties it through the UI server. Whether a runtime may start at all is
decided by governance, whose bindings and requests live in the same registry; where its
listener reads is decided by the row's space, which commands and the platform's events
change. Everybody records activity. Starting the daemon at all goes through the pid file.
Reminders, heartbeats, channel, sentinel and handoff meet the rest only at the platform.
The models follow these lines: each file with its writers is a module, and each process
whose threads share memory is one more.

## 2. Modules

| Module | Models | Extends |
|---|---|---|
| `AgentRow` | a registry row, what each command does to it, the field merge of a save | |
| `GatewayRegistry` | registry.json and its writers | `AgentRow` |
| `ActivityLog` | abstract: a chain to which events are appended atomically | |
| `ActivityChain` | the log file, its lock, recorders that die, the verifier; refines `ActivityLog` | |
| `MessageLife` | abstract: what a runtime promises of each message, from taken up to over | |
| `ManagedAgentRuntime` | listener, worker, handler and stop of one runtime; refines `MessageLife` | |
| `SupervisedRuntime` | the daemon's passes over one agent whose runtime is a child process | |
| `GatewayProcesses` | pid file, process table, start and stop | |
| `Mailbox` | pending.json and backlog_depth of one pass-through agent | |
| `Governance` | bindings, attestation, requests and decisions of one agent name | |
| `Placement` | the space of one agent: platform, row, runtime, stream | |
| `Reminders` | the policy store, its passes and commands | |
| `Heartbeats` | the heartbeat store and what was posted of it | |
| `TokenCache` | tokens.json and the processes that share it | |
| `Channel` | one bridge into a Claude Code session | |
| `Sentinel` | the process of one Hermes agent | |
| `Handoff` | one `ax handoff` | |
| `ToolLoop` | the turns and histories of the runtimes that ask a provider themselves | |
| `AdapterTasks` | connect, disconnect, the two tasks and the token of the Hermes adapter | |
| `AdapterDispatch` | what becomes of a mention in the adapter: sessions, approvals, bubbles | |
| `PluginAgent` | the row of an agent whose Hermes plugin announces itself to the Gateway | |
| `MCComponents` | an instance of ten of these that share no state | the ten |
| `MCGateway` | the same of three: `ActivityChain`, `GatewayProcesses`, `PluginAgent` | the three |
| other `MC...` | symmetry sets of the instances | the module named |
| `GatewayRegistryProofs` | theorems about `GatewayRegistry` and `Placement`, and their proofs | these, `TLAPS` |
| `GovernanceProofs`, `MailboxProofs`, `ManagedAgentRuntimeProofs` | the same for the module named | it, `TLAPS` |
| `GatewayProofs` | the same for the modules of `MCGateway` | these, `TLAPS` |
| `StoresProofs` | the same for `SupervisedRuntime`, `Reminders`, `Heartbeats`, `TokenCache` | these, `TLAPS` |
| `BridgesProofs` | the same for `Channel`, `Sentinel`, `Handoff`, `ToolLoop`, `AdapterTasks`, `AdapterDispatch` | these, `TLAPS` |
| `ComponentsProofs` | the ten components together | `MCComponents`, with instances of the two above |

Operators whose comment begins with `MUTATION of X` are plausible bugs in `X`: with one
of them in the place of `X`, TLC finds the property it is meant for violated. Nothing in
a specification uses them.

### AgentRow and GatewayRegistry

`disk` is registry.json. Each writer is `idle`, has `loaded` (and edited) its copy, is
`writing` (has read the file a second time and merged) or is in the `cleanup` a remove
ends with. Edits of a private copy are one step with the load, for nobody can see the
difference; the load, the second read and the rename are three, because others act in
between.

* `Start ... Deny`: the handlers of `commands/gateway_lifecycle.py`,
  `gateway_agents.py`, `gateway_session.py` and `gateway_governance.py` up to their save.
* `Tick`: the daemon's load and `_reconcile_registry`, as far as other writers' fields
  are concerned: any set of rows may reach its tenth setup error and be disabled, any
  approval may be requested.
* `ArchiveStale`, `CleanupDone`: `archive_stale_gateway_approvals`, which a remove runs
  after its save.
* `SaveRead`, `SaveWrite`: `save_gateway_registry`, the second with the rename;
  `MergeRow` of `AgentRow` holds steps (1) to (3) of the merge.
* `Crash`: a process dies or its request fails before the rename.

A row is its identity, `disabled` and a function `auth` of the operator-authoritative
fields: desired state, lifecycle phase, what archive and hide remember, the attached
session. The other fields are the daemon's own and merged by nobody. Identities count up, so that a
removed agent and its namesake differ. `SerialSaves` asks whether a save may start
between the second read and the rename of another. The code does not prevent it (the
window is a JSON dump); with `SerialSaves = TRUE` run and theorems show what the merge itself
guarantees, and §5 what the window costs.

### ActivityLog and ActivityChain

`log` is activity.jsonl by lines; a line is a record (number, hash of its predecessor,
event), a line of a version before the chain, or torn. A line's hash is its event, which
is fresh: hashes are free of collisions, as the verifier assumes. `Begin` builds the
record before the lock is asked for, `Acquire` is the flock, `ReadTail` is
`_read_last_chain_state`, `AppendLine` the write and the release. `Crash` is a death at
any step (the kernel frees the lock), `Tear` a death or a full disk within the write: the
line is torn or only its newline is missing, and the next append runs into it. `Breaks`
is `verify_chain`, a walk over the lines that re-anchors after a break.

`ActivityLog` promises a chain that grows by whole records and, where `MayBreak`, may
start afresh (`Restart`). The refinement maps `chain` to `LastSegment(log)`, the records
after the last line that is none, and `MayBreak` to `Tears`: appending a line is the
abstract step, a line torn is the restart, everything about the lock and the tail a
stutter.

### MessageLife and ManagedAgentRuntime

The two threads are program counters. `posts[m]` is everything the runtime posts about a
message, in order; `blank`, the messages that are a bare mention, is any set, chosen at
the start. The listener connects, receives (a message may come any number of
times), enqueues, announces `started` or, at a full queue, `dropped`. The worker gets,
prepares, runs the handler, which may itself report completion or refusal
(`BridgeCompletes`, `BridgeDeclines`), then replies and closes, or fails. `Stop` sets the
event and puts a mark on the queue if there is room; `StopReturns` is the join that ends
after five seconds whether or not the threads have. Several branches turn on exactly that:
after `StopReturns` there is no `_send_client`, yet a worker may still be at it.

`MessageLife` forgets threads, queue and stop. A message is unheard, waiting, working or
over, in that order; what is told of it is told once, the word that it started at any time
after it was taken up, all else while it is worked on. `LifeOf` says which of the four a
message is in: it waits in the listener's hand, on the queue or with a worker that has just
taken it, and is over when it was seen and is in no place. The ends of a life depend on what
was told, those in the code on `completedSeen`, `noReplySeen` and `outcome`.

Abstracted: a runtime hears fewer than `SEEN_IDS_MAX` (500) messages; messages of its own
or for others never enter `Messages`; statuses other than those named; heartbeats.

### SupervisedRuntime

`pass` is a pass of `_reconcile_registry`: the row as loaded, the copy it works on,
whether the agent is done. `object` is the `ManagedAgentRuntime`, `children` every child
ever started, `object.watched` those that a monitor thread still looks after. `PassStops`,
`PassRuns` and the ways `PassLeaves`, `PassFails` and `PassSpawns` in which a start may go are the
branches of `_reconcile_runtime` and `start`; `Recorded` is `_record_setup_error` with its count, its
signature and the end at `MaxErrors`. `MonitorLooks` is
the monitor thread of one child (`_monitor_hermes_plugin_process`,
`_monitor_sentinel_inference_sdk_process`); it writes the object, not the row, and a pass carries it over
(`WithSnapshot`). `SetupChanges` makes the cause of failure any of `Errors`, or none.
A child exits, the back-off elapses, an operator starts, stops or restarts, the daemon stops or
is killed: children are in sessions of their own and outlive a kill (`"orphan"`). A child
that exited is started again by the next pass, without back-off or count.

Abstracted: the back-off's length; the plugin and the sentinel as two kinds of child,
which the supervisor treats alike; templates without a child process.

### GatewayProcesses

`proc[p]` is what pid `p` is: free, a stranger, or how far `ax gateway run` has come:
`boot`, `looked` (pid file read), `passed` (process table scanned), `claiming` (file
truncated), `serving`, `leaving`. `Killed` leaves the file behind; `Foreign` gives the pid
to another program. A stop finds its targets, signals twice and clears the file. `ps` is
assumed to work, and the two scans of a start are one, the later.

### Mailbox

The file is a count per message, the depth their sum. Every append, ack, reply and poll is
a load, some work and a save with nothing to keep others out; an ack also loads the row
before it changes the file and saves it after. A poll lists upstream (at most `Limit`,
all or unread, marking what it lists or not) between its load and its clearing of the
file. The daemon's poll reads the depth, starts or stops the listener, and saves.
`reached` and `appended` are history: what some caller was shown or took out, and what
this run of the listener has appended.

Abstracted: order of items; the row's load and save are one step except in an ack
(`GatewayRegistry` has that race); the trim of the seen set; the approval check of a
session's poll; activity records and `last_received_*` fields. The row of a stopped
agent shows depth 0 while its file keeps its messages, as in the code; `BadgeSettles`
is therefore about running agents.

### Governance

`reg` is what registry.json holds of one name: its row, the bindings, the approval
requests. A trust signature is asset, install and launch spec; hashing is free of
collisions. `Evaluate` is `evaluate_runtime_attestation`, a function of registry to
registry that may `Ask`; `EnsureBinding` is
`ensure_local_asset_binding`; `Decide` with `Approve` and `Deny`, `Tidied`, `Add`, `Update`, `Connect` and `Remove`
are the commands. `PollLoads` and `PollSaves` bracket a poll, which binds what it finds
unbound (`AutoBound`), attests and starts or stops the runtime; its save merges the row
and overwrites bindings and requests. `SerialPolls` says whether operators wait for a poll,
which nothing makes them do. `runtime` is the signature that runs, `granted` (history) those
that somebody consented to.

Abstracted: identity and space bindings, which are evaluated from the row alone; one
gateway id; requests are decided by their index; the wording of reasons.

### Placement

`platform` is the placement on record upstream, `place` the row, `bound` the runtime:
the entry it holds and the space whose stream it reads. `MoveLoads` to `MoveSaves` are
`_move_managed_agent_space`, which asks the platform between its load and its save;
`EventApplied` is `_apply_placement_event` in the listener; the poll compares row and
runtime, rebinds where they differ, and saves the row it had loaded, for the space is not
among the fields that are merged. Streams break and connect, the daemon restarts.

### Reminders and Heartbeats

`store` is the reminders file. `run` is a pass in progress with its copy; each due policy
of the copy is skipped, sent, drafted or refused (`RunFires`, `RunIsRefused`), and
`RunSaves` writes the copy over whatever is there. `command` is a `drafts send` or a
`groom`, which hold the store over the network in the same way; all other commands load
and save at once. `losses` counts the saves that overwrote something, and `reached[p][k]`
how often the fire of policy `p` for the second `k` reached people.

`Heartbeats` has a ring buffer of beats with their `pushed` marks, the temporary file of
its save, and commands that send, watch or push: each holds the store while it posts and
saves it whole. `arrived` is history, `presence` the beat the platform shows.

### TokenCache

`memory[c]` is the cache in process `c`, `tokens` the file, which is truncated, written
and chmodded in three steps; a reader meanwhile finds it cut off, and one that finds it
too wide removes it. `calls[c]` is a request: exchange, save, send, and what follows a 401
for the client (invalidate, exchange, repeat), for the RPC client, or a refresh. Tokens
are numbered as they are issued, and those up to `due` are expired.

### Channel

The event thread (`Thread...`), the asyncio loop and what runs on it: the callbacks of
`call_soon_threadsafe` (`handed`), the bounded queue, the emitter with a step for each
await, a receipt task per mention, the handler of the client's requests. The thread
starts before `serve_stdio` has set the loop. `seen` is trimmed to any half when it is
full; `forgotten` counts what that cost. Abstracted: reply anchors, the inbox bundled with a reply,
the TypeScript server of the same purpose.

### Sentinel

The reader (`Hears`, `Reconnects`, which closes the client everybody uses), the worker
with a step for each request, an updater thread per run when edits are streamed. `chat[m]`
is what the replies to a mention show, one entry per reply; `settled` (history) are the
mentions whose final text was placed with no update under way. A run that raises never sets
`finished`, so its updater lives on, and never signals completed: both are in the model.
Abstracted: the repetition after an expired login, sessions and histories, the shutdown,
blank mentions, the trim of 500 seen ids.

### Handoff

`wait` says where the command is, for what message it waits (`probe`, `task`, `nudge`,
`round`) and since when; the wait looks at the listings, dials the stream, reads events,
looks again whenever the stream stops, and looks a last time when its deadline has passed.
`Listed` is what a request for recent messages may return, `Matches` is `_matches_handoff_reply`.
Agents post and edit replies at any time; an edit is no event that the wait reads. Numbers
are ids and times at once; `ClockBehind` is the skew between the command's clock and the
platform's. Abstracted: follow-ups, `--no-watch`, a timeout of zero, probe timeouts of
their own. The deadline is looked at upon an event or after at most ten seconds of silence.

### ToolLoop

`dialogue` is a run of one `*_sdk.py`: its history, its turn, the calls still to be
executed. `kept` is what `HistoryStore` has of the thread between runs: the last
`HistoryMax` rows of what the run left. `Runtime` is a record that says in what the
eight loops differ: what becomes of each cause of failure, whether the deadline is looked
at, whether calls stay in the history as rows, what is reported when the turns are used up.
A provider takes a history that is `Whole`: each call followed by its results, each result
by its call. `refused` counts mentions in a row that were refused for their history.
Reading the eight beside one another shows more: `openai_sdk.py` reports `done` after
`MAX_TURNS`, never looks at its timeout, and takes any message with "generate" for a rate
limit, because it looks for "rate".
Abstracted: what tools do, the number of threads kept, the tokens `openai_sdk.py` tries in turn.

### AdapterTasks and AdapterDispatch

`AdapterTasks` has one place for connect and disconnect (`plugin`), one for each task
(`sse`, `beat`), and the token they share: `none` when it is about to expire, `refused` when
the platform no longer takes it, which the adapter does not notice before it expires. Each
wait for an answer is a step; a request whose task is cancelled may have arrived. `online` and
`roster` are what platform and local Gateway heard last.

In `AdapterDispatch` an event is remembered, announced and handed over (`given`), one at a
time; `sessions` are those of Hermes, which run, wait for an approval and call back
(`SessionTypes`, `ReplyIsRefused`, `SessionEnds`). `ApprovalTarget` is
`_select_approval_redirect` over the `recents`, a set whose order in the code is that of
`mentionedAt`, the number of the event that mentioned a thread last. `passedOver` is history: for each prompt that
a redirect passed over, how many other threads were mentioned after its own. Abstracted:
repeated events, which `_seen_or_record` stops; the texts of statuses; pictures.

### PluginAgent

`row` is the agent's row, reduced to what decides whether the agent is shown live:
`desired_state`, `effective_state`, whether `last_seen_at` is recent, what was announced last,
when a restart was asked for. `supervised` says whether the daemon runs the plugin (runtime type
`hermes_plugin`) or a person does. `poll` holds the row that the daemon's poll has loaded;
`PollLooks` is the branch for plugins run by hand, `PollSignals` to `PollLeaves` those of
supervised ones, with the wait for the end of a plugin as a step of its own, for in it the plugin
says goodbye. Every announcement in `posts` has a thread of the UI server that loads
(`HandlerLoads`) and saves (`HandlerSaves`) the row; between the two the poll or an operator may
save. `SavedOver` keeps of the file only `desired_state`, the one field here that is merged.
`TimePasses` makes all that was seen recently old. `order` (history) is what the operator asked
for last. `Live` is the `connected` of `annotate_runtime_health`.

Abstracted: an operator's command is one step; statuses are `connected` or `offline`; errors and
back-off of a start, which `SupervisedRuntime` has; of the two thresholds of age the first.

### MCComponents and MCGateway

`component`, chosen at the start, names which of `SupervisedRuntime`, `Channel`,
`Reminders`, `Heartbeats`, `TokenCache`, `Sentinel`, `Handoff`, `ToolLoop`, `AdapterTasks` and
`AdapterDispatch` acts; the others stay in their initial state. Nothing is composed: the ten
share no file and no memory, and the states of the run are the sum of theirs. Fairness is that
of each, for the runs in which it is chosen. `MCGateway` does the same for `ActivityChain`,
`GatewayProcesses` and `PluginAgent`, by `part`.

## 3. What the runs check

State counts are distinct states found. A type invariant that is proved is not checked
again by a run, except as part of `TypeOK` of `MCComponents`; nor is `NoDuplicates` of the mailbox.

| Run | Instance | Shows |
|---|---|---|
| `registry_saves` | 1 agent with 2 identities, 1 operator with every command, the daemon; 3 030 000 | `ArchivedRowsRemember`: the field merge never tears the archive bookkeeping; `CommandsTakeEffect`: no poll undoes the command being saved; `RowsComeAndGoByCommand`: no save resurrects a removed agent or drops an added one; `OperatorFieldsKept`: no save but the command's own changes an operator's field |
| `gateway` | `MCGateway`: `ActivityChain` with 3 recorders that may die within a write, 1 old line, 5 events; `GatewayProcesses` with 2 pids, 2 environments; `PluginAgent` with 2 commands, 1 end of a plugin, 1 announcement in flight, fairness; 564 000 | `SegmentsChained`, `AppendOnly`; `VerifierExact`: the verifier reports exactly the unreadable lines and the restart after each; `OneChain`: implements `ActivityLog`; `OneDaemon`, `FileNeverMisleads`; `StopHolds`: an agent that was stopped is in the end not shown live and its plugin is gone; `DeadIsNotLive`: nor is one whose plugin died |
| `managed_runtime` | 2 messages, either of them blank, a queue of 1, fairness; 378 000 | `AnsweredOnce`; `EachMessageLivesOnce`: implements `MessageLife`; `ClaimedIsClosed`, `StopEndsThreads` |
| `runtime_reply_lost` | 1 message | violated: `CompletedMeansReplied` |
| `processes_stop` | 2 pids, 2 environments | violated: `StopsOnlyItsGateway` |
| `mailbox_depth` | 2 messages, 1 caller, listings of 1, 1 start or stop, fairness; 1 080 000 | `AppendedOnce`, `BadgeSettles` |
| `mailbox_unseen` | 1 message, 1 caller | violated: `NothingUnseen` |
| `governance` | 1 asset with 2 launch specs, 1 install, 2 requests, commands overlapping polls, fairness; 67 800 | `RunsOnlyConsented`: nothing runs that nobody consented to; `DenialStops`: a denial stops what runs; `ApprovedRuns`: what is bound and wanted runs; `UnknownIsAsked`: an unknown row has a request that can be decided |
| `governance_drift` | the same | violated: `DriftIsReviewed` |
| `components` | ten components, below; 417 000 | as listed below |
| `placement_rebind` | 2 spaces, 1 placement, 1 restart, fairness | violated: `StreamFollows` |
| `plugin_restart` | 1 command, 1 announcement in flight, fairness | violated: `StartHolds` |

The properties of `components`, with the instance of each module:

| Module | Instance | Shows |
|---|---|---|
| `SupervisedRuntime` | 2 kinds of error, 2 tries, 1 command, 1 exit, 1 death of the daemon | `OneChild`: one living child of the daemon; `GivesUp`: a broken setup is tried so often at most, and `BrokenIsDisabled`: given up; `ChildShown`: a child that lives on is shown running, whatever its predecessors' monitors report |
| `Channel` | 2 messages, a queue of 1, 1 id seen, 2 deliveries | `NotifiedOnce`; `SeenIsOffered`: nothing is left between thread, loop and queue |
| `Reminders` | 1 policy, 2 fires, 2 seconds, 2 edits, 1 crash | `FiredOnce`: one fire reaches people once, and again only for each loss counted; `DueIsFired` |
| `Heartbeats` | 2 beaters, a ring of 2, 2 beats | `PushedArrived`: nothing leaves the unpushed that did not arrive or was not followed |
| `TokenCache` | 2 processes, 1 key, 1 retry, 2 tokens | `RefusedIsFresh`: no request is given up on a token from before it |
| `Sentinel` | 2 mentions, a queue of 1, 1 rate limit, 1 trouble | `FinalStands`, `MentionIsTaken` |
| `Handoff` | 1 reply and its edits, 2 rounds | `AnswerIsFound`: no answer is left behind |
| `ToolLoop` | 4 of the 8 runtimes, 2 turns, 2 calls, a history of 2 rows, 4 mentions | `RefusalsEnd`: a history that the provider refuses is refused no more than `HistoryMax` times in a row |
| `AdapterTasks` | 1 token revoked | `OfflineIsLast`: a platform that was told offline hears no later heartbeat, unless one was under way |
| `AdapterDispatch` | 3 threads, 2 remembered, 4 events | `RedirectIsUnambiguous`: an approval passes a prompt over only when its thread is forgotten; `NoPhantomSpinner`: no bubble without a run |

**Bounds.** `MaxId` (registry) bounds identities: two, so that a namesake can follow a
removed agent. `MaxId` (log) bounds events: five give a torn line, the restart, and a second
tear. One agent is enough for the registry because the merge treats rows one by one; that a
save leaves the rows of other names alone, for any number of writers, is what the theorems
add. A queue of one is full at the first message, and two messages then give one at work
and one queued or dropped. Two pids are a dead daemon, or a stranger with its
pid, and a successor, or two rivals; pids are reused without limit, and for any number the
theorems speak. Two commands are a stop and a start, or a restart, in any order; one
announcement in flight meets a poll in progress. Two messages and one caller, beside listener and daemon, give
three concurrent writers of pending.json; `MaxSwitches` of one gives a start or a stop at
any point. Two launch specs are what a drift and a drift back take, two requests the one
decided and the next. The supervisor's two tries are one that counts and one that gives up,
and one death of the daemon falls between any two of its steps. One reminder with two fires
has a next fire to confuse the first with; two edits are a change and its undoing, or the
loss of either. The other stores need two writers, and what is written twice. A history of two rows cuts between a call
and its result, and the refusals that follow take four mentions to end; the four runtimes are
one of each kind (five of the eight do not differ in the model). Three threads are two that
wait and one that pushes the first out of a memory of two. No run uses a
state constraint: each bound stands in a guard.

Larger instances than the runs' were explored to the end while the modules were written,
with the same result: `Governance` with two assets (5.9 million states), `SupervisedRuntime`
with two of each (1.9 million), `Channel` with three deliveries (428 000), `Reminders` with
two policies (308 000), `Sentinel` with three mentions (safety, 7.6 million), `Handoff` with
two replies (5.3 million), `PluginAgent` with two announcements in flight and 1 command
(2.8 million, with `PluginTypeOK`), `GatewayProcesses` with three pids (111 000 up to
symmetry), and the invariant of `ManagedAgentRuntimeProofs` with three
messages and a queue of two (10 million, not to the end).

**Fairness.** In the runtime: threads run, joins time out, handlers end (each has a
timeout), a closed stream ends; nothing is assumed of the platform: it need not send, nor
end a stream by itself. In the mailbox: the listener finishes an append and the daemon
polls every second; nothing is assumed of callers, and `BadgeSettles` speaks of the time
after they have ceased. In governance: the daemon polls (weakly fair), and it does not
die or lose its save in every poll (strongly fair). Around a child: the daemon's passes
happen, a back-off elapses, a monitor reports what it has seen. In the channel: the
thread, the loop and its tasks run. Reminders: the runner's passes happen (`--watch` repeats them), a
policy at its turn is fired or refused, and not refused for ever. The sentinel's worker takes
its steps; each of its requests has a timeout. In `Placement` the poll runs and a stream
that is down connects; nothing is assumed of a stream that works: it may hold for ever,
which is the finding. In `PluginAgent` the daemon polls, threads of the UI server end and
time passes; a plugin need not announce itself, nor end. Registry, log, processes, heartbeats, token cache, tool
loop and adapter have safety properties only.

**Deadlock** is checked except in `gateway`, the two runs of `Governance`,
`components` and `placement_rebind`, where events, installs, commands or placements are used
up and nothing remains to do. `ManagedAgentRuntime` stutters explicitly once it has ended.

## 4. What is proved

| Theorem | For all |
|---|---|
| `GatewayRegistryProofs!TypeCorrect` | names, operators, command sets, saves that overlap |
| `OperatorFieldsAreKept`, `RowsComeAndGoOnlyByCommand` | the same, when saves do not overlap |
| `ArchivedRowsAlwaysRemember`, `CommandsDoTakeEffect` | names and command sets, when one operator and the daemon write and saves do not overlap |
| `PlacementTypeCorrect`, `NoneIsAheadOfThePlatform` | spaces, placements, moves, restarts |
| `GatewayProofs!ActivityTypeCorrect`, `RecordsAreChained`, `LogIsAppendOnly`, `VerifierIsExact` | recorders, deaths, torn writes, older lines, lengths of the log |
| `ImplementsActivityLog` | the same |
| `ProcessesTypeCorrect`, `AtMostOneDaemon`, `PidFileNeverMisleads` | pids and environments |
| `PluginTypeCorrect`, `NoSaveUndoesAStop`, `PluginsAreHeld` | commands, ends of plugins, announcements in flight |
| `ManagedAgentRuntimeProofs!RuntimeTypeCorrect`, `NoneIsAnsweredTwice`, `ARefusalIsFinal`, `WhatIsDroppedStaysDropped`, `ImplementsMessageLife` | messages, blank or not, sizes of the queue |
| `MailboxProofs!MailboxTypeCorrect`, `NoMessageTwice`, `ListenerAppendsOnce` | messages, callers, limits of a listing, starts and stops |
| `GovernanceProofs!GovernanceTypeCorrect`, `NothingRunsUnconsented` | assets, launch specs, installs, requests, polls that overlap |
| `StoresProofs!SupervisorTypeCorrect`, `OneChildAtATime`, `TriesAreBounded` | errors, limits, commands, exits, deaths |
| `RemindersTypeCorrect`, `FiresOnce` | policies, limits of fires, cadences, times, edits, crashes |
| `HeartbeatsTypeCorrect`, `NoneLeavesTheQueueUnsent` | commands, sizes of the ring, beats |
| `CacheTypeCorrect`, `RefusedHadFreshToken` | processes, keys, retries, tokens |
| `BridgesProofs!ChannelTypeCorrect`, `ChannelNotifiesOnce` | messages, sizes of the queue and of the seen set, deliveries |
| `SentinelTypeCorrect`, `SettledTextStands` | mentions, sizes of the queue, rate limits, troubles |
| `HandoffTypeCorrect`, `HandoffFindsAnswers` | replies, rounds, skews of the clock |
| `ToolLoopTypeCorrect`, `ThreadsRecover` | runtimes, turns, calls, sizes of the history |
| `AdapterTasksTypeCorrect`, `DisconnectHasTheLastWord` | revoked tokens |
| `DispatchTypeCorrect`, `RedirectsAreUnambiguous`, `SpinnersAreReal` | threads, sizes of the memory, events |
| `ComponentsProofs!ComponentsTypeCorrect` | the ten components at once |

From the constants the proofs assume what each module states beside its CONSTANTS: that a
value which stands for "nothing" (`NoRow`, `Unset`, `Nobody`, `Idle`, `NoMessage`, ...) is none
of the values it is told from, that bounds are numbers, that sizes and limits the code fixes
above zero are not zero, and that threads of a conversation are finitely many.

**Registry.** The two action properties do not follow from types: a rename is right
because of what happened at the load and at the merge. `SerialInv` says so:
`EditsAreOwn` (a loaded copy differs from its base only at the command's target) and
`MergesAreCurrent` (a merged copy differs from the *disk* only there, and only one writer
holds a merged copy). The merge lemma turns the first into the second; `SerialSaves` keeps
the second true until the rename. The theorems carry `SerialSaves` as an assumption
because without it they are false (§5).

With one operator, `AloneInv` says more. The daemon's saves leave the operator fields of a row
alone, so what the operator loaded of them is still on disk when its save reads the file
again (`SameAuth`): step (2) of the merge finds nothing to take, and step (3) speaks only of
rows that are archived, on disk or in the copy. What a command did to a row is described just
so far (`EditRemembers`): only `archive` makes a row archived, and only it and `restore`
touch what the row remembers. The merge lemma `AloneMerge` then yields both theorems. With
two operators both are false: a field one of them changed meets a row the other archived.

**Log.** `ChainInv` joins the lock (`OneRecorder`: who is between lock and release holds
it), `TailIsCurrent` (what it read is still the end of the file), `Numbered` and
`SegmentsChained`. For the refinement, lemmas say what `LastSegment` of a log is after a
record, after a torn line and after a line torn at its end (`TornOnly`), so that an append
is the abstract append, a tear the abstract restart, and all else a stutter.

The verifier walks over the lines with the number and hash of the last record it has passed.
What the walk knows after each line is stated of the line (`PlainWalk`, and `WindowWalk` for
`--from-seq`): it is anchored at that line if it is a record, what it has reported so far are
torn lines and lines right after one, and the strict walk beside it has reported the
old lines as well and nothing else. `LinesAlike` says of the log what a step needs: old lines
come first, and a record follows its predecessor, or begins at 1 after a line that is none.
That this holds after the last line is an induction over the lines, by the least line at
which it fails (`WFMin`); that there is a walk at all, which is defined by recursion, is another.

**Runtime.** That none is answered twice depends on where a message can be. `RuntimeInv`
says that it is in one place (`InOnePlace`: the listener's hand, the queue or the worker's
hand, and never twice), and per place what may have been posted about it: nothing before
`started` in the listener's hand, neither reply nor closing status on the queue, and
for the worker what its program counter says (`PostsInOrder`, `WorkInOrder`). `DroppedIsGone`
has a dropped message in none of the places, and `HistorySound` ties the history of
refusals and replies to the posts.

For the refinement `EndsAreTold` has the runtime's memory agree with what was told: a claimed
message was not announced yet, `completedSeen` and `noReplySeen` hold messages of which just
that was posted, and at the close the flag of the outcome says whether a refusal was. Then each
step that posts is the step of `MessageLife` that tells the same (`OnePost`, `PostTells`),
`Receive` takes up, a blank message taken off the queue is passed over (`OneMoves`), and the
rest, a stop included, moves nothing (`NoneMoves`).

**Processes.** `OneDaemon` rests on an order, not on a lock: a process is in the table
before it looks there, so the later of two that look sees the earlier. With `TypeOK` it is
inductive as it stands; so is `FileNeverMisleads` beside it (`ProcessInv`), for who truncates
or writes the file is a daemon, and there is one.

**Plugin.** `StopIsKept`, the safe half of `StopHolds`, is about saves of old rows: of the rows
held by polls and announcements, only `desired_state` matters, and it is what they loaded or
"stopped" (`SavedOverKeeps`); a poll's copy keeps what it loaded (`PollSound`). `PluginIsHeld` is
needed for the types as well: a poll that leaves a plugin alone reads the object.

**Placement.** `RevisionsAreUpstream` is inductive with the types of the copies in poll and
move: a placement gets a revision that nobody has. No more is true of the row than that it
is not ahead: moves and polls write spaces the platform has left (§5).

**Mailbox.** `NoDuplicates` needs that every copy in flight is free of repetitions
(`CopiesSimple`), for any overlapping save may make a copy the file. `AppendedOnce` needs
that the message being appended is not among those appended before (`ListenerFresh`). With both,
and that what is acked or answered was posted (`JobsPosted`), the types are inductive; depths are
left out of them, for a depth is a sum over a function of any domain.

**Governance.** Polls save over decisions, so what holds of the file must hold of the copy
in a poll as well: `Consented`, that each binding is of a signature consented to, is stated
of both (`GovernanceInv`). A lemma shows that attestation answers `verified` only for a
signature that is bound.

**Supervisor.** The row's count of errors and the object's are saved at different moments;
`CountsAbreast` bounds the tries by either of them and the deaths, which `GivesUp` needs at
the step that gives up. `OneChild` is inductive with the types: a spawn happens only where no
child that the daemon started lives.

**Reminders.** A fire has a key, which is listed with its policy when it has been sent or
drafted. `Owed` is 1 while a copy of the store may still send a fire: its key is not listed,
or a draft of it is pending. What reached people and what is owed are together at most 1
and the `losses` (`Balanced`). It is stated of the copy a pass works on for the fires that the pass
did not find listed, and of the file for all others, because for each fire the one of the two
is ahead of the other. `CopyFollows` and `FiredStays` say how copy and file may differ, `DraftsSound`
that a fire has one pending draft, `SendsPending` that a command sends one that was pending.

**Heartbeats.** As for the mailbox: `CopiesReached` says of each copy held over the
network what `PushedArrived` says of the file.

**Token cache.** While a request that has been repeated is under way, the token in its process's
memory was issued after it began (`RetrySound`), but for the RPC client, which saves the
removal of the old one first. Other processes do not matter: the file is read into memory only
when a process begins.

**Channel.** A copy of a message is anywhere between thread and client: handed over, in the
queue, in the emitter's hand. `CopiesPaid` counts them: notifications and copies are together
no more than the times the message was forgotten, and one if it is in `seen`.

**Sentinel.** A mention waits or is worked on, never both (`WaitsOnce`, `WorkerHolds`), and
once its final text stands its run is finished and its updater off or asleep (`SettledStay`),
so that no step edits it.

**Handoff.** `HandoffInv` ties the wait to the numbers of messages: none it waits for is
later than what was posted, and what it begins from is no later than what it sent. The wait
ends empty-handed only after a last look, and what a look returns is what `Matches` leaves.

**Tool loop.** Between turns a history is `Whole`, and within one it is whole but for the calls
not yet answered (`WholeBut`). When the store is refused, nothing is added but the user's rows
(`LastAreUsers`): after `HistoryMax` refusals they are all that is left, and a history of
such rows is whole.

**Adapter.** `BeatsInv` follows the disconnect from step to step: which task may still post,
and that after the last word only what was under way. `RecentsInv` has a thread that was
mentioned and forgotten behind `MaxRemembered` others, mentioned later, whose number the
redirect's exception needs; a bubble's run began with a mention (`RunsMentioned`).

**Components.** The ten invariants side by side are inductive for `MCComponents`, whose step
is a step of one of them and leaves the variables of the others alone.

**Only model-checked:** liveness, which needs fairness and ENABLED, beyond the prover:
`StopHolds`, `DeadIsNotLive`, `ClaimedIsClosed`, `StopEndsThreads`, `BadgeSettles`,
`DenialStops`, `ApprovedRuns`, `UnknownIsAsked`, `BrokenIsDisabled`, `ChildShown`, `SeenIsOffered`,
`DueIsFired`, `MentionIsTaken`. So are the properties of the runs that end in
a violation. No module declares a RECURSIVE
operator; the two inductions over data that the proofs need, about the verifier's walk, are
made by the least counterexample, since the library's induction rules take an operator as a
parameter, which the provers cannot instantiate.

## 5. Disagreements between code and documents

Six runs end in a violation of what the repository says of itself (`findings` quotes
the lines): `completed` posted for a reply that was never sent (`runtime_reply_lost`);
`ax gateway stop` signalling processes of other environments and reused pids
(`processes_stop`); a message that arrived during a send, marked read upstream, removed
from the file and shown to nobody (`mailbox_unseen`); a launch spec that drifts back to one
approved before, with no request to review it by (`governance_drift`); a moved agent whose
listener goes on reading its old space (`placement_rebind`); a restart of an agent that stops
it, because the plugin's farewell is taken for an operator's stop (`plugin_restart`).

The modules state more such properties, in comments marked REFUTED. TLC refutes each of
them, with the following values; no run repeats it. Values not named are as in the runs.

| Property | Said by | Refuted with | What happens |
|---|---|---|---|
| `OperatorFieldsKept` | `gateway_storage.py:640` | `GatewayRegistry`, `SerialSaves` FALSE, add, stop, `MaxId` 1 | a save falls between the second read and the rename of another |
| `ArchiveIsAuthoritative` | `gateway_storage.py:869` | 2 operators, add, archive, hide, `MaxId` 1 | a concurrent hide wins the phase field over an archive |
| `RemovedIdentityStaysRemoved` | `gateway_storage.py:763` | 1 operator, add, remove, `MaxId` 2 | remove and re-add within a poll: the poll's row replaces the new one |
| `StartReenables` | `gateway_runtime.py:523` | 1 operator, add, start, `MaxId` 1 | a poll in progress disables again what `start` has enabled |
| `ApprovalDecisionsKept` | `GATEWAY-PASS-THROUGH-MAILBOX-001/spec.md:222` | 1 operator, add, approve, `MaxId` 1 | a poll in progress saves the request as pending again |
| `HideIsReversible` | `gateway_agents.py:993` | 1 operator, add, hide, `MaxId` 1 | hide remembers nothing of a stopped agent, and unhide then takes it for running |
| `SeqNeverRestarts` | `audit/verify.py:3` | `ActivityChain`, 2 recorders, no old lines, `MaxId` 5 | numbering restarts after a torn line |
| `StartedFirst` | `GATEWAY-ACTIVITY-VISIBILITY-001/spec.md:66` | `ManagedAgentRuntime`, 1 message | the worker takes a message before the listener announces it |
| `EveryClaimIsClosed` | the same, line 71 | 1 message | a message of a bare mention is announced and never closed |
| `RefusedByOwnGateway` | `docs/gateway-agent-runtimes.md:25` | `GatewayProcesses`, 2 pids, 2 environments | the daemon of one environment blocks the other's |
| `RefusedByGateway` | `gateway_daemon.py:478` | 2 pids, 1 environment | a stale file and a reused pid block a start |
| `GivenUpAfterAll` | `gateway_daemon.py`, the limit of setup errors | `SupervisedRuntime` | after a start the object still has its old count: one try, or none |
| `StatusRecovers` | `gateway_runtime.py`, the monitors | `SupervisedRuntime` | an error reported after the restart stays on the living child's row |
| `StopReachesAll` | `ax gateway agents stop` | `SupervisedRuntime` | children of a daemon that was killed are nobody's |
| `NeverDropped` | `channel/README.md` | `Channel` | a mention overflows the queue |
| `RepliesToShown` | `commands/channel.py`, the reply tool | `Channel` | the latest message is set before its notification is written |
| `ReceivedFirst` | `_signal_received` | `Channel` | the receipt is a task of its own and may come last |
| `CompletedIsLast` | the statuses' order | `Channel` | `working` is posted when the client has answered |
| `ClosedStaysOff` | `reminder-lifecycle.md` | `Reminders` | a save over the pass's enables a policy again |
| `PassKeepsEdits` | `ax reminders cancel` | `Reminders` | a pass puts back what was cancelled while it fired |
| `RipeIsFired` | `ax reminders run` | `Reminders` | resumed within the second it fired for, a policy has a key already used |
| `LatestWins` | `heartbeat push` | `Heartbeats` | an older beat is posted over a later one |
| `BeatsKept` | `heartbeat send` | `Heartbeats` | a push saves its copy over a beat recorded meanwhile |
| `RefreshSticks` | `TokenCache`'s `invalidate` | `TokenCache` | another process lays its tokens over the emptied file |
| `ClearDiscards` | `clear_cache` | `TokenCache` | the save that follows takes them from the file again |
| `IssuedIsUsed` | `_save` | `TokenCache` | a reader removes the new file before its chmod, which fails |
| `RowIsAView` | `gateway_agents.py` | `Placement` | a poll puts back the space an agent was moved from |
| `FinalOverwrites` | `sentinel.py:540` | `Sentinel` | an update under way overwrites the final text |
| `RunsUseTheCurrentClient` | `mention_worker` | `Sentinel` | a reconnect closes the client of a run |
| `LimitedIsSilent` | `sentinel.py:788` | `Sentinel` | the placeholder of streamed edits stays |
| `NoneIsDropped` | the sentinel's first log line | `Sentinel` | a full queue drops a mention |
| `TimeoutMeansWaited` | `ax handoff` | `Handoff` | where the stream is refused, the wait is over at once |
| `AnswersInThread` | `ax handoff --help` | `Handoff` | what the agent says to someone else is taken for the result |
| `NoReplyTwice` | the same | `Handoff`, `ClockBehind` 2 | a slow clock takes the answer to the message before |
| `HistoryIsWhole` | `sentinel.py:802`, "Reply to continue where I left off" | `ToolLoop` | the store cuts, or a deadline falls, between a call and its results: the reply is refused |
| `NeverGuesses` | `adapter.py:150` | `AdapterDispatch` | a session that waits is forgotten, and the approval goes to the other |
| `ReturnIsShown` | `_announce_local_gateway` of the adapter | `PluginAgent`, no commands | a plugin run by hand that said goodbye and returns is taken for stopped by the operator |
| `OfflineStays` | `adapter.py:469` | `AdapterTasks` | a heartbeat under way arrives after the word that the agent is offline |

Two races are left as they are because nothing in the repository promises otherwise: a
save of pending.json may drop a message queued meanwhile or bring back one just acked, and
two starts that see each other may both give up.

## 6. What is not modelled

Most of this repository's lines are not about state that several actors share: HTTP routes
of the UI server, commands that send one request and print its answer, the resolution of
configuration, parsing, formatting, templates, vendors' APIs. The models cover the parts where
steps interleave, files are shared or something must happen in the end.

* **UI server**: routes over the commands that are modelled, each a caller more of their
  actions; its pid file repeats `GatewayProcesses`.
* **`hermes_sdk.py`, `claude_cli.py`**: they run another program's loop. **MCP servers**, **A2A
  client**: request and response, no state between messages.
* **Connectors**: one store, saved as that of `Reminders`.
* **`listen`, `watch`**: a listener and a worker as in `ManagedAgentRuntime`.
* **Pacing of requests** by windows of wall-clock seconds.
* **Platform commands, formatting, diagnostics, manifests, templates, audit export**: no state
  that outlives a call.
* **Examples, scripts, documentation, the offline stub.**

What each module abstracts is said in §2.

## 7. Plan

Done, in this order, because everything else meets in these files: registry, log, runtime,
processes, mailbox; then supervision, governance, placement, the stores and the programs
beside the Gateway. What is left:

* attached sessions in `PluginAgent`: their presence, manual attachment and the sweep of
  stale agents;
* the pacing of requests over a window shared by threads;
* theorems: that the mailbox's row never shows more than was queued.
