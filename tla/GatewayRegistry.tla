--------------------------- MODULE GatewayRegistry ---------------------------
(***************************************************************************)
(* ~/.ax/gateway/registry.json and the processes that share it: the daemon *)
(* loop (GatewayDaemon.run) and the operators, that is the CLI processes   *)
(* and the threads of the UI server.  Nobody holds a lock: each writer     *)
(* loads the file (load_gateway_registry), edits its copy, and saves it    *)
(* (save_gateway_registry), which reads the file again, merges and renames *)
(* a temporary file over it.  Another writer can act between the load and  *)
(* the save, and even between the second read and the rename.              *)
(*                                                                         *)
(* Loading and editing the private copy is one action here: nothing another *)
(* writer does can be seen in between.                                     *)
(***************************************************************************)
EXTENDS AgentRow

CONSTANTS
    Names,          \* agent names
    Operators,      \* CLI processes and UI threads
    Daemon,         \* the gateway daemon
    Commands,       \* the operator commands this instance issues
    SerialSaves,    \* TRUE: no save starts between another save's read and
                    \* rename; FALSE: the code, which has no such guard
    MaxId           \* bound: identities minted upstream

AllCommands ==
    {"start", "stop", "attach", "announce", "hide", "unhide", "archive",
     "restore", "add", "remove", "approve", "deny"}

ASSUME DaemonAssumption == Daemon \notin Operators
ASSUME CommandsAssumption == Commands \subseteq AllCommands
ASSUME SerialAssumption == SerialSaves \in BOOLEAN
ASSUME MaxIdAssumption == MaxId \in Nat \ {0}

Writers == Operators \cup {Daemon}

(* The status of the approval row of an agent's current binding.           *)
ApprovalStatus == {"none", "pending", "approved", "rejected", "archived"}

Registry == [rows : [Names -> Row \cup {NoRow}],
             approvals : [Names -> ApprovalStatus]]

EmptyRegistry == [rows |-> [a \in Names |-> NoRow],
                  approvals |-> [a \in Names |-> "none"]]

Ops == AllCommands \cup {"none", "tick", "archive_stale"}

VARIABLES
    disk,       \* registry.json
    pc,         \* where each writer stands: idle, loaded, writing, cleanup
    op,         \* what the writer is doing
    target,     \* the agents its command names
    base,       \* the registry as the writer loaded it
    mem,        \* its edited (from "writing" on: merged) copy
    nextId      \* the next identity upstream mints

vars == <<disk, pc, op, target, base, mem, nextId>>

Init ==
    /\ disk = EmptyRegistry
    /\ pc = [w \in Writers |-> "idle"]
    /\ op = [w \in Writers |-> "none"]
    /\ target = [w \in Writers |-> {}]
    /\ base = [w \in Writers |-> EmptyRegistry]
    /\ mem = [w \in Writers |-> EmptyRegistry]
    /\ nextId = 1

-----------------------------------------------------------------------------
(* A handler up to its save: load, find the row, edit.                     *)

Edit(w, o, T, reg) ==
    /\ op' = [op EXCEPT ![w] = o]
    /\ target' = [target EXCEPT ![w] = T]
    /\ base' = [base EXCEPT ![w] = disk]
    /\ mem' = [mem EXCEPT ![w] = reg]
    /\ pc' = [pc EXCEPT ![w] = "loaded"]
    /\ UNCHANGED disk

EditRow(w, o, a, r) == Edit(w, o, {a}, [disk EXCEPT !.rows[a] = r])

Ready(w, o) == w \in Operators /\ pc[w] = "idle" /\ o \in Commands

Issue(w, o, a) == Ready(w, o) /\ IsRow(disk.rows[a]) /\ UNCHANGED nextId

Start(w, a) ==
    /\ Issue(w, "start", a)
    /\ EditRow(w, "start", a, StartRow(disk.rows[a]))

Stop(w, a) ==
    /\ Issue(w, "stop", a)
    /\ EditRow(w, "stop", a, StopRow(disk.rows[a]))

Attach(w, a) ==
    /\ Issue(w, "attach", a)
    /\ EditRow(w, "attach", a, AttachRow(disk.rows[a]))

AnnounceOffline(w, a) ==
    /\ Issue(w, "announce", a)
    /\ EditRow(w, "announce", a, AnnounceOfflineRow(disk.rows[a]))

Hide(w, a) ==
    /\ Issue(w, "hide", a)
    /\ EditRow(w, "hide", a, HideRow(disk.rows[a]))

Unhide(w, a) ==
    /\ Issue(w, "unhide", a)
    /\ Phase(disk.rows[a]) = "hidden"
    /\ EditRow(w, "unhide", a, UnhideRow(disk.rows[a]))

Archive(w, a) ==
    /\ Issue(w, "archive", a)
    /\ Phase(disk.rows[a]) # "archived"
    /\ EditRow(w, "archive", a, ArchiveRow(disk.rows[a]))

Restore(w, a) ==
    /\ Issue(w, "restore", a)
    /\ Phase(disk.rows[a]) = "archived"
    /\ EditRow(w, "restore", a, RestoreRow(disk.rows[a]))

(* _register_managed_agent: the agent of that name is found upstream or    *)
(* created there, and its row is updated or appended.                      *)
Add(w, a) ==
    /\ Ready(w, "add")
    /\ \E d \in {"running", "stopped"} :
         IF IsRow(disk.rows[a])
         THEN /\ EditRow(w, "add", a, Put(disk.rows[a], [desired |-> d]))
              /\ UNCHANGED nextId
         ELSE /\ nextId <= MaxId
              /\ EditRow(w, "add", a, NewRow(nextId, d))
              /\ nextId' = nextId + 1

Remove(w, a) ==
    /\ Issue(w, "remove", a)
    /\ EditRow(w, "remove", a, NoRow)

(* A decision looks the approval up by its id, whatever its status.        *)
Decide(w, o, a, status) ==
    /\ Ready(w, o)
    /\ disk.approvals[a] # "none"
    /\ Edit(w, o, {a}, [disk EXCEPT !.approvals[a] = status])
    /\ UNCHANGED nextId

Approve(w, a) == Decide(w, "approve", a, "approved")

Deny(w, a) == Decide(w, "deny", a, "rejected")

(* archive_stale_gateway_approvals, which a remove runs after its save.    *)
Stale(reg) ==
    {a \in Names : reg.approvals[a] = "pending" /\ ~IsRow(reg.rows[a])}

ArchiveStale(w) ==
    /\ pc[w] = "cleanup"
    /\ Stale(disk) # {}
    /\ Edit(w, "archive_stale", {},
            [disk EXCEPT !.approvals =
                [a \in Names |-> IF a \in Stale(disk) THEN "archived"
                                 ELSE disk.approvals[a]]])
    /\ UNCHANGED nextId

(* A daemon poll: load and _reconcile_registry.  Rows out of the roster or *)
(* disabled are skipped.  For the others the runtime may have reached its  *)
(* tenth setup error, and the attestation may ask for an approval.         *)
Reconciled(reg) ==
    {a \in Names : /\ IsRow(reg.rows[a])
                   /\ ~OutOfRoster(reg.rows[a])
                   /\ ~reg.rows[a].disabled}

Tick ==
    /\ pc[Daemon] = "idle"
    /\ \E D \in SUBSET {a \in Reconciled(disk) :
                            disk.rows[a].auth["desired"] = "running"},
          P \in SUBSET {a \in Reconciled(disk) :
                            disk.approvals[a] \in {"none", "archived"}} :
         Edit(Daemon, "tick", {},
              [rows |-> [a \in Names |->
                            IF a \in D THEN [disk.rows[a] EXCEPT !.disabled = TRUE]
                            ELSE disk.rows[a]],
               approvals |-> [a \in Names |-> IF a \in P THEN "pending"
                                              ELSE disk.approvals[a]]])
    /\ UNCHANGED nextId

-----------------------------------------------------------------------------
(* save_gateway_registry                                                   *)

Writing == {w \in Writers : pc[w] = "writing"}

(* merge_archive=False is passed by archive and restore only.              *)
MergesArchive(o) == o \notin {"archive", "restore"}

Merged(w) ==
    [rows |-> [a \in Names |->
                  MergeRow(mem[w].rows[a], disk.rows[a], base[w].rows[a],
                           MergesArchive(op[w]))],
     approvals |-> mem[w].approvals]

SaveRead(w) ==
    /\ pc[w] = "loaded"
    /\ SerialSaves => Writing = {}
    /\ mem' = [mem EXCEPT ![w] = Merged(w)]
    /\ pc' = [pc EXCEPT ![w] = "writing"]
    /\ UNCHANGED <<disk, op, target, base, nextId>>

Forget(w, next) ==
    /\ pc' = [pc EXCEPT ![w] = next]
    /\ op' = [op EXCEPT ![w] = "none"]
    /\ target' = [target EXCEPT ![w] = {}]
    /\ base' = [base EXCEPT ![w] = EmptyRegistry]
    /\ mem' = [mem EXCEPT ![w] = EmptyRegistry]

SaveWrite(w) ==
    /\ pc[w] = "writing"
    /\ disk' = mem[w]
    /\ Forget(w, IF op[w] = "remove" THEN "cleanup" ELSE "idle")
    /\ UNCHANGED nextId

(* Nothing is stale: archive_stale_gateway_approvals does not save.        *)
CleanupDone(w) ==
    /\ pc[w] = "cleanup"
    /\ Stale(disk) = {}
    /\ Forget(w, "idle")
    /\ UNCHANGED <<disk, nextId>>

(* The process dies, or its request fails, before the rename.              *)
Crash(w) ==
    /\ pc[w] # "idle"
    /\ Forget(w, "idle")
    /\ UNCHANGED <<disk, nextId>>

-----------------------------------------------------------------------------
Command(w, a) ==
    \/ Start(w, a)
    \/ Stop(w, a)
    \/ Attach(w, a)
    \/ AnnounceOffline(w, a)
    \/ Hide(w, a)
    \/ Unhide(w, a)
    \/ Archive(w, a)
    \/ Restore(w, a)
    \/ Add(w, a)
    \/ Remove(w, a)
    \/ Approve(w, a)
    \/ Deny(w, a)

WriterStep(w) ==
    \/ ArchiveStale(w)
    \/ SaveRead(w)
    \/ SaveWrite(w)
    \/ CleanupDone(w)
    \/ Crash(w)

Next ==
    \/ \E w \in Operators, a \in Names : Command(w, a)
    \/ Tick
    \/ \E w \in Writers : WriterStep(w)

Spec == Init /\ [][Next]_vars

-----------------------------------------------------------------------------
(* Properties                                                              *)

(* Every variable keeps its type.                                          *)
TypeOK ==
    /\ disk \in Registry
    /\ pc \in [Writers -> {"idle", "loaded", "writing", "cleanup"}]
    /\ op \in [Writers -> Ops]
    /\ target \in [Writers -> SUBSET Names]
    /\ base \in [Writers -> Registry]
    /\ mem \in [Writers -> Registry]
    /\ nextId \in Nat

(* w's rename (or its crash, which leaves the disk alone).                 *)
Renames(w) == pc[w] = "writing" /\ pc'[w] # "writing"

(* A save changes the operator-authoritative fields of no row but the one  *)
(* its command names, whatever other writers did since it loaded: the      *)
(* daemon, whose target is empty, never clobbers them, and two operators   *)
(* do not undo each other's work on different rows.                        *)
OperatorFieldsStep ==
    \A w \in Writers, a \in Names :
        /\ Renames(w)
        /\ a \notin target[w]
        /\ IsRow(disk.rows[a])
        /\ IsRow(disk'.rows[a])
        => disk'.rows[a].auth = disk.rows[a].auth

OperatorFieldsKept == [][OperatorFieldsStep]_vars

(* A row leaves the file only by the remove that names it and enters it    *)
(* only by the add that names it: no save resurrects a removed agent and   *)
(* none drops an agent added after the saver loaded.                       *)
RowsStep ==
    \A w \in Writers, a \in Names :
        Renames(w) =>
        /\ IsRow(disk.rows[a]) /\ ~IsRow(disk'.rows[a])
             => op[w] = "remove" /\ a \in target[w]
        /\ ~IsRow(disk.rows[a]) /\ IsRow(disk'.rows[a])
             => op[w] = "add" /\ a \in target[w]

RowsComeAndGoByCommand == [][RowsStep]_vars

(* What makes the two hold: an edited copy differs from the loaded one     *)
(* only at the command's target, and once merged (saves not overlapping)   *)
(* it differs from the disk only there.                                    *)
OwnChange(w, a, m, b) ==
    /\ IsRow(b) /\ ~IsRow(m) => op[w] = "remove" /\ a \in target[w]
    /\ ~IsRow(b) /\ IsRow(m) => op[w] = "add" /\ a \in target[w]
    /\ IsRow(b) /\ IsRow(m) /\ a \notin target[w] => m.auth = b.auth

EditsAreOwn ==
    \A w \in Writers, a \in Names :
        pc[w] = "loaded" => OwnChange(w, a, mem[w].rows[a], base[w].rows[a])

MergesAreCurrent ==
    SerialSaves =>
        /\ \A w, v \in Writing : w = v
        /\ \A w \in Writing, a \in Names :
              OwnChange(w, a, mem[w].rows[a], disk.rows[a])

SerialInv == TypeOK /\ EditsAreOwn /\ MergesAreCurrent

(* The merge is per field, yet with one operator it never tears the        *)
(* archive bookkeeping: a row is archived exactly when it remembers the    *)
(* state a restore returns to, however the daemon's saves fall.            *)
ArchivedRowsRemember ==
    \A a \in Names :
        IsRow(disk.rows[a]) =>
            (Phase(disk.rows[a]) = "archived"
                <=> disk.rows[a].auth["beforeArchive"] # Unset)

(* The merge does not turn the operator's command against itself: with one *)
(* operator and the daemon, the save of a command leaves the row as the    *)
(* command edited it.  Step (3) keeps an archived row archived, whatever   *)
(* a start or hide says; only restore (and the archive itself) opts out.   *)
CommandsTakeEffect ==
    [][\A w \in Operators, a \in Names :
        /\ pc[w] = "loaded" /\ pc'[w] = "writing"
        /\ a \in target[w]
        /\ IsRow(mem[w].rows[a])
        /\ \/ op[w] = "restore"
           \/ ~IsRow(base[w].rows[a])
           \/ Phase(base[w].rows[a]) # "archived"
        => mem'[w].rows[a] = mem[w].rows[a]]_vars

(* What the comment in step (3) says, "CLI is authoritative for the        *)
(* archived <-> active transition": an archive that was saved left the     *)
(* row archived.                                                           *)
ArchiveIsAuthoritative ==
    [][\A w \in Operators, a \in Names :
        /\ pc[w] = "loaded" /\ pc'[w] = "writing"
        /\ op[w] = "archive" /\ a \in target[w]
        /\ IsRow(mem'[w].rows[a])
        => Phase(mem'[w].rows[a]) = "archived"]_vars

(* What step (1b) of save_gateway_registry promises: an agent that was     *)
(* removed does not come back.  Identities are minted in order, so the     *)
(* identity under a name never goes back to an earlier one.                *)
RemovedIdentityStaysRemoved ==
    [][\A a \in Names :
        IsRow(disk.rows[a]) /\ IsRow(disk'.rows[a])
            => disk'.rows[a].id >= disk.rows[a].id]_vars

(* `agents start` re-enables an auto-disabled agent: a daemon that loaded  *)
(* the row while it was disabled does not disable it again.                *)
StartReenables ==
    [][\A a \in Names :
        /\ Renames(Daemon)
        /\ IsRow(disk.rows[a]) /\ IsRow(base[Daemon].rows[a])
        /\ IsRow(disk'.rows[a])
        /\ base[Daemon].rows[a].disabled
        /\ ~disk.rows[a].disabled
        => ~disk'.rows[a].disabled]_vars

(* What GATEWAY-PASS-THROUGH-MAILBOX-001 asks of the registry: no writer   *)
(* loses approval state.  A decision changes only by another decision.     *)
ApprovalDecisionsKept ==
    [][\A w \in Writers, a \in Names :
        /\ Renames(w)
        /\ op[w] \notin {"approve", "deny"}
        /\ disk.approvals[a] \in {"approved", "rejected"}
        => disk'.approvals[a] = disk.approvals[a]]_vars

(* unhide is the inverse of hide: when nobody interferes, hiding an agent  *)
(* that is not hidden leaves a row whose unhide restores the desired state.*)
HideIsReversible ==
    [][\A w \in Operators, a \in Names :
        /\ Renames(w)
        /\ op[w] = "hide" /\ a \in target[w]
        /\ disk # disk'
        /\ IsRow(disk.rows[a])
        /\ disk.rows[a] = base[w].rows[a]
        /\ ~OutOfRoster(disk.rows[a])
        => UnhideRow(disk'.rows[a]).auth["desired"]
                = disk.rows[a].auth["desired"]]_vars
=============================================================================
