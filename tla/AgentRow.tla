------------------------------ MODULE AgentRow ------------------------------
(***************************************************************************)
(* One row of ~/.ax/gateway/registry.json, the commands that edit it and   *)
(* the merge save_gateway_registry performs on it                          *)
(* (ax_cli/gateway_storage.py, commands/gateway_lifecycle.py and           *)
(* commands/gateway_agents.py).                                            *)
(*                                                                         *)
(* A row keeps the fields the properties tell apart: the identity minted   *)
(* upstream (agent_id, install_id and token travel together), setup_disabled *)
(* as the representative of the fields a save does NOT merge, and auth, the  *)
(* fields of _OPERATOR_AUTHORITATIVE_FIELDS.  The reasons, notes, sources  *)
(* and timestamps in that tuple always move with the field kept here.      *)
(***************************************************************************)
EXTENDS Naturals

CONSTANTS
    NoRow,      \* the name has no row
    Unset       \* the key is absent from the row (or None)

AuthFields == {"desired", "phase", "beforeArchive", "beforeHide", "attached"}

(* What each field may hold; every row has a desired state.                *)
FieldValues(f) ==
    CASE f = "desired"       -> {"running", "stopped"}
      [] f = "phase"         -> {"active", "hidden", "archived", Unset}
      [] f = "beforeArchive" -> {"running", "stopped", Unset}
      [] f = "beforeHide"    -> {"running", "stopped", Unset}
      [] OTHER               -> {"attached", Unset}

AuthValues == UNION {FieldValues(f) : f \in AuthFields}

(* The fields step (3) of a save copies from an archived row.              *)
ArchiveFields == {"phase", "beforeArchive", "desired"}

Auth == {x \in [AuthFields -> AuthValues] :
            \A f \in AuthFields : x[f] \in FieldValues(f)}

Row == [id : Nat, disabled : BOOLEAN, auth : Auth]

ASSUME NoRowAssumption == NoRow \notin Row
ASSUME UnsetAssumption == Unset \notin {"running", "stopped", "archived"}

IsRow(r) == r # NoRow

Phase(r) == r.auth["phase"]

OutOfRoster(r) == Phase(r) \in {"hidden", "archived"}

-----------------------------------------------------------------------------
(* What the commands do to a row they find.                                *)

Put(r, changes) ==
    [r EXCEPT !.auth =
        [f \in AuthFields |->
            IF f \in DOMAIN changes THEN changes[f] ELSE r.auth[f]]]

NewRow(i, d) ==
    [id |-> i, disabled |-> FALSE,
     auth |-> [f \in AuthFields |-> IF f = "desired" THEN d ELSE Unset]]

StartRow(r) == [Put(r, [desired |-> "running"]) EXCEPT !.disabled = FALSE]

StopRow(r) == Put(r, [desired |-> "stopped", attached |-> Unset])

AttachRow(r) == Put(r, [desired |-> "running", attached |-> "attached"])

AnnounceOfflineRow(r) == Put(r, [desired |-> "stopped"])

HideRow(r) ==
    LET hidden == Put(r, [desired |-> "stopped", phase |-> "hidden"])
    IN  IF r.auth["desired"] = "stopped" THEN hidden
        ELSE Put(hidden, [beforeHide |-> r.auth["desired"]])

UnhideRow(r) ==
    LET prior == IF r.auth["beforeHide"] = Unset THEN "running"
                 ELSE r.auth["beforeHide"]
    IN  [Put(r, [desired |-> prior, phase |-> "active", beforeHide |-> Unset])
            EXCEPT !.disabled = FALSE]

ArchiveRow(r) ==
    Put(r, [phase |-> "archived", beforeArchive |-> r.auth["desired"],
            desired |-> "stopped"])

RestoreRow(r) ==
    LET prior == r.auth["beforeArchive"]
    IN  Put(r, [phase |-> "active", beforeArchive |-> Unset,
                desired |-> IF prior \in {"running", "stopped"}
                            THEN prior ELSE "stopped"])

-----------------------------------------------------------------------------
(* save_gateway_registry: m is the caller's row, d the row on disk now and *)
(* b the row the caller loaded (of which the code keeps only the auth      *)
(* fields: _load_snapshot).                                                *)

Loaded(b, f) == IF b = NoRow THEN Unset ELSE b.auth[f]

(* MUTATION of FieldMerge: the caller's view wins.                         *)
MemoryWins(m, d, b) == m.auth

(* MUTATION of FieldMerge: disk wins, also where nobody else wrote.        *)
DiskWins(m, d, b) == d.auth

(* Step (2): a field another writer changed since the load is theirs.      *)
FieldMerge(m, d, b) ==
    [f \in AuthFields |->
        IF d.auth[f] # Loaded(b, f) THEN d.auth[f] ELSE m.auth[f]]

(* MUTATION of ArchiveMerge: step (3) dropped as subsumed by step (2).     *)
NoArchiveMerge(auth, d) == auth

(* Step (3): the archived <-> active transition is taken from disk.        *)
ArchiveMerge(auth, d) ==
    IF d.auth["phase"] = "archived" \/ auth["phase"] = "archived"
    THEN [f \in AuthFields |->
             IF f \in ArchiveFields THEN d.auth[f] ELSE auth[f]]
    ELSE auth

(* MUTATION of MergeRow: without step (1), the row-loss race of 2026-05-06.*)
MergeRowDropsAdded(m, d, b, mergeArchive) ==
    IF m = NoRow \/ (d = NoRow /\ b # NoRow) THEN NoRow
    ELSE IF d = NoRow THEN m
    ELSE [m EXCEPT !.auth = FieldMerge(m, d, b)]

(* MUTATION of MergeRow: without step (1b), as before issue #42.           *)
MergeRowResurrects(m, d, b, mergeArchive) ==
    IF m = NoRow THEN (IF b = NoRow THEN d ELSE NoRow)
    ELSE IF d = NoRow THEN m
    ELSE [m EXCEPT !.auth = FieldMerge(m, d, b)]

MergeRow(m, d, b, mergeArchive) ==
    CASE m = NoRow ->                                             \* step (1)
            IF b = NoRow THEN d ELSE NoRow
      [] m # NoRow /\ d = NoRow ->                                \* step (1b)
            IF b # NoRow THEN NoRow ELSE m
      [] OTHER ->
            LET auth == FieldMerge(m, d, b)
            IN  [m EXCEPT !.auth =
                    IF mergeArchive THEN ArchiveMerge(auth, d) ELSE auth]
=============================================================================
