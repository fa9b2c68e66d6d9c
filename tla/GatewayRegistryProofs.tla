----------------------- MODULE GatewayRegistryProofs -----------------------
(***************************************************************************)
(* Theorems about GatewayRegistry, for every set of names and operators,   *)
(* and about Placement, where copies of one of its rows meet the platform. *)
(***************************************************************************)
EXTENDS GatewayRegistry, Placement, TLAPS

-----------------------------------------------------------------------------
(* Rows stay rows: the type of every edit and of the merge.                *)

(* Put keeps a row's identity and gives the changed fields allowed values. *)
LEMMA PutType ==
    ASSUME NEW r \in Row, NEW c,
           \A f \in AuthFields : f \in DOMAIN c => c[f] \in FieldValues(f)
    PROVE  Put(r, c) \in Row
<1> DEFINE x == [f \in AuthFields |-> IF f \in DOMAIN c THEN c[f] ELSE r.auth[f]]
<1>1. r.auth \in Auth /\ r = [id |-> r.id, disabled |-> r.disabled, auth |-> r.auth]
      /\ r.id \in Nat /\ r.disabled \in BOOLEAN
  BY DEF Row
<1>2. \A f \in AuthFields : x[f] \in FieldValues(f)
  BY <1>1 DEF Auth
<1>3. x \in [AuthFields -> AuthValues]
  BY <1>2 DEF AuthValues
<1>4. x \in Auth
  BY <1>2, <1>3 DEF Auth
<1>5. Put(r, c) = [r EXCEPT !.auth = x]
  BY DEF Put
<1> QED
  BY <1>1, <1>4, <1>5 DEF Row

(* The command edits turn rows into rows.                                  *)
LEMMA EditsType ==
    ASSUME NEW r \in Row
    PROVE  /\ StartRow(r) \in Row
           /\ StopRow(r) \in Row
           /\ AttachRow(r) \in Row
           /\ AnnounceOfflineRow(r) \in Row
           /\ HideRow(r) \in Row
           /\ UnhideRow(r) \in Row
           /\ ArchiveRow(r) \in Row
           /\ RestoreRow(r) \in Row
           /\ \A d \in {"running", "stopped"} : Put(r, [desired |-> d]) \in Row
<1>1. r.auth \in Auth
  BY DEF Row
<1>2. /\ r.auth["desired"] \in {"running", "stopped"}
      /\ r.auth["beforeArchive"] \in {"running", "stopped", Unset}
      /\ r.auth["beforeHide"] \in {"running", "stopped", Unset}
  BY <1>1 DEF Auth, FieldValues, AuthFields
<1>3. \A d \in {"running", "stopped"} : Put(r, [desired |-> d]) \in Row
  BY PutType DEF FieldValues
<1>4. \A q \in Row : [q EXCEPT !.disabled = FALSE] \in Row
  BY DEF Row
<1>5. StartRow(r) \in Row
  BY <1>3, <1>4 DEF StartRow
<1>6. StopRow(r) \in Row
  BY PutType DEF StopRow, FieldValues
<1>7. AttachRow(r) \in Row
  BY PutType DEF AttachRow, FieldValues
<1>8. AnnounceOfflineRow(r) \in Row
  BY <1>3 DEF AnnounceOfflineRow
<1>9. HideRow(r) \in Row
  <2> DEFINE h == Put(r, [desired |-> "stopped", phase |-> "hidden"])
  <2>1. h \in Row
    BY PutType DEF FieldValues
  <2>2. Put(h, [beforeHide |-> r.auth["desired"]]) \in Row
    <3> HIDE DEF h
    <3> QED BY <2>1, <1>2, PutType DEF FieldValues
  <2> QED
    BY <2>1, <2>2 DEF HideRow
<1>10. UnhideRow(r) \in Row
  <2> DEFINE prior == IF r.auth["beforeHide"] = Unset THEN "running"
                      ELSE r.auth["beforeHide"]
  <2>1. prior \in {"running", "stopped"}
    BY <1>2
  <2>2. Put(r, [desired |-> prior, phase |-> "active", beforeHide |-> Unset]) \in Row
    <3> HIDE DEF prior
    <3> QED BY <2>1, PutType DEF FieldValues
  <2> QED
    BY <1>4, <2>2 DEF UnhideRow
<1>11. ArchiveRow(r) \in Row
  BY <1>2, PutType DEF ArchiveRow, FieldValues
<1>12. RestoreRow(r) \in Row
  <2> DEFINE prior == IF r.auth["beforeArchive"] \in {"running", "stopped"}
                      THEN r.auth["beforeArchive"] ELSE "stopped"
  <2>1. prior \in {"running", "stopped"}
    BY <1>2
  <2>2. Put(r, [phase |-> "active", beforeArchive |-> Unset, desired |-> prior]) \in Row
    <3> HIDE DEF prior
    <3> QED BY <2>1, PutType DEF FieldValues
  <2> QED
    BY <2>2 DEF RestoreRow
<1> QED
  BY <1>3, <1>5, <1>6, <1>7, <1>8, <1>9, <1>10, <1>11, <1>12

(* A new row is a row.                                                     *)
LEMMA NewRowType ==
    ASSUME NEW i \in Nat, NEW d \in {"running", "stopped"}
    PROVE  NewRow(i, d) \in Row
<1> DEFINE x == [f \in AuthFields |-> IF f = "desired" THEN d ELSE Unset]
<1>1. \A f \in AuthFields : x[f] \in FieldValues(f)
  BY DEF AuthFields, FieldValues
<1>2. x \in Auth
  BY <1>1 DEF Auth, AuthValues
<1> QED
  BY <1>2 DEF NewRow, Row

(* The merge of a row present on both sides is a row: each field is taken  *)
(* from one of them.                                                       *)
LEMMA FieldwiseType ==
    ASSUME NEW m \in Row, NEW d \in Row, NEW b, NEW k \in BOOLEAN
    PROVE  LET auth == FieldMerge(m, d, b)
           IN  [m EXCEPT !.auth = IF k THEN ArchiveMerge(auth, d) ELSE auth] \in Row
<1> DEFINE x == FieldMerge(m, d, b)
           y == IF k THEN ArchiveMerge(x, d) ELSE x
<1>1. m.auth \in Auth /\ d.auth \in Auth
  BY DEF Row
<1>2. \A f \in AuthFields : x[f] \in FieldValues(f)
  BY <1>1 DEF FieldMerge, Auth
<1>3. x \in Auth
  BY <1>2 DEF FieldMerge, Auth, AuthValues
<1>4. ArchiveMerge(x, d) \in Auth
  <2> HIDE DEF x
  <2>1. CASE d.auth["phase"] = "archived" \/ x["phase"] = "archived"
    <3> DEFINE z == [f \in AuthFields |->
                        IF f \in ArchiveFields THEN d.auth[f] ELSE x[f]]
    <3>1. \A f \in AuthFields : z[f] \in FieldValues(f)
      BY <1>1, <1>3 DEF Auth
    <3>2. z \in Auth
      BY <3>1 DEF Auth, AuthValues
    <3> QED
      BY <2>1, <3>2 DEF ArchiveMerge
  <2>2. CASE ~(d.auth["phase"] = "archived" \/ x["phase"] = "archived")
    BY <1>3, <2>2 DEF ArchiveMerge
  <2> QED
    BY <2>1, <2>2
<1>5. y \in Auth
  BY <1>3, <1>4
<1> HIDE DEF y
<1>6. [m EXCEPT !.auth = y] \in Row
  BY <1>5 DEF Row
<1> QED
  BY <1>6 DEF y

(* The merge of anything a writer holds is a row or no row.                *)
LEMMA MergeRowType ==
    ASSUME NEW m \in Row \cup {NoRow}, NEW d \in Row \cup {NoRow},
           NEW b \in Row \cup {NoRow}, NEW k \in BOOLEAN
    PROVE  MergeRow(m, d, b, k) \in Row \cup {NoRow}
<1>1. CASE m = NoRow
  BY <1>1 DEF MergeRow
<1>2. CASE m # NoRow /\ d = NoRow
  BY <1>2 DEF MergeRow
<1>3. CASE m # NoRow /\ d # NoRow
  <2>1. m \in Row /\ d \in Row
    BY <1>3
  <2> QED
    BY <1>3, <2>1, FieldwiseType DEF MergeRow
<1> QED
  BY <1>1, <1>2, <1>3

(* Editing one row of a registry yields a registry.                        *)
LEMMA RegistryEdit ==
    ASSUME NEW reg \in Registry, NEW a \in Names,
           NEW r \in Row \cup {NoRow}
    PROVE  [reg EXCEPT !.rows[a] = r] \in Registry
BY DEF Registry

(* The empty registry is one.                                              *)
LEMMA EmptyRegistryType == EmptyRegistry \in Registry
BY DEF EmptyRegistry, Registry, ApprovalStatus

-----------------------------------------------------------------------------
(* Type correctness.                                                       *)

(* A handler's edit keeps the types.                                       *)
LEMMA EditType ==
    ASSUME TypeOK, NEW w \in Writers, NEW o \in Ops, NEW T \in SUBSET Names,
           NEW reg \in Registry, nextId' \in Nat, Edit(w, o, T, reg)
    PROVE  TypeOK'
BY DEF TypeOK, Edit

(* So does the end of a save, a clean-up or a crash.                       *)
LEMMA ForgetType ==
    ASSUME TypeOK, NEW w \in Writers, disk' \in Registry, nextId' = nextId,
           NEW next \in {"idle", "cleanup"}, Forget(w, next)
    PROVE  TypeOK'
<1>1. "none" \in Ops
  BY DEF Ops
<1> QED
  BY <1>1, EmptyRegistryType DEF TypeOK, Forget

(* Every command keeps the types.                                          *)
LEMMA CommandType ==
    ASSUME TypeOK, NEW w \in Operators, NEW a \in Names, Command(w, a)
    PROVE  TypeOK'
<1>1. w \in Writers /\ disk \in Registry /\ nextId \in Nat /\ {a} \in SUBSET Names
  BY DEF Writers, TypeOK
<1>2. disk.rows[a] \in Row \cup {NoRow}
  BY <1>1 DEF Registry
<1>3. AllCommands \subseteq Ops
  BY DEF Ops
<1>4. ASSUME NEW o \in AllCommands, NEW r \in Row \cup {NoRow},
             nextId' \in Nat, EditRow(w, o, a, r)
      PROVE  TypeOK'
  BY <1>1, <1>3, <1>4, RegistryEdit, EditType DEF EditRow
<1>5. IsRow(disk.rows[a]) => disk.rows[a] \in Row
  BY <1>2 DEF IsRow
<1>6. CASE Start(w, a)
  BY <1>1, <1>4, <1>5, <1>6, EditsType DEF Start, Issue, AllCommands
<1>7. CASE Stop(w, a)
  BY <1>1, <1>4, <1>5, <1>7, EditsType DEF Stop, Issue, AllCommands
<1>8. CASE Attach(w, a)
  BY <1>1, <1>4, <1>5, <1>8, EditsType DEF Attach, Issue, AllCommands
<1>9. CASE AnnounceOffline(w, a)
  BY <1>1, <1>4, <1>5, <1>9, EditsType DEF AnnounceOffline, Issue, AllCommands
<1>10. CASE Hide(w, a)
  BY <1>1, <1>4, <1>5, <1>10, EditsType DEF Hide, Issue, AllCommands
<1>11. CASE Unhide(w, a)
  BY <1>1, <1>4, <1>5, <1>11, EditsType DEF Unhide, Issue, AllCommands
<1>12. CASE Archive(w, a)
  BY <1>1, <1>4, <1>5, <1>12, EditsType DEF Archive, Issue, AllCommands
<1>13. CASE Restore(w, a)
  BY <1>1, <1>4, <1>5, <1>13, EditsType DEF Restore, Issue, AllCommands
<1>14. CASE Add(w, a)
  <2>1. PICK d \in {"running", "stopped"} :
          IF IsRow(disk.rows[a])
          THEN /\ EditRow(w, "add", a, Put(disk.rows[a], [desired |-> d]))
               /\ UNCHANGED nextId
          ELSE /\ nextId <= MaxId
               /\ EditRow(w, "add", a, NewRow(nextId, d))
               /\ nextId' = nextId + 1
    BY <1>14 DEF Add
  <2>2. CASE IsRow(disk.rows[a])
    BY <1>1, <1>4, <1>5, <2>1, <2>2, EditsType DEF AllCommands
  <2>3. CASE ~IsRow(disk.rows[a])
    <3>1. NewRow(nextId, d) \in Row
      BY <1>1, NewRowType
    <3> QED
      BY <1>1, <1>4, <2>1, <2>3, <3>1 DEF AllCommands
  <2> QED
    BY <2>2, <2>3
<1>15. CASE Remove(w, a)
  BY <1>1, <1>4, <1>15 DEF Remove, Issue, AllCommands
<1>16. ASSUME NEW o \in {"approve", "deny"}, NEW s \in ApprovalStatus,
              Decide(w, o, a, s)
       PROVE  TypeOK'
  <2>1. [disk EXCEPT !.approvals[a] = s] \in Registry
    BY <1>1 DEF Registry
  <2> QED
    BY <1>1, <1>3, <1>16, <2>1, EditType DEF Decide, AllCommands
<1>17. CASE Approve(w, a)
  BY <1>16, <1>17 DEF Approve, ApprovalStatus
<1>18. CASE Deny(w, a)
  BY <1>16, <1>18 DEF Deny, ApprovalStatus
<1> QED
  BY <1>6, <1>7, <1>8, <1>9, <1>10, <1>11, <1>12, <1>13, <1>14, <1>15, <1>17, <1>18
     DEF Command

(* So does a daemon poll.                                                  *)
LEMMA TickType == TypeOK /\ Tick => TypeOK'
<1> SUFFICES ASSUME TypeOK, Tick PROVE TypeOK'
  OBVIOUS
<1> DEFINE R(D) == [a \in Names |->
                       IF a \in D THEN [disk.rows[a] EXCEPT !.disabled = TRUE]
                       ELSE disk.rows[a]]
           Q(P) == [a \in Names |-> IF a \in P THEN "pending"
                                    ELSE disk.approvals[a]]
<1>1. PICK D \in SUBSET {a \in Reconciled(disk) :
                           disk.rows[a].auth["desired"] = "running"},
           P \in SUBSET {a \in Reconciled(disk) :
                           disk.approvals[a] \in {"none", "archived"}} :
        Edit(Daemon, "tick", {}, [rows |-> R(D), approvals |-> Q(P)])
  BY DEF Tick
<1>2. disk \in Registry /\ nextId' \in Nat /\ Daemon \in Writers /\ "tick" \in Ops
  BY DEF TypeOK, Tick, Writers, Ops
<1>3. \A a \in Names : R(D)[a] \in Row \cup {NoRow}
  <2> TAKE a \in Names
  <2>1. disk.rows[a] \in Row \cup {NoRow}
    BY <1>2 DEF Registry
  <2>2. CASE a \in D
    <3>1. disk.rows[a] \in Row
      BY <2>1, <2>2 DEF Reconciled, IsRow
    <3>2. [disk.rows[a] EXCEPT !.disabled = TRUE] \in Row
      BY <3>1 DEF Row
    <3> QED
      BY <2>2, <3>2
  <2>3. CASE a \notin D
    BY <2>1, <2>3
  <2> QED
    BY <2>2, <2>3
<1>4. Q(P) \in [Names -> ApprovalStatus]
  BY <1>2 DEF Registry, ApprovalStatus
<1>5. R(D) \in [Names -> Row \cup {NoRow}]
  BY <1>3
<1> HIDE DEF R, Q
<1>6. [rows |-> R(D), approvals |-> Q(P)] \in Registry
  BY <1>4, <1>5 DEF Registry
<1> QED
  BY <1>1, <1>2, <1>6, EditType

(* And every step of a save, a clean-up or a crash.                        *)
LEMMA WriterType ==
    ASSUME TypeOK, NEW w \in Writers, WriterStep(w)
    PROVE  TypeOK'
<1>1. disk \in Registry /\ nextId \in Nat /\ mem[w] \in Registry /\ base[w] \in Registry
  BY DEF TypeOK
<1>2. CASE ArchiveStale(w)
  <2> DEFINE q == [a \in Names |-> IF a \in Stale(disk) THEN "archived"
                                   ELSE disk.approvals[a]]
  <2>1. q \in [Names -> ApprovalStatus]
    BY <1>1 DEF Registry, ApprovalStatus
  <2> HIDE DEF q
  <2>2. [disk EXCEPT !.approvals = q] \in Registry
    BY <1>1, <2>1 DEF Registry
  <2>3. "archive_stale" \in Ops
    BY DEF Ops
  <2>4. Edit(w, "archive_stale", {}, [disk EXCEPT !.approvals = q]) /\ nextId' \in Nat
    BY <1>1, <1>2 DEF ArchiveStale, q
  <2> QED
    BY <2>2, <2>3, <2>4, EditType
<1>3. CASE SaveRead(w)
  <2>1. \A a \in Names : Merged(w).rows[a] \in Row \cup {NoRow}
    BY <1>1, MergeRowType DEF Merged, Registry, MergesArchive
  <2>2. Merged(w) \in Registry
    BY <1>1, <2>1 DEF Merged, Registry
  <2> QED
    BY <1>3, <2>2 DEF SaveRead, TypeOK
<1>4. CASE SaveWrite(w)
  BY <1>1, <1>4, ForgetType DEF SaveWrite
<1>5. CASE CleanupDone(w)
  BY <1>1, <1>5, ForgetType DEF CleanupDone
<1>6. CASE Crash(w)
  BY <1>1, <1>6, ForgetType DEF Crash
<1> QED
  BY <1>2, <1>3, <1>4, <1>5, <1>6 DEF WriterStep

(* registry.json and every writer's copy are well-formed registries at all *)
(* times, whether or not saves overlap.                                    *)
THEOREM TypeCorrect == Spec => []TypeOK
<1>1. Init => TypeOK
  BY EmptyRegistryType DEF Init, TypeOK, Ops
<1>2. TypeOK /\ [Next]_vars => TypeOK'
  <2> SUFFICES ASSUME TypeOK, [Next]_vars PROVE TypeOK'
    OBVIOUS
  <2>1. CASE UNCHANGED vars
    BY <2>1 DEF vars, TypeOK
  <2>2. CASE Next
    BY <2>2, CommandType, TickType, WriterType DEF Next
  <2> QED
    BY <2>1, <2>2
<1> QED
  BY <1>1, <1>2, PTL DEF Spec

-----------------------------------------------------------------------------
(* Saves that do not overlap.  The inductive invariant is SerialInv.       *)

(* Under the merge, a row edited only at its own command's target is, at   *)
(* every other name, the row on disk.                                      *)
LEMMA MergeOwnChange ==
    ASSUME NEW m \in Row \cup {NoRow}, NEW d \in Row \cup {NoRow},
           NEW b \in Row \cup {NoRow}, NEW k \in BOOLEAN,
           NEW w, NEW a, OwnChange(w, a, m, b)
    PROVE  OwnChange(w, a, MergeRow(m, d, b, k), d)
<1>1. CASE m = NoRow
  BY <1>1 DEF MergeRow, OwnChange, IsRow
<1>2. CASE m # NoRow /\ d = NoRow
  BY <1>2 DEF MergeRow, OwnChange, IsRow
<1>3. CASE m # NoRow /\ d # NoRow
  <2> DEFINE x == FieldMerge(m, d, b)
             y == IF k THEN ArchiveMerge(x, d) ELSE x
             r == [m EXCEPT !.auth = y]
  <2>1. m \in Row /\ d \in Row
    BY <1>3
  <2>2. MergeRow(m, d, b, k) = r
    BY <1>3 DEF MergeRow
  <2>3. r \in Row
    BY <2>1, FieldwiseType
  <2>4. r # NoRow
    BY <2>3, NoRowAssumption
  <2>5. r.auth = y
    BY <2>1 DEF Row
  <2>6. ASSUME a \notin target[w] PROVE y = d.auth
    <3>1. b # NoRow /\ m.auth = b.auth
      BY <1>3, <2>6 DEF OwnChange, IsRow
    <3>2. m.auth \in [AuthFields -> AuthValues] /\ d.auth \in [AuthFields -> AuthValues]
      BY <2>1 DEF Row, Auth
    <3>3. \A f \in AuthFields : x[f] = d.auth[f]
      BY <3>1 DEF FieldMerge, Loaded
    <3>4. x = d.auth
      BY <3>2, <3>3 DEF FieldMerge
    <3>5. ArchiveMerge(d.auth, d) = d.auth
      BY <3>2 DEF ArchiveMerge
    <3> QED
      BY <3>4, <3>5
  <2> HIDE DEF r, y
  <2> QED
    BY <1>3, <2>2, <2>4, <2>5, <2>6 DEF OwnChange, IsRow
<1> QED
  BY <1>1, <1>2, <1>3

(* An edit that changes only what its command may keeps the invariant.     *)
LEMMA EditKeeps ==
    ASSUME SerialInv, TypeOK', NEW w \in Writers, NEW o \in Ops,
           NEW T \in SUBSET Names, NEW reg \in Registry, Edit(w, o, T, reg),
           \A a \in Names :
              /\ IsRow(disk.rows[a]) /\ ~IsRow(reg.rows[a]) => o = "remove" /\ a \in T
              /\ ~IsRow(disk.rows[a]) /\ IsRow(reg.rows[a]) => o = "add" /\ a \in T
              /\ IsRow(disk.rows[a]) /\ IsRow(reg.rows[a]) /\ a \notin T
                    => reg.rows[a].auth = disk.rows[a].auth
    PROVE  SerialInv'
<1>1. TypeOK /\ EditsAreOwn /\ MergesAreCurrent
  BY DEF SerialInv
<1>2. /\ pc'[w] = "loaded" /\ op'[w] = o /\ target'[w] = T
      /\ base'[w] = disk /\ mem'[w] = reg /\ disk' = disk
      /\ \A v \in Writers : v # w =>
            /\ pc'[v] = pc[v] /\ op'[v] = op[v] /\ target'[v] = target[v]
            /\ base'[v] = base[v] /\ mem'[v] = mem[v]
  BY <1>1 DEF TypeOK, Edit
<1>3. EditsAreOwn'
  <2> SUFFICES ASSUME NEW v \in Writers, NEW a \in Names, pc'[v] = "loaded"
               PROVE  OwnChange(v, a, mem[v].rows[a], base[v].rows[a])'
    BY DEF EditsAreOwn
  <2>1. CASE v = w
    BY <1>2, <2>1 DEF OwnChange
  <2>2. CASE v # w
    <3>1. OwnChange(v, a, mem[v].rows[a], base[v].rows[a])
      BY <1>1, <1>2, <2>2 DEF EditsAreOwn
    <3> QED
      BY <1>2, <2>2, <3>1 DEF OwnChange
  <2> QED
    BY <2>1, <2>2
<1>4. MergesAreCurrent'
  <2> SUFFICES ASSUME SerialSaves
               PROVE  /\ \A u, v \in Writing' : u = v
                      /\ \A v \in Writing', a \in Names :
                            OwnChange(v, a, mem[v].rows[a], disk.rows[a])'
    BY DEF MergesAreCurrent
  <2>1. \A v \in Writing' : v \in Writing /\ v # w
    BY <1>2 DEF Writing
  <2>2. \A u, v \in Writing' : u = v
    BY <1>1, <2>1 DEF MergesAreCurrent
  <2>3. ASSUME NEW v \in Writing', NEW a \in Names
        PROVE  OwnChange(v, a, mem[v].rows[a], disk.rows[a])'
    <3>1. OwnChange(v, a, mem[v].rows[a], disk.rows[a])
      BY <1>1, <2>1 DEF MergesAreCurrent
    <3>2. v \in Writers /\ v # w
      BY <2>1 DEF Writing
    <3> QED
      BY <1>2, <3>1, <3>2 DEF OwnChange
  <2> QED
    BY <2>2, <2>3
<1> QED
  BY <1>3, <1>4 DEF SerialInv

(* Editing one row, at the command's target.                               *)
LEMMA EditRowKeeps ==
    ASSUME SerialInv, TypeOK', NEW w \in Writers, NEW o \in Ops,
           NEW a \in Names, NEW r \in Row \cup {NoRow}, EditRow(w, o, a, r),
           IsRow(disk.rows[a]) /\ ~IsRow(r) => o = "remove",
           ~IsRow(disk.rows[a]) /\ IsRow(r) => o = "add"
    PROVE  SerialInv'
<1>1. disk \in Registry
  BY DEF SerialInv, TypeOK
<1> DEFINE reg == [disk EXCEPT !.rows[a] = r]
<1>2. reg \in Registry
  BY <1>1, RegistryEdit
<1>3. reg.rows[a] = r /\ \A n \in Names : n # a => reg.rows[n] = disk.rows[n]
  BY <1>1 DEF Registry
<1>4. Edit(w, o, {a}, reg)
  BY DEF EditRow
<1> HIDE DEF reg
<1> QED
  BY <1>2, <1>3, <1>4, EditKeeps

(* Every command.                                                          *)
LEMMA CommandKeeps ==
    ASSUME SerialInv, NEW w \in Operators, NEW a \in Names, Command(w, a)
    PROVE  SerialInv'
<1>1. w \in Writers /\ disk \in Registry /\ nextId \in Nat /\ {a} \in SUBSET Names
  BY DEF Writers, SerialInv, TypeOK
<1>2. disk.rows[a] \in Row \cup {NoRow}
  BY <1>1 DEF Registry
<1>3. AllCommands \subseteq Ops
  BY DEF Ops
<1>4. TypeOK'
  BY CommandType DEF SerialInv
<1>5. ASSUME NEW o \in AllCommands, NEW r \in Row, IsRow(disk.rows[a]),
             EditRow(w, o, a, r)
      PROVE  SerialInv'
  BY <1>1, <1>3, <1>4, <1>5, EditRowKeeps, NoRowAssumption DEF IsRow
<1>6. IsRow(disk.rows[a]) => disk.rows[a] \in Row
  BY <1>2 DEF IsRow
<1>7. CASE Start(w, a)
  BY <1>5, <1>6, <1>7, EditsType DEF Start, Issue, AllCommands
<1>8. CASE Stop(w, a)
  BY <1>5, <1>6, <1>8, EditsType DEF Stop, Issue, AllCommands
<1>9. CASE Attach(w, a)
  BY <1>5, <1>6, <1>9, EditsType DEF Attach, Issue, AllCommands
<1>10. CASE AnnounceOffline(w, a)
  BY <1>5, <1>6, <1>10, EditsType DEF AnnounceOffline, Issue, AllCommands
<1>11. CASE Hide(w, a)
  BY <1>5, <1>6, <1>11, EditsType DEF Hide, Issue, AllCommands
<1>12. CASE Unhide(w, a)
  BY <1>5, <1>6, <1>12, EditsType DEF Unhide, Issue, AllCommands
<1>13. CASE Archive(w, a)
  BY <1>5, <1>6, <1>13, EditsType DEF Archive, Issue, AllCommands
<1>14. CASE Restore(w, a)
  BY <1>5, <1>6, <1>14, EditsType DEF Restore, Issue, AllCommands
<1>15. CASE Add(w, a)
  <2>1. PICK d \in {"running", "stopped"} :
          IF IsRow(disk.rows[a])
          THEN EditRow(w, "add", a, Put(disk.rows[a], [desired |-> d]))
          ELSE EditRow(w, "add", a, NewRow(nextId, d))
    BY <1>15 DEF Add
  <2>2. CASE IsRow(disk.rows[a])
    BY <1>5, <1>6, <2>1, <2>2, EditsType DEF AllCommands
  <2>3. CASE ~IsRow(disk.rows[a])
    <3>1. NewRow(nextId, d) \in Row
      BY <1>1, NewRowType
    <3>2. "add" \in Ops
      BY DEF Ops, AllCommands
    <3> QED
      BY <1>1, <1>4, <2>1, <2>3, <3>1, <3>2, EditRowKeeps
  <2> QED
    BY <2>2, <2>3
<1>16. CASE Remove(w, a)
  <2>1. "remove" \in Ops
    BY DEF Ops, AllCommands
  <2> QED
    BY <1>1, <1>4, <1>16, <2>1, EditRowKeeps DEF Remove, Issue, IsRow
<1>17. ASSUME NEW o \in {"approve", "deny"}, NEW s \in ApprovalStatus,
              Decide(w, o, a, s)
       PROVE  SerialInv'
  <2> DEFINE reg == [disk EXCEPT !.approvals[a] = s]
  <2>1. reg \in Registry /\ reg.rows = disk.rows
    BY <1>1 DEF Registry
  <2>2. Edit(w, o, {a}, reg) /\ o \in Ops
    BY <1>3, <1>17 DEF Decide, AllCommands
  <2> HIDE DEF reg
  <2> QED
    BY <1>1, <1>4, <2>1, <2>2, EditKeeps
<1>18. CASE Approve(w, a)
  BY <1>17, <1>18 DEF Approve, ApprovalStatus
<1>19. CASE Deny(w, a)
  BY <1>17, <1>19 DEF Deny, ApprovalStatus
<1> QED
  BY <1>7, <1>8, <1>9, <1>10, <1>11, <1>12, <1>13, <1>14, <1>15, <1>16, <1>18, <1>19
     DEF Command

(* A daemon poll edits no operator field and neither adds nor drops a row. *)
LEMMA TickKeeps == SerialInv /\ Tick => SerialInv'
<1> SUFFICES ASSUME SerialInv, Tick PROVE SerialInv'
  OBVIOUS
<1>1. disk \in Registry /\ Daemon \in Writers /\ "tick" \in Ops
  BY DEF SerialInv, TypeOK, Writers, Ops
<1>2. TypeOK'
  BY TickType DEF SerialInv
<1> DEFINE R(D) == [a \in Names |->
                       IF a \in D THEN [disk.rows[a] EXCEPT !.disabled = TRUE]
                       ELSE disk.rows[a]]
           Q(P) == [a \in Names |-> IF a \in P THEN "pending"
                                    ELSE disk.approvals[a]]
<1>3. PICK D \in SUBSET {a \in Reconciled(disk) :
                           disk.rows[a].auth["desired"] = "running"},
           P \in SUBSET {a \in Reconciled(disk) :
                           disk.approvals[a] \in {"none", "archived"}} :
        Edit(Daemon, "tick", {}, [rows |-> R(D), approvals |-> Q(P)])
  BY DEF Tick
<1> DEFINE reg == [rows |-> R(D), approvals |-> Q(P)]
<1>4. \A a \in Names :
        /\ reg.rows[a] \in Row \cup {NoRow}
        /\ IsRow(reg.rows[a]) <=> IsRow(disk.rows[a])
        /\ IsRow(disk.rows[a]) => reg.rows[a].auth = disk.rows[a].auth
  <2> TAKE a \in Names
  <2>1. disk.rows[a] \in Row \cup {NoRow}
    BY <1>1 DEF Registry
  <2>2. CASE a \in D
    <3>1. disk.rows[a] \in Row
      BY <2>1, <2>2 DEF Reconciled, IsRow
    <3>2. /\ [disk.rows[a] EXCEPT !.disabled = TRUE] \in Row
          /\ [disk.rows[a] EXCEPT !.disabled = TRUE].auth = disk.rows[a].auth
      BY <3>1 DEF Row
    <3> QED
      BY <2>2, <3>1, <3>2, NoRowAssumption DEF IsRow
  <2>3. CASE a \notin D
    BY <2>1, <2>3
  <2> QED
    BY <2>2, <2>3
<1>5. reg \in Registry
  <2>1. Q(P) \in [Names -> ApprovalStatus]
    BY <1>1 DEF Registry, ApprovalStatus
  <2>2. R(D) \in [Names -> Row \cup {NoRow}]
    BY <1>4
  <2> HIDE DEF R, Q
  <2> QED
    BY <2>1, <2>2 DEF Registry
<1> HIDE DEF reg
<1>6. Edit(Daemon, "tick", {}, reg)
  BY <1>3 DEF reg
<1> QED
  BY <1>1, <1>2, <1>4, <1>5, <1>6, EditKeeps

(* The end of a save, a clean-up or a crash: w leaves, and what the others *)
(* hold is judged against the new disk.                                    *)
LEMMA ForgetKeeps ==
    ASSUME SerialInv, TypeOK', NEW w \in Writers,
           NEW next \in {"idle", "cleanup"}, Forget(w, next),
           disk' = disk \/ w \in Writing
    PROVE  SerialInv'
<1>1. TypeOK /\ EditsAreOwn /\ MergesAreCurrent
  BY DEF SerialInv
<1>2. /\ pc'[w] = next
      /\ \A v \in Writers : v # w =>
            /\ pc'[v] = pc[v] /\ op'[v] = op[v] /\ target'[v] = target[v]
            /\ base'[v] = base[v] /\ mem'[v] = mem[v]
  BY <1>1 DEF TypeOK, Forget
<1>3. EditsAreOwn'
  <2> SUFFICES ASSUME NEW v \in Writers, NEW a \in Names, pc'[v] = "loaded"
               PROVE  OwnChange(v, a, mem[v].rows[a], base[v].rows[a])'
    BY DEF EditsAreOwn
  <2>1. v # w
    BY <1>2
  <2>2. OwnChange(v, a, mem[v].rows[a], base[v].rows[a])
    BY <1>1, <1>2, <2>1 DEF EditsAreOwn
  <2> QED
    BY <1>2, <2>1, <2>2 DEF OwnChange
<1>4. MergesAreCurrent'
  <2> SUFFICES ASSUME SerialSaves
               PROVE  /\ \A u, v \in Writing' : u = v
                      /\ \A v \in Writing', a \in Names :
                            OwnChange(v, a, mem[v].rows[a], disk.rows[a])'
    BY DEF MergesAreCurrent
  <2>1. \A v \in Writing' : v \in Writing /\ v # w
    BY <1>2 DEF Writing
  <2>2. \A u, v \in Writing' : u = v
    BY <1>1, <2>1 DEF MergesAreCurrent
  <2>3. ASSUME NEW v \in Writing', NEW a \in Names
        PROVE  OwnChange(v, a, mem[v].rows[a], disk.rows[a])'
    <3>1. disk' = disk
      BY <1>1, <2>1 DEF MergesAreCurrent
    <3>2. OwnChange(v, a, mem[v].rows[a], disk.rows[a])
      BY <1>1, <2>1 DEF MergesAreCurrent
    <3>3. v \in Writers /\ v # w
      BY <2>1 DEF Writing
    <3> QED
      BY <1>2, <3>1, <3>2, <3>3 DEF OwnChange
  <2> QED
    BY <2>2, <2>3
<1> QED
  BY <1>3, <1>4 DEF SerialInv

(* The merge itself: by MergeOwnChange the copy now differs from the disk  *)
(* only where the command may.                                             *)
LEMMA SaveReadKeeps ==
    ASSUME SerialInv, TypeOK', NEW w \in Writers, SaveRead(w)
    PROVE  SerialInv'
<1>1. TypeOK /\ EditsAreOwn /\ MergesAreCurrent
  BY DEF SerialInv
<1>2. /\ pc[w] = "loaded" /\ pc'[w] = "writing" /\ mem'[w] = Merged(w)
      /\ disk' = disk /\ op' = op /\ target' = target /\ base' = base
      /\ \A v \in Writers : v # w => pc'[v] = pc[v] /\ mem'[v] = mem[v]
  BY <1>1 DEF TypeOK, SaveRead
<1>3. EditsAreOwn'
  BY <1>1, <1>2 DEF EditsAreOwn, OwnChange
<1>4. MergesAreCurrent'
  <2> SUFFICES ASSUME SerialSaves
               PROVE  /\ \A u, v \in Writing' : u = v
                      /\ \A v \in Writing', a \in Names :
                            OwnChange(v, a, mem[v].rows[a], disk.rows[a])'
    BY DEF MergesAreCurrent
  <2>1. Writing' = {w}
    BY <1>2 DEF SaveRead, Writing
  <2>2. ASSUME NEW a \in Names
        PROVE  OwnChange(w, a, mem[w].rows[a], disk.rows[a])'
    <3>1. /\ mem[w].rows[a] \in Row \cup {NoRow}
          /\ base[w].rows[a] \in Row \cup {NoRow}
          /\ disk.rows[a] \in Row \cup {NoRow}
          /\ MergesArchive(op[w]) \in BOOLEAN
      BY <1>1 DEF TypeOK, Registry, MergesArchive
    <3>2. OwnChange(w, a, mem[w].rows[a], base[w].rows[a])
      BY <1>1, <1>2 DEF EditsAreOwn
    <3>3. OwnChange(w, a, Merged(w).rows[a], disk.rows[a])
      BY <3>1, <3>2, MergeOwnChange DEF Merged
    <3> QED
      BY <1>2, <3>3 DEF OwnChange
  <2> QED
    BY <2>1, <2>2
<1> QED
  BY <1>3, <1>4 DEF SerialInv

(* Every step of a save, a clean-up or a crash.                            *)
LEMMA WriterKeeps ==
    ASSUME SerialInv, NEW w \in Writers, WriterStep(w)
    PROVE  SerialInv'
<1>1. disk \in Registry /\ TypeOK'
  BY WriterType DEF SerialInv, TypeOK
<1>2. CASE ArchiveStale(w)
  <2> DEFINE q == [a \in Names |-> IF a \in Stale(disk) THEN "archived"
                                   ELSE disk.approvals[a]]
             reg == [disk EXCEPT !.approvals = q]
  <2>1. q \in [Names -> ApprovalStatus]
    BY <1>1 DEF Registry, ApprovalStatus
  <2> HIDE DEF q
  <2>2. reg \in Registry /\ reg.rows = disk.rows
    BY <1>1, <2>1 DEF Registry
  <2>3. Edit(w, "archive_stale", {}, reg) /\ "archive_stale" \in Ops
    BY <1>2 DEF ArchiveStale, Ops, q
  <2> HIDE DEF reg
  <2> QED
    BY <1>1, <2>2, <2>3, EditKeeps
<1>3. CASE SaveRead(w)
  BY <1>1, <1>3, SaveReadKeeps
<1>4. CASE SaveWrite(w)
  BY <1>1, <1>4, ForgetKeeps DEF SaveWrite, Writing
<1>5. CASE CleanupDone(w)
  BY <1>1, <1>5, ForgetKeeps DEF CleanupDone
<1>6. CASE Crash(w)
  BY <1>1, <1>6, ForgetKeeps DEF Crash
<1> QED
  BY <1>2, <1>3, <1>4, <1>5, <1>6 DEF WriterStep

(* SerialInv is an invariant.                                              *)
THEOREM SerialInvariant == Spec => []SerialInv
<1>1. Init => SerialInv
  <2> SUFFICES ASSUME Init PROVE SerialInv
    OBVIOUS
  <2>1. TypeOK
    BY EmptyRegistryType DEF Init, TypeOK, Ops
  <2>2. \A w \in Writers : pc[w] = "idle"
    BY DEF Init
  <2> QED
    BY <2>1, <2>2 DEF SerialInv, EditsAreOwn, MergesAreCurrent, Writing
<1>2. SerialInv /\ [Next]_vars => SerialInv'
  <2> SUFFICES ASSUME SerialInv, [Next]_vars PROVE SerialInv'
    OBVIOUS
  <2>1. CASE UNCHANGED vars
    BY <2>1 DEF vars, SerialInv, TypeOK, EditsAreOwn, MergesAreCurrent, Writing, OwnChange
  <2>2. CASE Next
    BY <2>2, CommandKeeps, TickKeeps, WriterKeeps DEF Next
  <2> QED
    BY <2>1, <2>2
<1> QED
  BY <1>1, <1>2, PTL DEF Spec

(* Which steps rename: a save's own SaveWrite, or a crash, which leaves    *)
(* the disk alone.                                                         *)
LEMMA RenameStep ==
    ASSUME SerialInv, [Next]_vars, NEW w \in Writers, Renames(w)
    PROVE  disk' = mem[w] \/ disk' = disk
<1>1. pc \in [Writers -> {"idle", "loaded", "writing", "cleanup"}]
  BY DEF SerialInv, TypeOK
<1>2. CASE UNCHANGED vars
  BY <1>2 DEF vars, Renames
<1>3. ASSUME NEW v \in Writers, NEW o, NEW T, NEW reg, Edit(v, o, T, reg)
      PROVE  disk' = disk
  BY <1>3 DEF Edit
<1>4. ASSUME NEW v \in Operators, NEW a \in Names, Command(v, a)
      PROVE  disk' = disk
  BY <1>4 DEF Command, Start, Stop, Attach, AnnounceOffline, Hide, Unhide, Archive,
     Restore, Add, Remove, Approve, Deny, Decide, EditRow, Edit
<1>5. Tick => disk' = disk
  BY DEF Tick, Edit
<1>6. ASSUME NEW v \in Writers, WriterStep(v)
      PROVE  disk' = mem[w] \/ disk' = disk
  <2>1. CASE SaveWrite(v)
    <3>1. CASE v = w
      BY <2>1, <3>1 DEF SaveWrite
    <3>2. CASE v # w
      BY <1>1, <2>1, <3>2 DEF SaveWrite, Forget, Renames
    <3> QED
      BY <3>1, <3>2
  <2>2. CASE ~SaveWrite(v)
    BY <1>6, <2>2 DEF WriterStep, ArchiveStale, SaveRead, CleanupDone, Crash, Edit
  <2> QED
    BY <2>1, <2>2
<1> QED
  BY <1>2, <1>4, <1>5, <1>6 DEF Next

(* When saves do not overlap, a save changes the operator-authoritative    *)
(* fields of no row its command does not name, however stale the saver's   *)
(* view was.                                                               *)
THEOREM OperatorFieldsAreKept ==
    ASSUME SerialSaves PROVE Spec => OperatorFieldsKept
<1>1. SerialInv /\ [Next]_vars => [OperatorFieldsStep]_vars
  <2> SUFFICES ASSUME SerialInv, [Next]_vars,
                      NEW w \in Writers, NEW a \in Names,
                      Renames(w), a \notin target[w],
                      IsRow(disk.rows[a]), IsRow(disk'.rows[a])
               PROVE  disk'.rows[a].auth = disk.rows[a].auth
    BY DEF OperatorFieldsStep
  <2>1. w \in Writing
    BY DEF Renames, Writing
  <2>2. OwnChange(w, a, mem[w].rows[a], disk.rows[a])
    BY <2>1 DEF SerialInv, MergesAreCurrent
  <2> QED
    BY <2>2, RenameStep DEF OwnChange
<1> QED
  BY <1>1, SerialInvariant, PTL DEF Spec, OperatorFieldsKept

(* When saves do not overlap, a row leaves registry.json only by the remove *)
(* that names it and enters it only by the add that names it.              *)
THEOREM RowsComeAndGoOnlyByCommand ==
    ASSUME SerialSaves PROVE Spec => RowsComeAndGoByCommand
<1>1. SerialInv /\ [Next]_vars => [RowsStep]_vars
  <2> SUFFICES ASSUME SerialInv, [Next]_vars,
                      NEW w \in Writers, NEW a \in Names, Renames(w)
               PROVE  /\ IsRow(disk.rows[a]) /\ ~IsRow(disk'.rows[a])
                            => op[w] = "remove" /\ a \in target[w]
                      /\ ~IsRow(disk.rows[a]) /\ IsRow(disk'.rows[a])
                            => op[w] = "add" /\ a \in target[w]
    BY DEF RowsStep
  <2>1. w \in Writing
    BY DEF Renames, Writing
  <2>2. OwnChange(w, a, mem[w].rows[a], disk.rows[a])
    BY <2>1 DEF SerialInv, MergesAreCurrent
  <2> QED
    BY <2>2, RenameStep DEF OwnChange
<1> QED
  BY <1>1, SerialInvariant, PTL DEF Spec, RowsComeAndGoByCommand

-----------------------------------------------------------------------------
(* One operator and the daemon.  The inductive invariant is AloneInv.      *)

Remembers(r) == IsRow(r) => (Phase(r) = "archived" <=> r.auth["beforeArchive"] # Unset)

SameAuth(r, q) == (IsRow(r) <=> IsRow(q)) /\ (IsRow(r) => r.auth = q.auth)

(* Of the commands only archive and restore touch what a row remembers,    *)
(* and only archive makes it archived.                                     *)
EditRemembers(o, m, b) ==
    IsRow(m) =>
        IF IsRow(b) /\ o \notin {"archive", "restore"}
        THEN /\ m.auth["beforeArchive"] = b.auth["beforeArchive"]
             /\ Phase(m) = "archived" => Phase(b) = "archived"
        ELSE Remembers(m)

(* What is on disk and what is about to be renamed over it remembers; and  *)
(* the operator's view of the fields of operators is not stale, for the    *)
(* daemon does not change them.                                            *)
AloneInv ==
    /\ target[Daemon] = {}
    /\ \A a \in Names : Remembers(disk.rows[a])
    /\ \A w \in Writing, a \in Names : Remembers(mem[w].rows[a])
    /\ \A w \in Operators, a \in Names :
          pc[w] = "loaded" =>
            /\ SameAuth(disk.rows[a], base[w].rows[a])
            /\ EditRemembers(op[w], mem[w].rows[a], base[w].rows[a])

(* What Put leaves in each field.                                          *)
LEMMA PutFields ==
    ASSUME NEW r \in Row, NEW c, NEW f \in AuthFields
    PROVE  Put(r, c).auth[f] = IF f \in DOMAIN c THEN c[f] ELSE r.auth[f]
BY DEF Put, Row

(* Every command, as EditRemembers says.                                   *)
LEMMA EditsRemember ==
    ASSUME NEW r \in Row, Remembers(r)
    PROVE  /\ EditRemembers("start", StartRow(r), r)
           /\ EditRemembers("stop", StopRow(r), r)
           /\ EditRemembers("attach", AttachRow(r), r)
           /\ EditRemembers("announce", AnnounceOfflineRow(r), r)
           /\ EditRemembers("hide", HideRow(r), r)
           /\ EditRemembers("unhide", UnhideRow(r), r)
           /\ EditRemembers("archive", ArchiveRow(r), r)
           /\ EditRemembers("restore", RestoreRow(r), r)
           /\ \A d \in {"running", "stopped"} : EditRemembers("add", Put(r, [desired |-> d]), r)
<1>1. {"phase", "beforeArchive", "desired"} \subseteq AuthFields /\ IsRow(r)
  BY NoRowAssumption DEF AuthFields, IsRow, NoRowAssumption
<1>2. \A d \in {"running", "stopped"} :
        LET q == Put(r, [desired |-> d])
        IN  q.auth["beforeArchive"] = r.auth["beforeArchive"] /\ Phase(q) = Phase(r)
  BY <1>1, PutFields DEF Phase
<1>3. \A q \in Row : [q EXCEPT !.disabled = FALSE].auth = q.auth
  BY DEF Row
<1>4. \A d \in {"running", "stopped"} : Put(r, [desired |-> d]) \in Row
  BY EditsType
<1>5. EditRemembers("start", StartRow(r), r)
  BY <1>1, <1>2, <1>3, <1>4 DEF StartRow, EditRemembers, Phase
<1>6. EditRemembers("stop", StopRow(r), r)
  <2>1. StopRow(r).auth["beforeArchive"] = r.auth["beforeArchive"] /\ Phase(StopRow(r)) = Phase(r)
    BY <1>1, PutFields DEF Phase, StopRow
  <2> QED BY <1>1, <2>1 DEF EditRemembers
<1>7. EditRemembers("attach", AttachRow(r), r)
  <2>1. AttachRow(r).auth["beforeArchive"] = r.auth["beforeArchive"] /\ Phase(AttachRow(r)) = Phase(r)
    BY <1>1, PutFields DEF Phase, AttachRow
  <2> QED BY <1>1, <2>1 DEF EditRemembers
<1>8. EditRemembers("announce", AnnounceOfflineRow(r), r)
  BY <1>1, <1>2 DEF AnnounceOfflineRow, EditRemembers
<1>9. EditRemembers("hide", HideRow(r), r)
  <2> DEFINE h == Put(r, [desired |-> "stopped", phase |-> "hidden"])
  <2>1. h \in Row
    BY PutType DEF FieldValues
  <2>2. h.auth["beforeArchive"] = r.auth["beforeArchive"] /\ Phase(h) = "hidden"
    BY <1>1, PutFields DEF Phase
  <2> DEFINE k == Put(h, [beforeHide |-> r.auth["desired"]])
  <2>3. k.auth["beforeArchive"] = h.auth["beforeArchive"] /\ Phase(k) = Phase(h)
    <3> HIDE DEF h
    <3> QED BY <1>1, <2>1, PutFields DEF Phase
  <2>4. HideRow(r) = h \/ HideRow(r) = k
    BY DEF HideRow
  <2> HIDE DEF h, k
  <2> QED BY <1>1, <2>2, <2>3, <2>4 DEF EditRemembers
<1>10. EditRemembers("unhide", UnhideRow(r), r)
  <2> DEFINE prior == IF r.auth["beforeHide"] = Unset THEN "running" ELSE r.auth["beforeHide"]
             u == Put(r, [desired |-> prior, phase |-> "active", beforeHide |-> Unset])
  <2>1. u.auth["beforeArchive"] = r.auth["beforeArchive"] /\ Phase(u) = "active"
    BY <1>1, PutFields DEF Phase
  <2>2. UnhideRow(r).auth = u.auth
    BY DEF UnhideRow, Put, Row
  <2> HIDE DEF u
  <2> QED BY <1>1, <2>1, <2>2 DEF EditRemembers, Phase
<1>11. EditRemembers("archive", ArchiveRow(r), r)
  <2>1. ArchiveRow(r).auth["beforeArchive"] = r.auth["desired"] /\ Phase(ArchiveRow(r)) = "archived"
    BY <1>1, PutFields DEF Phase, ArchiveRow
  <2>2. r.auth["desired"] \in {"running", "stopped"}
    BY <1>1 DEF Row, Auth, FieldValues, AuthFields
  <2> QED BY <2>1, <2>2, UnsetAssumption DEF EditRemembers, Remembers, UnsetAssumption
<1>12. EditRemembers("restore", RestoreRow(r), r)
  <2>1. RestoreRow(r).auth["beforeArchive"] = Unset /\ Phase(RestoreRow(r)) = "active"
    BY <1>1, PutFields DEF Phase, RestoreRow
  <2> QED BY <2>1 DEF EditRemembers, Remembers
<1>13. \A d \in {"running", "stopped"} : EditRemembers("add", Put(r, [desired |-> d]), r)
  BY <1>1, <1>2 DEF EditRemembers
<1> QED BY <1>5, <1>6, <1>7, <1>8, <1>9, <1>10, <1>11, <1>12, <1>13

(* The merge of a command of the only operator, whose view of the fields   *)
(* of operators is that of the disk: what it yields remembers, and is what *)
(* the command made of the row unless step (3) speaks of it.               *)
LEMMA AloneMerge ==
    ASSUME NEW m \in Row \cup {NoRow}, NEW d \in Row \cup {NoRow}, NEW b \in Row \cup {NoRow},
           NEW o, SameAuth(d, b), Remembers(d), EditRemembers(o, m, b)
    PROVE  /\ Remembers(MergeRow(m, d, b, MergesArchive(o)))
           /\ IsRow(m) /\ (o = "restore" \/ ~IsRow(b) \/ Phase(b) # "archived")
                => MergeRow(m, d, b, MergesArchive(o)) = m
<1>1. CASE m = NoRow
  BY <1>1 DEF MergeRow, Remembers, IsRow, SameAuth
<1>2. CASE m # NoRow /\ d = NoRow
  BY <1>2 DEF MergeRow, Remembers, EditRemembers, IsRow, SameAuth
<1>3. CASE m # NoRow /\ d # NoRow
  <2> DEFINE x == FieldMerge(m, d, b)
             y == IF MergesArchive(o) THEN ArchiveMerge(x, d) ELSE x
             r == [m EXCEPT !.auth = y]
  <2>1. m \in Row /\ d \in Row /\ b \in Row /\ IsRow(m) /\ IsRow(b) /\ IsRow(d) /\ d.auth = b.auth
    BY <1>3 DEF SameAuth, IsRow
  <2>2. MergeRow(m, d, b, MergesArchive(o)) = r
    BY <1>3 DEF MergeRow
  <2>3. x = m.auth
    <3>1. m.auth \in [AuthFields -> AuthValues]
      BY <2>1 DEF Row, Auth
    <3>2. \A f \in AuthFields : x[f] = m.auth[f]
      BY <2>1 DEF FieldMerge, Loaded, IsRow
    <3> QED BY <3>1, <3>2 DEF FieldMerge
  <2>4. r.auth = y
    BY <2>1 DEF Row
  <2>5. m.auth["phase"] = Phase(m) /\ d.auth["phase"] = Phase(d) /\ Phase(b) = Phase(d)
    BY <2>1 DEF Phase
  <2>6. CASE MergesArchive(o) /\ (Phase(d) = "archived" \/ Phase(m) = "archived")
    <3>1. y = [f \in AuthFields |-> IF f \in ArchiveFields THEN d.auth[f] ELSE x[f]]
      BY <2>3, <2>5, <2>6 DEF ArchiveMerge
    <3>2. y["phase"] = d.auth["phase"] /\ y["beforeArchive"] = d.auth["beforeArchive"]
      BY <3>1 DEF AuthFields, ArchiveFields
    <3>3. Phase(d) = "archived" /\ o # "restore"
      BY <2>1, <2>5, <2>6 DEF EditRemembers, MergesArchive
    <3>4. Remembers(r)
      <4> HIDE DEF y, r
      <4> QED BY <2>1, <2>4, <3>2 DEF Remembers, Phase
    <3> HIDE DEF r, y
    <3> QED BY <2>1, <2>2, <2>5, <3>3, <3>4
  <2>7. CASE ~(MergesArchive(o) /\ (Phase(d) = "archived" \/ Phase(m) = "archived"))
    <3>1. y = m.auth
      BY <2>3, <2>5, <2>7 DEF ArchiveMerge
    <3>2. r = m
      <4> HIDE DEF y
      <4> QED BY <2>1, <3>1 DEF Row
    <3>3. Remembers(m)
      BY <2>1, <2>5, <2>7 DEF EditRemembers, MergesArchive, Remembers, Phase
    <3> HIDE DEF r, y
    <3> QED BY <2>2, <3>2, <3>3
  <2> QED BY <2>6, <2>7
<1> QED BY <1>1, <1>2, <1>3

(* A handler's edit: what others hold and the disk stay as they are.       *)
LEMMA AloneEdit ==
    ASSUME SerialInv, AloneInv, NEW w \in Writers, NEW o \in Ops, NEW T \in SUBSET Names,
           NEW reg \in Registry, Edit(w, o, T, reg),
           w = Daemon => T = {},
           w \in Operators => \A a \in Names : EditRemembers(o, reg.rows[a], disk.rows[a])
    PROVE  AloneInv'
<1>1. TypeOK
  BY DEF SerialInv
<1>2. /\ pc'[w] = "loaded" /\ op'[w] = o /\ target'[w] = T
      /\ base'[w] = disk /\ mem'[w] = reg /\ disk' = disk
      /\ \A v \in Writers : v # w =>
            /\ pc'[v] = pc[v] /\ op'[v] = op[v] /\ target'[v] = target[v]
            /\ base'[v] = base[v] /\ mem'[v] = mem[v]
  BY <1>1 DEF TypeOK, Edit
<1>3. Daemon \in Writers /\ Operators \subseteq Writers
  BY DEF Writers
<1>4. target'[Daemon] = {}
  BY <1>2, <1>3 DEF AloneInv
<1>5. \A v \in Writing' : v \in Writing /\ v # w
  BY <1>2 DEF Writing
<1>6. \A v \in Writing', a \in Names : Remembers(mem'[v].rows[a])
  <2> SUFFICES ASSUME NEW v \in Writing', NEW a \in Names PROVE Remembers(mem'[v].rows[a])
    OBVIOUS
  <2>1. v \in Writers /\ mem'[v] = mem[v]
    BY <1>2, <1>5 DEF Writing
  <2> QED BY <1>5, <2>1 DEF AloneInv
<1>7. ASSUME NEW v \in Operators, NEW a \in Names, pc'[v] = "loaded"
      PROVE  /\ SameAuth(disk'.rows[a], base'[v].rows[a])
             /\ EditRemembers(op'[v], mem'[v].rows[a], base'[v].rows[a])
  <2>1. CASE v = w
    BY <1>2, <2>1 DEF SameAuth
  <2>2. CASE v # w
    <3>1. /\ pc[v] = "loaded" /\ disk' = disk /\ base'[v] = base[v]
          /\ op'[v] = op[v] /\ mem'[v] = mem[v]
      BY <1>2, <1>3, <1>7, <2>2
    <3> QED BY <3>1 DEF AloneInv
  <2> QED BY <2>1, <2>2
<1>8. \A a \in Names : Remembers(disk'.rows[a])
  BY <1>2 DEF AloneInv
<1> QED BY <1>4, <1>6, <1>7, <1>8 DEF AloneInv

(* Every command.                                                          *)
LEMMA AloneCommand ==
    ASSUME SerialInv, AloneInv, NEW w \in Operators, NEW a \in Names, Command(w, a)
    PROVE  AloneInv'
<1>1. /\ w \in Writers /\ w # Daemon /\ disk \in Registry /\ nextId \in Nat
      /\ {a} \in SUBSET Names
  BY DaemonAssumption DEF Writers, SerialInv, TypeOK, DaemonAssumption
<1>2. \A n \in Names : disk.rows[n] \in Row \cup {NoRow} /\ Remembers(disk.rows[n])
  BY <1>1 DEF Registry, AloneInv
<1>3. AllCommands \subseteq Ops
  BY DEF Ops
<1>4. ASSUME NEW o \in AllCommands, NEW n \in Names PROVE EditRemembers(o, disk.rows[n], disk.rows[n])
  BY <1>2 DEF EditRemembers
<1>5. ASSUME NEW o \in AllCommands, NEW r \in Row \cup {NoRow}, EditRow(w, o, a, r),
             EditRemembers(o, r, disk.rows[a])
      PROVE  AloneInv'
  <2> DEFINE reg == [disk EXCEPT !.rows[a] = r]
  <2>1. reg \in Registry
    BY <1>1, <1>5, RegistryEdit
  <2>2. reg.rows[a] = r /\ \A n \in Names : n # a => reg.rows[n] = disk.rows[n]
    BY <1>1 DEF Registry
  <2>3. Edit(w, o, {a}, reg)
    BY <1>5 DEF EditRow
  <2> HIDE DEF reg
  <2>4. \A n \in Names : EditRemembers(o, reg.rows[n], disk.rows[n])
    <3> TAKE n \in Names
    <3>1. CASE n = a
      BY <1>5, <2>2, <3>1
    <3>2. CASE n # a
      BY <1>4, <2>2, <3>2
    <3> QED BY <3>1, <3>2
  <2> QED BY <1>1, <1>3, <2>1, <2>3, <2>4, AloneEdit
<1>6. IsRow(disk.rows[a]) => disk.rows[a] \in Row
  BY <1>2 DEF IsRow
<1>7. CASE Start(w, a)
  BY <1>2, <1>5, <1>6, <1>7, EditsType, EditsRemember DEF Start, Issue, AllCommands
<1>8. CASE Stop(w, a)
  BY <1>2, <1>5, <1>6, <1>8, EditsType, EditsRemember DEF Stop, Issue, AllCommands
<1>9. CASE Attach(w, a)
  BY <1>2, <1>5, <1>6, <1>9, EditsType, EditsRemember DEF Attach, Issue, AllCommands
<1>10. CASE AnnounceOffline(w, a)
  BY <1>2, <1>5, <1>6, <1>10, EditsType, EditsRemember DEF AnnounceOffline, Issue, AllCommands
<1>11. CASE Hide(w, a)
  BY <1>2, <1>5, <1>6, <1>11, EditsType, EditsRemember DEF Hide, Issue, AllCommands
<1>12. CASE Unhide(w, a)
  BY <1>2, <1>5, <1>6, <1>12, EditsType, EditsRemember DEF Unhide, Issue, AllCommands
<1>13. CASE Archive(w, a)
  BY <1>2, <1>5, <1>6, <1>13, EditsType, EditsRemember DEF Archive, Issue, AllCommands
<1>14. CASE Restore(w, a)
  BY <1>2, <1>5, <1>6, <1>14, EditsType, EditsRemember DEF Restore, Issue, AllCommands
<1>15. CASE Add(w, a)
  <2>1. PICK d \in {"running", "stopped"} :
          IF IsRow(disk.rows[a])
          THEN EditRow(w, "add", a, Put(disk.rows[a], [desired |-> d]))
          ELSE EditRow(w, "add", a, NewRow(nextId, d))
    BY <1>15 DEF Add
  <2>2. CASE IsRow(disk.rows[a])
    BY <1>2, <1>5, <1>6, <2>1, <2>2, EditsType, EditsRemember DEF AllCommands
  <2>3. CASE ~IsRow(disk.rows[a])
    <3>1. NewRow(nextId, d) \in Row
      BY <1>1, NewRowType
    <3>2. Remembers(NewRow(nextId, d))
      <4>1. /\ NewRow(nextId, d).auth["phase"] = Unset
            /\ NewRow(nextId, d).auth["beforeArchive"] = Unset
        BY DEF NewRow, AuthFields
      <4> QED BY <4>1, UnsetAssumption DEF Remembers, Phase, UnsetAssumption
    <3>3. EditRemembers("add", NewRow(nextId, d), disk.rows[a])
      BY <2>3, <3>2 DEF EditRemembers
    <3> QED BY <1>5, <2>1, <2>3, <3>1, <3>3 DEF AllCommands
  <2> QED BY <2>2, <2>3
<1>16. CASE Remove(w, a)
  <2>1. EditRemembers("remove", NoRow, disk.rows[a])
    BY DEF EditRemembers, IsRow
  <2> QED BY <1>5, <1>16, <2>1 DEF Remove, Issue, AllCommands
<1>17. ASSUME NEW o \in {"approve", "deny"}, NEW s \in ApprovalStatus, Decide(w, o, a, s)
       PROVE  AloneInv'
  <2> DEFINE reg == [disk EXCEPT !.approvals[a] = s]
  <2>1. reg \in Registry /\ reg.rows = disk.rows
    BY <1>1 DEF Registry
  <2>2. Edit(w, o, {a}, reg) /\ o \in Ops /\ o \in AllCommands
    BY <1>3, <1>17 DEF Decide, AllCommands
  <2> HIDE DEF reg
  <2> QED BY <1>1, <1>4, <2>1, <2>2, AloneEdit
<1>18. CASE Approve(w, a)
  BY <1>17, <1>18 DEF Approve, ApprovalStatus
<1>19. CASE Deny(w, a)
  BY <1>17, <1>19 DEF Deny, ApprovalStatus
<1> QED
  BY <1>7, <1>8, <1>9, <1>10, <1>11, <1>12, <1>13, <1>14, <1>15, <1>16, <1>18, <1>19 DEF Command

(* A poll names no target.                                                 *)
LEMMA AloneTick ==
    ASSUME SerialInv, AloneInv, Tick PROVE AloneInv'
<1>1. /\ Daemon \in Writers /\ Daemon \notin Operators
  BY DaemonAssumption DEF Writers, DaemonAssumption
<1>2. TypeOK'
  BY TickType DEF SerialInv
<1>3. PICK reg : Edit(Daemon, "tick", {}, reg)
  BY DEF Tick
<1>4. reg \in Registry
  <2>1. mem'[Daemon] = reg
    BY <1>1, <1>3 DEF Edit, SerialInv, TypeOK
  <2> QED BY <1>1, <1>2, <2>1 DEF TypeOK
<1>5. "tick" \in Ops
  BY DEF Ops
<1> QED BY <1>1, <1>3, <1>4, <1>5, AloneEdit

(* The end of a save, a clean-up or a crash.  The daemon's save leaves the *)
(* fields of operators alone; nobody else loads while the operator saves.  *)
LEMMA AloneForget ==
    ASSUME SerialSaves, \A u, v \in Operators : u = v, SerialInv, AloneInv,
           NEW w \in Writers, NEW next \in {"idle", "cleanup"}, Forget(w, next),
           disk' = disk \/ (w \in Writing /\ disk' = mem[w])
    PROVE  AloneInv'
<1>1. TypeOK /\ MergesAreCurrent
  BY DEF SerialInv
<1>2. /\ pc'[w] = next /\ target'[w] = {}
      /\ \A v \in Writers : v # w =>
            /\ pc'[v] = pc[v] /\ op'[v] = op[v] /\ target'[v] = target[v]
            /\ base'[v] = base[v] /\ mem'[v] = mem[v]
  BY <1>1 DEF TypeOK, Forget
<1>3. Daemon \in Writers /\ Operators \subseteq Writers /\ Writers = Operators \cup {Daemon}
  BY DEF Writers
<1>4. target'[Daemon] = {}
  BY <1>2, <1>3 DEF AloneInv
<1>5. \A v \in Writing' : v \in Writing /\ v # w
  BY <1>2 DEF Writing
<1>6. \A v \in Writing', a \in Names : Remembers(mem'[v].rows[a])
  <2> SUFFICES ASSUME NEW v \in Writing', NEW a \in Names PROVE Remembers(mem'[v].rows[a])
    OBVIOUS
  <2>1. v \in Writers /\ mem'[v] = mem[v]
    BY <1>2, <1>5 DEF Writing
  <2> QED BY <1>5, <2>1 DEF AloneInv
<1>7. ASSUME NEW v \in Operators, NEW a \in Names, pc'[v] = "loaded"
      PROVE  /\ SameAuth(disk'.rows[a], base'[v].rows[a])
             /\ EditRemembers(op'[v], mem'[v].rows[a], base'[v].rows[a])
  <2>1. /\ v # w /\ pc[v] = "loaded" /\ base'[v] = base[v]
        /\ op'[v] = op[v] /\ mem'[v] = mem[v]
    BY <1>2, <1>3, <1>7
  <2>2. /\ SameAuth(disk.rows[a], base[v].rows[a])
        /\ EditRemembers(op[v], mem[v].rows[a], base[v].rows[a])
    BY <2>1 DEF AloneInv
  <2>3. CASE w \in Writing /\ disk' = mem[w]
    <3>1. w = Daemon
      BY <1>3, <2>1
    <3>2. OwnChange(w, a, mem[w].rows[a], disk.rows[a])
      BY <1>1, <2>3 DEF MergesAreCurrent
    <3>3. SameAuth(mem[w].rows[a], disk.rows[a])
      BY <3>1, <3>2 DEF OwnChange, SameAuth, AloneInv
    <3>4. SameAuth(disk'.rows[a], base[v].rows[a])
      BY <2>2, <2>3, <3>3 DEF SameAuth
    <3> QED BY <2>1, <2>2, <3>4
  <2>4. CASE disk' = disk
    BY <2>1, <2>2, <2>4
  <2> QED BY <2>3, <2>4
<1>8. \A a \in Names : Remembers(disk'.rows[a])
  BY DEF AloneInv
<1> QED BY <1>4, <1>6, <1>7, <1>8 DEF AloneInv

(* A save's read and merge.                                                *)
LEMMA AloneRead ==
    ASSUME SerialSaves, \A u, v \in Operators : u = v, SerialInv, AloneInv,
           NEW w \in Writers, SaveRead(w)
    PROVE  AloneInv'
<1>1. TypeOK /\ SerialInv'
  BY WriterKeeps DEF SerialInv, WriterStep
<1>2. /\ pc[w] = "loaded" /\ pc'[w] = "writing" /\ mem'[w] = Merged(w)
      /\ disk' = disk /\ op' = op /\ target' = target /\ base' = base
      /\ \A v \in Writers : v # w => pc'[v] = pc[v] /\ mem'[v] = mem[v]
  BY <1>1 DEF TypeOK, SaveRead
<1>3. Writing' = {w}
  BY <1>2 DEF SaveRead, Writing
<1>4. Writers = Operators \cup {Daemon}
  BY DEF Writers
<1>5. ASSUME NEW a \in Names PROVE Remembers(mem'[w].rows[a])
  <2>1. CASE w = Daemon
    <3>1. OwnChange(w, a, mem[w].rows[a], disk.rows[a])'
      BY <1>1, <1>3 DEF SerialInv, MergesAreCurrent
    <3>2. SameAuth(mem'[w].rows[a], disk.rows[a])
      BY <1>2, <2>1, <3>1 DEF OwnChange, SameAuth, AloneInv
    <3>3. Remembers(disk.rows[a])
      BY DEF AloneInv
    <3> QED BY <3>2, <3>3 DEF SameAuth, Remembers, Phase
  <2>2. CASE w \in Operators
    <3>1. /\ mem[w].rows[a] \in Row \cup {NoRow}
          /\ base[w].rows[a] \in Row \cup {NoRow}
          /\ disk.rows[a] \in Row \cup {NoRow}
      BY <1>1 DEF TypeOK, Registry
    <3>2. Remembers(MergeRow(mem[w].rows[a], disk.rows[a], base[w].rows[a], MergesArchive(op[w])))
      BY <1>2, <2>2, <3>1, AloneMerge DEF AloneInv
    <3> QED BY <1>2, <3>2 DEF Merged
  <2> QED BY <1>4, <2>1, <2>2
<1>6. ASSUME NEW v \in Operators, NEW a \in Names, pc'[v] = "loaded"
      PROVE  /\ SameAuth(disk'.rows[a], base'[v].rows[a])
             /\ EditRemembers(op'[v], mem'[v].rows[a], base'[v].rows[a])
  <2>1. v # w /\ v \in Writers
    BY <1>2, <1>4, <1>6
  <2>2. pc[v] = "loaded" /\ mem'[v] = mem[v]
    BY <1>2, <1>6, <2>1
  <2> QED BY <1>2, <2>2 DEF AloneInv
<1>7. target'[Daemon] = {} /\ \A a \in Names : Remembers(disk'.rows[a])
  BY <1>2 DEF AloneInv
<1>8. \A v \in Writing', a \in Names : Remembers(mem'[v].rows[a])
  BY <1>3, <1>5
<1> QED BY <1>6, <1>7, <1>8 DEF AloneInv

(* The other steps of a writer.                                            *)
LEMMA AloneWriter ==
    ASSUME SerialSaves, \A u, v \in Operators : u = v, SerialInv, AloneInv,
           NEW w \in Writers, WriterStep(w)
    PROVE  AloneInv'
<1>1. TypeOK /\ w \in Writers
  BY DEF SerialInv
<1>2. CASE ArchiveStale(w)
  <2> DEFINE reg == [disk EXCEPT !.approvals =
                        [a \in Names |-> IF a \in Stale(disk) THEN "archived"
                                         ELSE disk.approvals[a]]]
  <2>1. Edit(w, "archive_stale", {}, reg)
    BY <1>2 DEF ArchiveStale
  <2>2. reg \in Registry /\ reg.rows = disk.rows
    BY <1>1 DEF TypeOK, Registry, ApprovalStatus
  <2> HIDE DEF reg
  <2>3. \A a \in Names : EditRemembers("archive_stale", reg.rows[a], disk.rows[a])
    <3> TAKE a \in Names
    <3>1. Remembers(disk.rows[a]) /\ reg.rows[a] = disk.rows[a]
      BY <2>2 DEF AloneInv
    <3> QED BY <3>1 DEF EditRemembers
  <2>4. "archive_stale" \in Ops /\ {} \in SUBSET Names
    BY DEF Ops
  <2> QED BY <2>1, <2>2, <2>3, <2>4, AloneEdit
<1>3. CASE SaveRead(w)
  BY <1>3, AloneRead
<1>4. CASE SaveWrite(w)
  <2>1. w \in Writing /\ disk' = mem[w]
    BY <1>4 DEF SaveWrite, Writing
  <2>2. PICK next \in {"idle", "cleanup"} : Forget(w, next)
    BY <1>4 DEF SaveWrite
  <2> QED BY <2>1, <2>2, AloneForget
<1>5. CASE CleanupDone(w)
  BY <1>5, AloneForget DEF CleanupDone
<1>6. CASE Crash(w)
  BY <1>6, AloneForget DEF Crash
<1> QED BY <1>2, <1>3, <1>4, <1>5, <1>6 DEF WriterStep

LEMMA AloneInvHolds ==
    ASSUME SerialSaves, \A u, v \in Operators : u = v
    PROVE  Spec => [](SerialInv /\ AloneInv)
<1>1. Init => AloneInv
  <2> SUFFICES ASSUME Init PROVE AloneInv
    OBVIOUS
  <2>1. \A w \in Writers : pc[w] = "idle" /\ target[w] = {}
    BY DEF Init
  <2>2. Daemon \in Writers /\ Operators \subseteq Writers /\ Writing = {}
    BY <2>1 DEF Writers, Writing
  <2>3. \A a \in Names : Remembers(disk.rows[a])
    BY DEF Init, EmptyRegistry, Remembers, IsRow
  <2> QED BY <2>1, <2>2, <2>3 DEF AloneInv
<1>2. SerialInv /\ AloneInv /\ [Next]_vars => AloneInv'
  <2> SUFFICES ASSUME SerialInv, AloneInv, [Next]_vars PROVE AloneInv'
    OBVIOUS
  <2>1. CASE Next
    BY <2>1, AloneCommand, AloneTick, AloneWriter DEF Next
  <2>2. CASE UNCHANGED vars
    BY <2>2 DEF vars, AloneInv, Writing
  <2> QED BY <2>1, <2>2
<1>3. Spec => []SerialInv
  BY SerialInvariant
<1> QED BY <1>1, <1>2, <1>3, PTL DEF Spec

(* With one operator beside the daemon, a row on disk is archived exactly  *)
(* when it remembers the state a restore returns to: the merge of          *)
(* save_gateway_registry, field by field though it is, never tears the     *)
(* two apart, whatever the daemon's saves write in between.                *)
THEOREM ArchivedRowsAlwaysRemember ==
    ASSUME SerialSaves, \A u, v \in Operators : u = v
    PROVE  Spec => []ArchivedRowsRemember
<1>1. AloneInv => ArchivedRowsRemember
  BY DEF AloneInv, ArchivedRowsRemember, Remembers
<1> QED BY <1>1, AloneInvHolds, PTL

(* With one operator beside the daemon, the save of a command leaves the   *)
(* row as the command edited it, unless the row was archived: steps (2)    *)
(* and (3) of save_gateway_registry never turn it against its own caller.  *)
THEOREM CommandsDoTakeEffect ==
    ASSUME SerialSaves, \A u, v \in Operators : u = v
    PROVE  Spec => CommandsTakeEffect
<1> DEFINE TakesEffect(w, a) ==
        /\ pc[w] = "loaded" /\ pc'[w] = "writing"
        /\ a \in target[w]
        /\ IsRow(mem[w].rows[a])
        /\ \/ op[w] = "restore"
           \/ ~IsRow(base[w].rows[a])
           \/ Phase(base[w].rows[a]) # "archived"
        => mem'[w].rows[a] = mem[w].rows[a]
<1>1. SerialInv /\ AloneInv /\ [Next]_vars
        => [\A w \in Operators, a \in Names : TakesEffect(w, a)]_vars
  <2> SUFFICES ASSUME SerialInv, AloneInv, Next,
                      NEW w \in Operators, NEW a \in Names,
                      pc[w] = "loaded", pc'[w] = "writing",
                      IsRow(mem[w].rows[a]),
                      op[w] = "restore" \/ ~IsRow(base[w].rows[a])
                        \/ Phase(base[w].rows[a]) # "archived"
               PROVE  mem'[w].rows[a] = mem[w].rows[a]
    OBVIOUS
  <2>1. w \in Writers /\ TypeOK
    BY DEF Writers, SerialInv
  <2>2. \A v, o, T, reg : Edit(v, o, T, reg) => pc'[w] # "writing"
    BY <2>1 DEF TypeOK, Edit
  <2>3. \A n \in {"idle", "cleanup"}, v \in Writers : Forget(v, n) => pc'[w] # "writing"
    BY <2>1 DEF TypeOK, Forget
  <2>4. \A v, n : ~Command(v, n)
    BY <2>2 DEF Command, Start, Stop, Attach, AnnounceOffline, Hide, Unhide, Archive,
                Restore, Add, Remove, Approve, Deny, Decide, EditRow
  <2>5. ~Tick
    BY <2>2 DEF Tick
  <2>6. PICK v \in Writers : WriterStep(v)
    BY <2>4, <2>5 DEF Next
  <2>7. SaveRead(v)
    <3>1. ~ArchiveStale(v)
      BY <2>2 DEF ArchiveStale
    <3>2. ~SaveWrite(v) /\ ~CleanupDone(v) /\ ~Crash(v)
      BY <2>3 DEF SaveWrite, CleanupDone, Crash
    <3> QED BY <2>6, <3>1, <3>2 DEF WriterStep
  <2>8. v = w
    BY <2>1, <2>7 DEF TypeOK, SaveRead
  <2>9. /\ mem[w].rows[a] \in Row \cup {NoRow}
        /\ base[w].rows[a] \in Row \cup {NoRow}
        /\ disk.rows[a] \in Row \cup {NoRow}
    BY <2>1 DEF TypeOK, Registry
  <2>10. MergeRow(mem[w].rows[a], disk.rows[a], base[w].rows[a], MergesArchive(op[w]))
            = mem[w].rows[a]
    BY <2>9, AloneMerge DEF AloneInv
  <2>11. mem'[w].rows[a] = MergeRow(mem[w].rows[a], disk.rows[a], base[w].rows[a],
                                    MergesArchive(op[w]))
    BY <2>1, <2>7, <2>8 DEF TypeOK, SaveRead, Merged
  <2> QED BY <2>10, <2>11
<1>2. Spec => [](SerialInv /\ AloneInv)
  BY AloneInvHolds
<1> QED BY <1>1, <1>2, PTL DEF Spec, CommandsTakeEffect

-----------------------------------------------------------------------------
(* Placement                                                               *)

MoveRecord == [at : {"ask", "read", "save"}, copy : Place, space : Spaces]
PlacePoll == [copy : Place, done : BOOLEAN]

PlacementInv ==
    /\ PlacementTypeOK /\ RevisionsAreUpstream
    /\ mover # Nothing => mover \in MoveRecord
    /\ poll # Nothing => poll \in PlacePoll

(* A new placement has a revision that none had, and its event alone is of *)
(* that revision.                                                          *)
LEMMA PlacedKeeps ==
    ASSUME PlacementInv, NEW s \in Spaces, Placed(s)
    PROVE  /\ platform' \in Place /\ events' \subseteq Place
           /\ platform'.revision > platform.revision
           /\ \A e \in events' : /\ e.revision <= platform'.revision
                                 /\ e.revision = platform'.revision => e = platform'
<1>1. platform \in Place /\ events \subseteq Place /\ platform.revision \in Nat
  BY DEF PlacementInv, PlacementTypeOK, Place
<1>2. /\ platform' \in Place /\ platform'.revision = platform.revision + 1
      /\ events' = events \cup {platform'}
  BY <1>1 DEF Placed, Place
<1>3. \A e \in events : e.revision \in Nat /\ e.revision <= platform.revision
  <2> TAKE e \in events
  <2>1. e \in Place
    BY <1>1
  <2>2. e.revision <= platform.revision
    BY DEF PlacementInv, RevisionsAreUpstream
  <2> QED BY <2>1, <2>2 DEF Place
<1> QED BY <1>1, <1>2, <1>3

LEMMA PlacementKeeps == PlacementInv /\ [PlacementNext]_placement => PlacementInv'
<1> SUFFICES ASSUME PlacementInv, [PlacementNext]_placement PROVE PlacementInv'
  OBVIOUS
<1> USE DEF PlacementInv
<1>1. /\ platform \in Place /\ place \in Place /\ events \subseteq Place
      /\ platform.revision \in Nat /\ place.revision \in Nat
      /\ bound # Nothing => bound \in BoundRuntime /\ bound.revision \in Nat
      /\ poll # Nothing => poll.copy \in Place /\ poll.copy.revision \in Nat
      /\ mover # Nothing => mover.copy \in Place /\ mover.copy.revision \in Nat
  BY DEF PlacementTypeOK, Place, BoundRuntime
<1>2. CASE PlatformPlaces
  <2>1. PICK s \in Spaces : Placed(s)
    BY <1>2 DEF PlatformPlaces
  <2> QED
    BY <1>1, <1>2, <2>1, PlacedKeeps DEF PlatformPlaces, PlacementTypeOK, RevisionsAreUpstream, Place
<1>3. ASSUME NEW s \in Spaces, MoveLoads(s) PROVE PlacementInv'
  <2>1. mover' \in MoveRecord
    BY <1>1, <1>3 DEF MoveLoads, MoveRecord
  <2>2. mover'.copy = place
    BY <1>3 DEF MoveLoads
  <2> QED
    BY <1>3, <2>1, <2>2 DEF MoveLoads, PlacementTypeOK, RevisionsAreUpstream, MoveRecord
<1>4. CASE MoveAsks
  <2>1. mover \in MoveRecord
    BY <1>4 DEF MoveAsks
  <2>2. CASE Placed(mover.space) /\ mover' = [mover EXCEPT !.at = "read"]
    <3>1. mover' \in MoveRecord /\ mover'.copy = mover.copy /\ mover.space \in Spaces
      BY <2>1, <2>2 DEF MoveRecord
    <3>2. mover # Nothing
      BY <1>4 DEF MoveAsks
    <3> QED
      BY <1>1, <1>4, <2>2, <3>1, <3>2, PlacedKeeps
      DEF MoveAsks, PlacementTypeOK, RevisionsAreUpstream, Place, MoveRecord
  <2>3. CASE mover' = Nothing /\ UNCHANGED <<platform, events>>
    BY <1>4, <2>3 DEF MoveAsks, PlacementTypeOK, RevisionsAreUpstream
  <2> QED BY <1>4, <2>2, <2>3 DEF MoveAsks
<1>5. CASE MoveReads
  <2>1. mover \in MoveRecord
    BY <1>5 DEF MoveReads
  <2>2. mover' \in MoveRecord /\ mover'.copy = mover.copy
    BY <1>1, <1>5, <2>1 DEF MoveReads, MoveRecord, Place
  <2> QED
    BY <1>5, <2>2 DEF MoveReads, PlacementTypeOK, RevisionsAreUpstream, MoveRecord
<1>6. CASE MoveSaves
  <2>1. mover \in MoveRecord
    BY <1>6 DEF MoveSaves
  <2>2. place' \in Place /\ place'.revision = mover.copy.revision
    BY <1>6, <2>1 DEF MoveSaves, MoveRecord, Place
  <2> QED
    BY <1>1, <1>6, <2>2 DEF MoveSaves, PlacementTypeOK, RevisionsAreUpstream
<1>7. CASE PlacePollLoads
  BY <1>1, <1>7 DEF PlacePollLoads, PlacementTypeOK, RevisionsAreUpstream, PlacePoll
<1>8. CASE PlacePollReconciles
  <2>1. poll \in PlacePoll
    BY <1>8 DEF PlacePollReconciles
  <2>2. poll' \in PlacePoll /\ poll'.copy = poll.copy
    BY <1>8, <2>1 DEF PlacePollReconciles, PlacePoll
  <2>3. bound' \in BoundRuntime /\ bound'.revision = poll.copy.revision
    BY <1>1, <1>8, <2>1 DEF PlacePollReconciles, PlacePoll, BoundRuntime, Place
  <2> QED
    BY <1>8, <2>2, <2>3 DEF PlacePollReconciles, PlacementTypeOK, RevisionsAreUpstream, PlacePoll
<1>9. CASE PlacePollSaves
  BY <1>1, <1>9 DEF PlacePollSaves, PlacementTypeOK, RevisionsAreUpstream
<1>10. CASE PlaceDaemonRestarts
  BY <1>1, <1>10 DEF PlaceDaemonRestarts, PlacementTypeOK, RevisionsAreUpstream
<1>11. CASE StreamConnects \/ StreamBreaks
  <2>1. bound \in BoundRuntime /\ bound # Nothing
    BY <1>1, <1>11 DEF StreamConnects, StreamBreaks
  <2>2. bound' \in BoundRuntime /\ bound'.revision = bound.revision
    BY <1>11, <2>1 DEF StreamConnects, StreamBreaks, BoundRuntime
  <2> QED
    BY <1>11, <2>1, <2>2 DEF StreamConnects, StreamBreaks, PlacementTypeOK, RevisionsAreUpstream
<1>12. ASSUME NEW e \in events, EventApplied(e) PROVE PlacementInv'
  <2>1. e \in Place /\ e.revision <= platform.revision /\ bound \in BoundRuntime /\ bound # Nothing
    <3>1. e.revision <= platform.revision
      BY DEF RevisionsAreUpstream
    <3> QED BY <1>1, <1>12, <3>1 DEF EventApplied
  <2>2. events' \subseteq events
    BY <1>12 DEF EventApplied
  <2>3. CASE UNCHANGED <<place, bound>>
    BY <1>1, <1>12, <2>2, <2>3 DEF EventApplied, PlacementTypeOK, RevisionsAreUpstream
  <2>4. CASE /\ place' = e
             /\ bound' = [bound EXCEPT !.space = e.space, !.revision = e.revision]
    <3>1. bound' \in BoundRuntime /\ bound'.revision = e.revision
      BY <2>1, <2>4 DEF BoundRuntime, Place
    <3> QED
      BY <1>1, <1>12, <2>1, <2>2, <2>4, <3>1 DEF EventApplied, PlacementTypeOK, RevisionsAreUpstream
  <2> QED BY <1>12, <2>3, <2>4 DEF EventApplied
<1>13. CASE UNCHANGED placement
  BY <1>13 DEF placement, PlacementTypeOK, RevisionsAreUpstream
<1> QED
  BY <1>2, <1>3, <1>4, <1>5, <1>6, <1>7, <1>8, <1>9, <1>10, <1>11, <1>12, <1>13 DEF PlacementNext

LEMMA PlacementInvHolds == PlacementSpec => []PlacementInv
<1>1. PlacementInit => PlacementInv
  BY DEF PlacementInit, PlacementInv, PlacementTypeOK, RevisionsAreUpstream, Place
<1> QED BY <1>1, PlacementKeeps, PTL DEF PlacementSpec

(* Row, runtime, copies, events and the platform's record are well typed.  *)
THEOREM PlacementTypeCorrect == PlacementSpec => []PlacementTypeOK
<1>1. PlacementInv => PlacementTypeOK
  BY DEF PlacementInv
<1> QED BY <1>1, PlacementInvHolds, PTL

(* Whatever moves, polls, lost and late events and restarts do, nobody is  *)
(* ahead of the platform, and the event of its latest revision is its      *)
(* placement: row and runtime are where the platform has the agent once    *)
(* _apply_placement_event has applied it.                                  *)
THEOREM NoneIsAheadOfThePlatform == PlacementSpec => []RevisionsAreUpstream
<1>1. PlacementInv => RevisionsAreUpstream
  BY DEF PlacementInv
<1> QED BY <1>1, PlacementInvHolds, PTL
=============================================================================
