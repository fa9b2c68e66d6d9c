---------------------------- MODULE StoresProofs ----------------------------
(***************************************************************************)
(* Proofs about the components that keep what they know in a file which    *)
(* other processes rewrite: SupervisedRuntime (its row of the registry),   *)
(* Heartbeats, TokenCache and Reminders, for any number of processes,      *)
(* setup errors, tokens, policies and commands and for crashes between any *)
(* two steps.  They share no state; each has an inductive invariant of its *)
(* own.                                                                    *)
(***************************************************************************)
EXTENDS SupervisedRuntime, Heartbeats, TokenCache, Reminders, SequenceTheorems, TLAPS

-----------------------------------------------------------------------------
(* SupervisedRuntime                                                       *)

Fates == {"alive", "exited", "crashed", "killed", "orphan"}
PassRecord == [loaded : AgentRecord, copy : AgentRecord, done : BOOLEAN]
Tries == [error : Errors \cup {NoError}, number : Nat]

(* Who has failed often enough is given up.                                *)
Counted(x) == x.count >= MaxErrors => x.disabled

(* The count x holds is not behind the failures t by more than d.          *)
Abreast(x, t, d) == t.number <= (IF x.sig = t.error THEN x.count ELSE 0) + d

(* The row may be behind by the try of a pass that has yet to save it, and *)
(* by one for each pass that never did.                                    *)
CountsAbreast ==
    /\ Counted(agent)
    /\ Abreast(agent, tries, deaths + (IF pass # NoObject /\ pass.done THEN 1 ELSE 0))
    /\ pass # NoObject => Counted(pass.copy) /\ Abreast(pass.copy, tries, deaths)
    /\ object # NoObject => Counted(object) /\ Abreast(object, tries, deaths)

SupervisorInv == SupervisorTypeOK /\ OneChild /\ CountsAbreast /\ GivesUp

-----------------------------------------------------------------------------
(* What the operators return                                               *)

LEMMA SnapshotFields ==
  ASSUME NEW copy \in AgentRecord, NEW o \in RuntimeObject
  PROVE  /\ WithSnapshot(copy, o) \in AgentRecord
         /\ WithSnapshot(copy, o).count = o.count
         /\ WithSnapshot(copy, o).sig = o.sig
         /\ WithSnapshot(copy, o).disabled = o.disabled
  BY DEF WithSnapshot, AgentRecord, RuntimeObject

LEMMA RecordedFields ==
  ASSUME NEW o \in RuntimeObject, NEW error \in Errors
  PROVE  /\ Recorded(o, error) \in RuntimeObject
         /\ Recorded(o, error).child = o.child
         /\ Recorded(o, error).count = IF o.sig = error THEN o.count + 1 ELSE 1
         /\ Recorded(o, error).sig = error
         /\ Counted(Recorded(o, error))
  <1> DEFINE n == IF o.sig = error THEN o.count + 1 ELSE 1
             d == o.disabled \/ n >= MaxErrors
             r == [o EXCEPT !.count = n, !.sig = error, !.disabled = d, !.shown = "error", !.status = TRUE]
  <1>1. n \in Nat
    BY DEF RuntimeObject
  <1>2. d \in BOOLEAN /\ (n >= MaxErrors => d)
    OBVIOUS
  <1>3. Recorded(o, error) = r
    BY DEF Recorded
  <1> HIDE DEF n, d
  <1>4. r \in RuntimeObject /\ r.child = o.child /\ r.count = n /\ r.sig = error
    BY <1>1, <1>2 DEF RuntimeObject, Shown
  <1>5. r.disabled = d
    BY DEF RuntimeObject
  <1>6. Counted(r)
    BY <1>2, <1>4, <1>5 DEF Counted
  <1> HIDE DEF r
  <1> QED BY <1>3, <1>4, <1>6 DEF n

LEMMA SpawnedFields ==
  ASSUME NEW o \in RuntimeObject, NEW c \in Nat
  PROVE  /\ Spawned(o, c) \in RuntimeObject
         /\ Spawned(o, c).child = c
         /\ Spawned(o, c).count = 0
  BY DEF Spawned, RuntimeObject, Shown

LEMMA ClearedFields ==
  ASSUME NEW row \in AgentRecord
  PROVE  Cleared(row) \in AgentRecord /\ Cleared(row).count = 0
  BY DEF Cleared, AgentRecord

LEMMA EndedFates ==
  ASSUME SupervisorTypeOK, OneChild, NEW how \in Fates \ {"alive"}
  PROVE  /\ Ended(object, how) \in Seq(Fates)
         /\ Len(Ended(object, how)) = Len(children)
         /\ DOMAIN Ended(object, how) = DOMAIN children
         /\ \A c \in DOMAIN children : Ended(object, how)[c] # "alive"
  <1>1. children \in Seq(Fates)
    BY DEF SupervisorTypeOK, Fates
  <1>2. Len(children) \in Nat /\ DOMAIN children = 1..Len(children)
        /\ \A c \in 1..Len(children) : children[c] \in Fates
    BY <1>1, LenProperties, ElementOfSeq
  <1>3. \A c \in DOMAIN children : Ended(object, how)[c] \in Fates /\ Ended(object, how)[c] # "alive"
    BY <1>2 DEF Ended, OneChild, Living
  <1>4. Ended(object, how) \in [1..Len(children) -> Fates]
    BY <1>2, <1>3 DEF Ended
  <1>5. Ended(object, how) \in Seq(Fates) /\ Len(Ended(object, how)) = Len(children)
    BY <1>2, <1>4
  <1> QED BY <1>2, <1>3, <1>5 DEF Ended

LEMMA CurrentFields ==
  ASSUME SupervisorInv, PassRuns
  PROVE  /\ Current \in RuntimeObject
         /\ Counted(Current)
         /\ Abreast(Current, tries, deaths)
         /\ ChildrenLeft \in Seq(Fates)
         /\ Len(ChildrenLeft) = Len(children)
         /\ \A c \in DOMAIN ChildrenLeft : ChildrenLeft[c] = "alive" =>
                Kept /\ Living(object.child) /\ Current.child = c
  <1>1. pass # NoObject /\ pass \in PassRecord /\ pass.copy \in AgentRecord
    BY DEF PassRuns, SupervisorInv, SupervisorTypeOK, PassRecord
  <1>2. children \in Seq(Fates)
    BY DEF SupervisorInv, SupervisorTypeOK, Fates
  <1>3. CASE Kept
    <2>1. object # NoObject /\ object \in RuntimeObject
      BY <1>3 DEF Kept, SupervisorInv, SupervisorTypeOK
    <2>2. Current = object /\ ChildrenLeft = children
      BY <1>3 DEF Current, ChildrenLeft
    <2>3. \A c \in DOMAIN children : children[c] = "alive" => Living(object.child) /\ object.child = c
      BY DEF SupervisorInv, OneChild, Living
    <2> QED BY <1>2, <1>3, <2>1, <2>2, <2>3 DEF SupervisorInv, CountsAbreast
  <1>4. CASE ~Kept
    <2>1. ChildrenLeft = Ended(object, "killed")
      BY <1>4 DEF ChildrenLeft
    <2>2. "killed" \in Fates \ {"alive"}
      BY DEF Fates
    <2>3. /\ ChildrenLeft \in Seq(Fates)
          /\ Len(ChildrenLeft) = Len(children)
          /\ \A c \in DOMAIN ChildrenLeft : ChildrenLeft[c] # "alive"
      BY <2>1, <2>2, EndedFates DEF SupervisorInv
    <2>4. /\ Current \in RuntimeObject
          /\ Current.count = pass.copy.count
          /\ Current.sig = pass.copy.sig
          /\ Current.disabled = pass.copy.disabled
      BY <1>1, <1>4 DEF Current, RuntimeObject, AgentRecord, Shown
    <2>5. Counted(pass.copy) /\ Abreast(pass.copy, tries, deaths)
      BY <1>1 DEF SupervisorInv, CountsAbreast
    <2>6. Counted(Current) /\ Abreast(Current, tries, deaths)
      BY <2>4, <2>5 DEF Counted, Abreast
    <2> QED BY <2>3, <2>4, <2>6
  <1> QED BY <1>3, <1>4

-----------------------------------------------------------------------------
(* The invariant                                                           *)

LEMMA SupervisorStart == SupervisorInit => SupervisorInv
  <1> SUFFICES ASSUME SupervisorInit PROVE SupervisorInv
    OBVIOUS
  <1>1. /\ agent \in AgentRecord /\ agent.count = 0
        /\ pass = NoObject /\ object = NoObject /\ children = <<>>
        /\ broken \in Errors \cup {NoError} /\ cooling = FALSE /\ up = TRUE
        /\ commands = 0 /\ exits = 0 /\ deaths = 0
        /\ tries = NoTries
    BY DEF SupervisorInit, AgentRecord, Shown
  <1>2. tries \in Tries /\ tries.number = 0
    BY <1>1 DEF NoTries, Tries
  <1>3. SupervisorTypeOK
    <2>1. <<>> \in Seq(Fates)
      BY EmptySeq
    <2> QED BY <1>1, <1>2, <2>1 DEF SupervisorTypeOK, Tries, Fates
  <1>4. OneChild
    BY <1>1 DEF OneChild
  <1>5. CountsAbreast
    BY <1>1, <1>2, ErrorAssumption DEF CountsAbreast, Counted, Abreast, AgentRecord
  <1>6. GivesUp
    BY <1>1, <1>2, ErrorAssumption DEF GivesUp
  <1> QED BY <1>3, <1>4, <1>5, <1>6 DEF SupervisorInv

(* What every pass has to leave behind.                                    *)
LEMMA ReconciledSound ==
  ASSUME SupervisorInv, pass # NoObject,
         NEW copy \in AgentRecord, NEW o \in RuntimeObject \cup {NoObject}, NEW chs \in Seq(Fates),
         ReconciledTo(copy, o, chs),
         UNCHANGED <<agent, broken, up, commands, exits, deaths>>,
         cooling' \in BOOLEAN, tries' \in Tries,
         \A c \in DOMAIN chs : chs[c] = "alive" => o # NoObject /\ o.child = c,
         Counted(copy), Abreast(copy, tries', deaths),
         o # NoObject => Counted(o) /\ Abreast(o, tries', deaths),
         Abreast(agent, tries', deaths + 1),
         tries'.number <= MaxErrors + deaths
  PROVE  SupervisorInv'
  <1>1. pass \in PassRecord
    BY DEF SupervisorInv, SupervisorTypeOK, PassRecord
  <1>2. /\ pass' \in PassRecord /\ pass'.copy = copy /\ pass'.done
        /\ object' = o /\ children' = chs
    BY <1>1 DEF ReconciledTo, PassRecord
  <1>3. pass' # NoObject
    BY <1>2, NoObjectAssumption DEF PassRecord
  <1>4. SupervisorTypeOK'
    BY <1>2 DEF SupervisorInv, SupervisorTypeOK, PassRecord, Fates, Tries
  <1>5. OneChild'
    BY <1>2 DEF OneChild, Living
  <1>6. CountsAbreast'
    <2>1. Abreast(agent, tries, deaths + (IF pass # NoObject /\ pass.done THEN 1 ELSE 0))'
      BY <1>2, <1>3
    <2>2. Counted(agent)'
      BY DEF SupervisorInv, CountsAbreast
    <2> QED BY <1>2, <2>1, <2>2 DEF CountsAbreast
  <1>7. GivesUp'
    BY DEF GivesUp
  <1> QED BY <1>4, <1>5, <1>6, <1>7 DEF SupervisorInv

(* The object and children go, the row stays as it is.                     *)
LEMMA ObjectGoes ==
  ASSUME SupervisorInv, pass # NoObject, ~pass.done,
         NEW copy \in AgentRecord, copy.count = pass.copy.count, copy.sig = pass.copy.sig,
         copy.disabled = pass.copy.disabled,
         ReconciledTo(copy, NoObject, Ended(object, "killed")),
         UNCHANGED <<agent, broken, cooling, up, commands, exits, deaths, tries>>
  PROVE  SupervisorInv'
  <1>1. "killed" \in Fates \ {"alive"}
    BY DEF Fates
  <1>2. /\ Ended(object, "killed") \in Seq(Fates)
        /\ \A c \in DOMAIN Ended(object, "killed") : Ended(object, "killed")[c] # "alive"
    BY <1>1, EndedFates DEF SupervisorInv
  <1>3. Counted(copy) /\ Abreast(copy, tries', deaths)
    BY DEF SupervisorInv, CountsAbreast, Counted, Abreast
  <1>4. agent \in AgentRecord /\ deaths \in Nat /\ tries \in Tries /\ cooling \in BOOLEAN
    BY DEF SupervisorInv, SupervisorTypeOK, Tries
  <1>5. Abreast(agent, tries, deaths)
    BY <1>4 DEF SupervisorInv, CountsAbreast
  <1>6. Abreast(agent, tries', deaths + 1)
    BY <1>4, <1>5 DEF Abreast, AgentRecord, Tries
  <1>7. tries'.number <= MaxErrors + deaths
    BY DEF SupervisorInv, GivesUp
  <1> QED BY <1>2, <1>3, <1>4, <1>6, <1>7, ReconciledSound

LEMMA AbreastNothing ==
  ASSUME NEW x, x.count \in Nat, NEW d \in Nat
  PROVE  Abreast(x, NoTries, d) /\ NoTries \in Tries /\ NoTries.number = 0
  BY DEF Abreast, NoTries, Tries

LEMMA LeavesSound == SupervisorInv /\ PassLeaves => SupervisorInv'
  <1> SUFFICES ASSUME SupervisorInv, PassLeaves PROVE SupervisorInv'
    OBVIOUS
  <1>1. PassRuns /\ pass # NoObject /\ ~pass.done
    BY DEF PassLeaves, PassRuns
  <1>2. /\ pass.copy \in AgentRecord /\ agent \in AgentRecord
        /\ deaths \in Nat /\ tries \in Tries /\ cooling \in BOOLEAN
    BY <1>1 DEF SupervisorInv, SupervisorTypeOK, Tries
  <1> DEFINE copy == WithSnapshot(pass.copy, Current)
  <1>3. copy \in AgentRecord /\ copy.count = Current.count /\ copy.sig = Current.sig
        /\ copy.disabled = Current.disabled
    BY <1>1, <1>2, CurrentFields, SnapshotFields
  <1>4. /\ ReconciledTo(copy, Current, ChildrenLeft)
        /\ UNCHANGED <<agent, broken, cooling, up, commands, exits, deaths, tries>>
    BY DEF PassLeaves
  <1> HIDE DEF copy
  <1>5. Counted(copy) /\ Abreast(copy, tries, deaths)
    BY <1>1, <1>3, CurrentFields DEF Counted, Abreast
  <1>6. Abreast(agent, tries, deaths + 1)
    <2>1. Abreast(agent, tries, deaths)
      BY <1>1, <1>2 DEF SupervisorInv, CountsAbreast
    <2> QED BY <1>2, <2>1 DEF Abreast, AgentRecord, Tries
  <1>7. tries.number <= MaxErrors + deaths
    BY DEF SupervisorInv, GivesUp
  <1>8. Current # NoObject
    BY <1>1, CurrentFields, NoObjectAssumption
  <1> QED BY <1>1, <1>2, <1>3, <1>4, <1>5, <1>6, <1>7, <1>8, CurrentFields, ReconciledSound

LEMMA FailsSound == SupervisorInv /\ PassFails => SupervisorInv'
  <1> SUFFICES ASSUME SupervisorInv, PassFails PROVE SupervisorInv'
    OBVIOUS
  <1> DEFINE o == Recorded(Current, broken)
             row == [pass.copy EXCEPT !.failed = TRUE]
             copy == WithSnapshot(row, o)
             t == [error |-> broken, number |-> IF tries.error = broken THEN tries.number + 1 ELSE 1]
  <1>1. PassRuns /\ pass # NoObject /\ ~pass.done /\ ~pass.copy.disabled
    BY DEF PassFails, PassRuns
  <1>2. /\ pass.copy \in AgentRecord /\ agent \in AgentRecord /\ broken \in Errors
        /\ deaths \in Nat /\ tries \in Tries
    BY <1>1 DEF PassFails, SupervisorInv, SupervisorTypeOK, Tries
  <1>3. /\ ReconciledTo(copy, o, ChildrenLeft) /\ cooling' = TRUE /\ tries' = t
        /\ UNCHANGED <<agent, broken, up, commands, exits, deaths>>
        /\ ~StartReturns
    BY DEF PassFails
  <1>4. /\ o \in RuntimeObject /\ o.child = Current.child /\ o.sig = broken /\ Counted(o)
        /\ o.count = IF Current.sig = broken THEN Current.count + 1 ELSE 1
    BY <1>1, <1>2, CurrentFields, RecordedFields
  <1> HIDE DEF o
  <1>5. row \in AgentRecord
    BY <1>2 DEF AgentRecord
  <1> HIDE DEF row
  <1>6. copy \in AgentRecord /\ copy.count = o.count /\ copy.sig = o.sig /\ copy.disabled = o.disabled
    BY <1>4, <1>5, SnapshotFields
  <1> HIDE DEF copy
  <1>7. /\ t \in Tries /\ t.error = broken
        /\ t.number = IF tries.error = broken THEN tries.number + 1 ELSE 1
    BY <1>2 DEF Tries
  <1> HIDE DEF t
  <1>8. Abreast(o, t, deaths)
    <2>1. Abreast(Current, tries, deaths) /\ Current \in RuntimeObject
      BY <1>1, CurrentFields
    <2>2. Current.count \in Nat /\ tries.number \in Nat
      BY <1>2, <2>1 DEF RuntimeObject, Tries
    <2> QED BY <1>2, <1>4, <1>7, <2>1, <2>2 DEF Abreast
  <1>9. Counted(copy) /\ Abreast(copy, t, deaths)
    BY <1>4, <1>6, <1>8 DEF Counted, Abreast
  <1>10. Abreast(agent, t, deaths + 1)
    <2>1. Abreast(agent, tries, deaths)
      BY <1>1, <1>2 DEF SupervisorInv, CountsAbreast
    <2>2. agent.count \in Nat /\ tries.number \in Nat
      BY <1>2 DEF AgentRecord, Tries
    <2> QED BY <1>2, <1>7, <2>1, <2>2 DEF Abreast
  <1>11. t.number <= MaxErrors + deaths
    <2>1. Counted(pass.copy) /\ Abreast(pass.copy, tries, deaths)
      BY <1>1 DEF SupervisorInv, CountsAbreast
    <2>2. pass.copy.count \in Nat /\ tries.number \in Nat /\ MaxErrors \in Nat \ {0}
      BY <1>2, ErrorAssumption DEF AgentRecord, Tries
    <2>3. pass.copy.count < MaxErrors
      BY <1>1, <2>1, <2>2 DEF Counted
    <2> QED BY <1>2, <1>7, <2>1, <2>2, <2>3 DEF Abreast
  <1>12. \A c \in DOMAIN ChildrenLeft : ChildrenLeft[c] # "alive"
    BY <1>1, <1>3, CurrentFields DEF StartReturns
  <1> QED BY <1>1, <1>3, <1>4, <1>6, <1>7, <1>8, <1>9, <1>10, <1>11, <1>12, CurrentFields, ReconciledSound

LEMMA SpawnsSound == SupervisorInv /\ PassSpawns => SupervisorInv'
  <1> SUFFICES ASSUME SupervisorInv, PassSpawns PROVE SupervisorInv'
    OBVIOUS
  <1> DEFINE n == Len(children) + 1
             o == Spawned(Current, n)
             row == [pass.copy EXCEPT !.failed = FALSE]
             copy == WithSnapshot(row, o)
             chs == Append(ChildrenLeft, "alive")
  <1>1. PassRuns /\ pass # NoObject /\ ~pass.done
    BY DEF PassSpawns, PassRuns
  <1>2. /\ pass.copy \in AgentRecord /\ agent \in AgentRecord /\ children \in Seq(Fates)
        /\ deaths \in Nat /\ cooling \in BOOLEAN
    BY <1>1 DEF SupervisorInv, SupervisorTypeOK, Fates
  <1>3. /\ ReconciledTo(copy, o, chs) /\ tries' = NoTries
        /\ UNCHANGED <<agent, broken, cooling, up, commands, exits, deaths>>
        /\ ~StartReturns
    BY DEF PassSpawns
  <1>4. n \in Nat
    BY <1>2, LenProperties
  <1>5. /\ chs \in Seq(Fates) /\ DOMAIN chs = 1..n
        /\ \A c \in 1..n : chs[c] = "alive" => c = n
    <2>1. /\ ChildrenLeft \in Seq(Fates) /\ Len(ChildrenLeft) + 1 = n
          /\ \A c \in DOMAIN ChildrenLeft : ChildrenLeft[c] # "alive"
      BY <1>1, <1>3, CurrentFields DEF StartReturns
    <2>2. "alive" \in Fates
      BY DEF Fates
    <2> HIDE DEF n
    <2>3. DOMAIN ChildrenLeft = 1..Len(ChildrenLeft) /\ Len(ChildrenLeft) \in Nat
      BY <2>1, LenProperties
    <2>4. chs \in Seq(Fates) /\ Len(chs) = n /\ \A c \in 1..Len(ChildrenLeft) : chs[c] = ChildrenLeft[c]
      BY <2>1, <2>2, <2>3
    <2> QED BY <2>1, <2>3, <2>4, LenProperties
  <1> HIDE DEF n, chs
  <1>6. o \in RuntimeObject /\ o.child = n /\ o.count = 0
    BY <1>1, <1>4, CurrentFields, SpawnedFields
  <1> HIDE DEF o
  <1>7. row \in AgentRecord
    BY <1>2 DEF AgentRecord
  <1> HIDE DEF row
  <1>8. copy \in AgentRecord /\ copy.count = 0
    BY <1>6, <1>7, SnapshotFields
  <1> HIDE DEF copy
  <1>9. Counted(o) /\ Counted(copy)
    BY <1>6, <1>8, ErrorAssumption DEF Counted
  <1>10. /\ Abreast(o, NoTries, deaths) /\ Abreast(copy, NoTries, deaths)
         /\ Abreast(agent, NoTries, deaths + 1) /\ NoTries \in Tries /\ NoTries.number = 0
    BY <1>2, <1>6, <1>8, AbreastNothing DEF AgentRecord
  <1>11. NoTries.number <= MaxErrors + deaths
    BY <1>2, <1>10, ErrorAssumption
  <1> QED BY <1>1, <1>2, <1>3, <1>5, <1>6, <1>8, <1>9, <1>10, <1>11, NoObjectAssumption, ReconciledSound

(* The same for a step that takes the row to another and leaves the pass.  *)
LEMMA RowSound ==
  ASSUME SupervisorInv, agent' \in AgentRecord, Counted(agent'),
         \/ tries' = tries /\ agent'.count = agent.count /\ agent'.sig = agent.sig
         \/ tries' = NoTries,
         commands' \in Nat,
         UNCHANGED <<pass, object, children, broken, cooling, up, exits, deaths>>
  PROVE  SupervisorInv'
  <1>1. tries \in Tries /\ deaths \in Nat /\ agent \in AgentRecord
    BY DEF SupervisorInv, SupervisorTypeOK, Tries
  <1> DEFINE slack == IF pass # NoObject /\ pass.done THEN 1 ELSE 0
  <1>2. deaths + slack \in Nat
    BY <1>1
  <1>3. CASE tries' = tries /\ agent'.count = agent.count /\ agent'.sig = agent.sig
    <2>1. SupervisorTypeOK'
      BY <1>1, <1>3 DEF SupervisorInv, SupervisorTypeOK
    <2>2. OneChild' /\ GivesUp'
      BY <1>3 DEF SupervisorInv, OneChild, Living, GivesUp
    <2>3. CountsAbreast'
      BY <1>3 DEF SupervisorInv, CountsAbreast, Abreast
    <2> QED BY <2>1, <2>2, <2>3 DEF SupervisorInv
  <1>4. CASE tries' = NoTries
    <2>1. NoTries \in Tries /\ NoTries.number = 0
      BY DEF NoTries, Tries
    <2>2. SupervisorTypeOK'
      BY <1>4, <2>1 DEF SupervisorInv, SupervisorTypeOK, Tries
    <2>3. OneChild'
      BY DEF SupervisorInv, OneChild, Living
    <2>4. GivesUp'
      BY <1>1, <1>4, <2>1, ErrorAssumption DEF GivesUp
    <2>5. Abreast(agent', NoTries, deaths + slack)
      <3> HIDE DEF slack
      <3> QED BY <1>2, AbreastNothing DEF AgentRecord
    <2>6. pass # NoObject => Counted(pass.copy) /\ Abreast(pass.copy, NoTries, deaths)
      <3> SUFFICES ASSUME pass # NoObject PROVE Counted(pass.copy) /\ Abreast(pass.copy, NoTries, deaths)
        OBVIOUS
      <3>1. pass.copy.count \in Nat
        BY DEF SupervisorInv, SupervisorTypeOK, AgentRecord
      <3> QED BY <1>1, <3>1, AbreastNothing DEF SupervisorInv, CountsAbreast
    <2>7. object # NoObject => Counted(object) /\ Abreast(object, NoTries, deaths)
      <3> SUFFICES ASSUME object # NoObject PROVE Counted(object) /\ Abreast(object, NoTries, deaths)
        OBVIOUS
      <3>1. object.count \in Nat
        BY DEF SupervisorInv, SupervisorTypeOK, RuntimeObject
      <3> QED BY <1>1, <3>1, AbreastNothing DEF SupervisorInv, CountsAbreast
    <2>8. CountsAbreast'
      BY <1>4, <2>5, <2>6, <2>7 DEF CountsAbreast
    <2> QED BY <2>2, <2>3, <2>4, <2>8 DEF SupervisorInv
  <1> QED BY <1>3, <1>4

LEMMA LoadsSound == SupervisorInv /\ PassLoads => SupervisorInv'
  <1> SUFFICES ASSUME SupervisorInv, PassLoads PROVE SupervisorInv'
    OBVIOUS
  <1>1. /\ pass = NoObject /\ agent \in AgentRecord /\ deaths \in Nat
        /\ pass' = [loaded |-> agent, copy |-> agent, done |-> FALSE]
        /\ UNCHANGED <<agent, object, children, broken, cooling, up, commands, exits, deaths, tries>>
    BY DEF PassLoads, SupervisorInv, SupervisorTypeOK
  <1>2. pass' \in PassRecord /\ pass'.copy = agent /\ ~pass'.done
    BY <1>1 DEF PassRecord
  <1>3. SupervisorTypeOK'
    BY <1>1, <1>2 DEF SupervisorInv, SupervisorTypeOK, PassRecord
  <1>4. OneChild' /\ GivesUp'
    BY <1>1 DEF SupervisorInv, OneChild, Living, GivesUp
  <1>5. Counted(agent) /\ Abreast(agent, tries, deaths)
    BY <1>1 DEF SupervisorInv, CountsAbreast
  <1>6. CountsAbreast'
    <2>1. Abreast(agent, tries, deaths + (IF pass # NoObject /\ pass.done THEN 1 ELSE 0))'
      BY <1>1, <1>2, <1>5
    <2> QED BY <1>1, <1>2, <1>5, <2>1 DEF SupervisorInv, CountsAbreast
  <1> QED BY <1>3, <1>4, <1>6 DEF SupervisorInv

LEMMA SavesSound == SupervisorInv /\ PassSaves => SupervisorInv'
  <1> SUFFICES ASSUME SupervisorInv, PassSaves PROVE SupervisorInv'
    OBVIOUS
  <1> DEFINE d == IF agent.desired # pass.loaded.desired THEN agent.desired ELSE pass.copy.desired
  <1>1. /\ pass # NoObject /\ pass' = NoObject /\ agent' = [pass.copy EXCEPT !.desired = d]
        /\ UNCHANGED <<object, children, broken, cooling, up, commands, exits, deaths, tries>>
    BY DEF PassSaves
  <1>2. pass \in PassRecord /\ agent \in AgentRecord /\ deaths \in Nat
    BY <1>1 DEF SupervisorInv, SupervisorTypeOK, PassRecord
  <1>3. pass.copy \in AgentRecord /\ d \in {"running", "stopped"}
    BY <1>2 DEF PassRecord, AgentRecord
  <1> HIDE DEF d
  <1>4. /\ agent' \in AgentRecord /\ agent'.count = pass.copy.count /\ agent'.sig = pass.copy.sig
        /\ agent'.disabled = pass.copy.disabled
    BY <1>1, <1>3 DEF AgentRecord
  <1>5. SupervisorTypeOK'
    BY <1>1, <1>4 DEF SupervisorInv, SupervisorTypeOK
  <1>6. OneChild' /\ GivesUp'
    BY <1>1 DEF SupervisorInv, OneChild, Living, GivesUp
  <1>7. Counted(agent') /\ Abreast(agent', tries, deaths)
    BY <1>1, <1>4 DEF SupervisorInv, CountsAbreast, Counted, Abreast
  <1>8. CountsAbreast'
    <2>1. Abreast(agent, tries, deaths + (IF pass # NoObject /\ pass.done THEN 1 ELSE 0))'
      BY <1>1, <1>2, <1>7
    <2> QED BY <1>1, <1>7, <2>1 DEF SupervisorInv, CountsAbreast
  <1> QED BY <1>5, <1>6, <1>8 DEF SupervisorInv

(* The object changes in what it shows only.                               *)
LEMMA MonitorSound == ASSUME NEW c \in DOMAIN children PROVE SupervisorInv /\ MonitorLooks(c) => SupervisorInv'
  <1> SUFFICES ASSUME SupervisorInv, MonitorLooks(c) PROVE SupervisorInv'
    OBVIOUS
  <1>1. /\ object # NoObject /\ object \in RuntimeObject
        /\ UNCHANGED <<agent, pass, children, broken, cooling, up, commands, exits, deaths, tries>>
    BY DEF MonitorLooks, SupervisorInv, SupervisorTypeOK
  <1>2. /\ object' \in RuntimeObject /\ object'.child = object.child /\ object'.count = object.count
        /\ object'.sig = object.sig /\ object'.disabled = object.disabled
    BY <1>1 DEF MonitorLooks, RuntimeObject, Shown
  <1>3. object' # NoObject
    BY <1>2, NoObjectAssumption
  <1>4. SupervisorTypeOK'
    BY <1>1, <1>2 DEF SupervisorInv, SupervisorTypeOK
  <1>5. OneChild' /\ GivesUp'
    BY <1>1, <1>2, <1>3 DEF SupervisorInv, OneChild, Living, GivesUp
  <1>6. CountsAbreast'
    BY <1>1, <1>2, <1>3 DEF SupervisorInv, CountsAbreast, Counted, Abreast
  <1> QED BY <1>4, <1>5, <1>6 DEF SupervisorInv

LEMMA ExitsSound == ASSUME NEW c \in DOMAIN children PROVE SupervisorInv /\ ChildExits(c) => SupervisorInv'
  <1> SUFFICES ASSUME SupervisorInv, ChildExits(c) PROVE SupervisorInv'
    OBVIOUS
  <1>1. PICK how \in {"exited", "crashed"} : children' = [children EXCEPT ![c] = how]
    BY DEF ChildExits
  <1>2. /\ children \in Seq(Fates) /\ exits \in Nat /\ exits' = exits + 1
        /\ UNCHANGED <<agent, pass, object, broken, cooling, up, commands, deaths, tries>>
    BY DEF ChildExits, SupervisorInv, SupervisorTypeOK, Fates
  <1>3. how \in Fates /\ how # "alive"
    BY DEF Fates
  <1>4. /\ children' \in Seq(Fates) /\ DOMAIN children' = DOMAIN children
        /\ \A d \in DOMAIN children : children'[d] = IF d = c THEN how ELSE children[d]
    <2>1. DOMAIN children = 1..Len(children)
      BY <1>2, LenProperties
    <2> QED BY <1>1, <1>2, <1>3, <2>1, ExceptSeq
  <1>5. SupervisorTypeOK'
    BY <1>2, <1>4 DEF SupervisorInv, SupervisorTypeOK, Fates
  <1>6. OneChild'
    BY <1>2, <1>3, <1>4 DEF SupervisorInv, OneChild, Living
  <1>7. CountsAbreast' /\ GivesUp'
    BY <1>2 DEF SupervisorInv, CountsAbreast, GivesUp
  <1> QED BY <1>5, <1>6, <1>7 DEF SupervisorInv

LEMMA StopsSound == SupervisorInv /\ SupervisorStops => SupervisorInv'
  <1> SUFFICES ASSUME SupervisorInv, SupervisorStops PROVE SupervisorInv'
    OBVIOUS
  <1> DEFINE row == [agent EXCEPT !.shown = "stopped"]
             o == [object EXCEPT !.shown = "stopped", !.status = FALSE]
  <1>1. /\ pass = NoObject /\ agent' = IF object = NoObject THEN row ELSE WithSnapshot(row, o)
        /\ children' = Ended(object, "killed") /\ object' = NoObject /\ up' = FALSE
        /\ commands' = commands + 1
        /\ UNCHANGED <<pass, broken, cooling, exits, deaths, tries>>
    BY DEF SupervisorStops, Commanded
  <1>2. agent \in AgentRecord /\ commands \in Nat /\ deaths \in Nat
    BY DEF SupervisorInv, SupervisorTypeOK
  <1>3. row \in AgentRecord /\ row.count = agent.count /\ row.sig = agent.sig /\ row.disabled = agent.disabled
    BY <1>2 DEF AgentRecord, Shown
  <1> HIDE DEF row
  <1>4. Counted(agent) /\ Abreast(agent, tries, deaths)
    BY <1>1, <1>2 DEF SupervisorInv, CountsAbreast
  <1>5. agent' \in AgentRecord /\ Counted(agent') /\ Abreast(agent', tries, deaths)
    <2>1. CASE object = NoObject
      BY <1>1, <1>3, <1>4, <2>1 DEF Counted, Abreast
    <2>2. CASE object # NoObject
      <3>1. /\ o \in RuntimeObject /\ o.count = object.count /\ o.sig = object.sig /\ o.disabled = object.disabled
        BY <2>2 DEF SupervisorInv, SupervisorTypeOK, RuntimeObject, Shown
      <3> HIDE DEF o
      <3>2. Counted(object) /\ Abreast(object, tries, deaths)
        BY <2>2 DEF SupervisorInv, CountsAbreast
      <3> QED BY <1>1, <1>3, <2>2, <3>1, <3>2, SnapshotFields DEF Counted, Abreast
    <2> QED BY <2>1, <2>2
  <1>6. /\ children' \in Seq(Fates) /\ \A c \in DOMAIN children' : children'[c] # "alive"
    <2>1. "killed" \in Fates \ {"alive"}
      BY DEF Fates
    <2> QED BY <1>1, <2>1, EndedFates DEF SupervisorInv
  <1>7. SupervisorTypeOK'
    <2>1. /\ object' = NoObject /\ pass' = pass /\ up' = FALSE /\ commands' \in Nat
          /\ UNCHANGED <<broken, cooling, exits, deaths, tries>>
      BY <1>1, <1>2
    <2> QED BY <1>5, <1>6, <2>1 DEF SupervisorInv, SupervisorTypeOK, Fates
  <1>8. OneChild' /\ GivesUp'
    BY <1>1, <1>6 DEF SupervisorInv, OneChild, Living, GivesUp
  <1>9. CountsAbreast'
    <2>1. Abreast(agent, tries, deaths + (IF pass # NoObject /\ pass.done THEN 1 ELSE 0))'
      BY <1>1, <1>2, <1>5
    <2> QED BY <1>1, <1>5, <2>1 DEF CountsAbreast
  <1> QED BY <1>7, <1>8, <1>9 DEF SupervisorInv

LEMMA DiesSound == SupervisorInv /\ SupervisorDies => SupervisorInv'
  <1> SUFFICES ASSUME SupervisorInv, SupervisorDies PROVE SupervisorInv'
    OBVIOUS
  <1>1. /\ children' = [c \in DOMAIN children |-> IF Living(c) THEN "orphan" ELSE children[c]]
        /\ object' = NoObject /\ pass' = NoObject /\ cooling' \in {FALSE, cooling} /\ up' = FALSE
        /\ deaths' = deaths + 1
        /\ UNCHANGED <<agent, broken, commands, exits, tries>>
    BY DEF SupervisorDies
  <1>2. /\ agent \in AgentRecord /\ children \in Seq(Fates) /\ deaths \in Nat /\ tries \in Tries
    BY DEF SupervisorInv, SupervisorTypeOK, Fates, Tries
  <1>3. /\ Len(children) \in Nat /\ DOMAIN children = 1..Len(children)
        /\ \A c \in 1..Len(children) : children[c] \in Fates
    BY <1>2, LenProperties, ElementOfSeq
  <1>4. \A c \in DOMAIN children : children'[c] \in Fates \ {"alive"}
    BY <1>1, <1>3 DEF Living, Fates
  <1>5. children' \in Seq(Fates) /\ DOMAIN children' = DOMAIN children
    BY <1>1, <1>3, <1>4
  <1>6. SupervisorTypeOK'
    <2>1. cooling' \in BOOLEAN
      <3>1. cooling \in BOOLEAN /\ cooling' \in {FALSE, cooling}
        BY <1>1 DEF SupervisorInv, SupervisorTypeOK
      <3> QED BY <3>1, Zenon
    <2>2. /\ object' = NoObject /\ pass' = NoObject /\ up' = FALSE /\ deaths' \in Nat
          /\ UNCHANGED <<agent, broken, commands, exits, tries>>
      BY <1>1, <1>2
    <2> QED BY <1>5, <2>1, <2>2 DEF SupervisorInv, SupervisorTypeOK, Fates
  <1>7. OneChild'
    BY <1>4, <1>5 DEF OneChild, Living
  <1>8. GivesUp'
    BY <1>1, <1>2, ErrorAssumption DEF SupervisorInv, GivesUp, Tries
  <1>9. Abreast(agent, tries, deaths + 1)
    <2> DEFINE slack == IF pass # NoObject /\ pass.done THEN 1 ELSE 0
    <2>1. slack \in {0, 1} /\ Abreast(agent, tries, deaths + slack)
      BY DEF SupervisorInv, CountsAbreast
    <2>2. agent.count \in Nat /\ tries.number \in Nat
      BY <1>2 DEF AgentRecord, Tries
    <2> HIDE DEF slack
    <2> QED BY <1>2, <2>1, <2>2 DEF Abreast
  <1>10. CountsAbreast'
    <2>1. Abreast(agent, tries, deaths + (IF pass # NoObject /\ pass.done THEN 1 ELSE 0))'
      BY <1>1, <1>2, <1>9
    <2> QED BY <1>1, <2>1 DEF SupervisorInv, CountsAbreast
  <1> QED BY <1>6, <1>7, <1>8, <1>10 DEF SupervisorInv

LEMMA CommandsSound ==
  SupervisorInv /\ (OperatorStarts \/ OperatorRestarts \/ OperatorStops) => SupervisorInv'
  <1> SUFFICES ASSUME SupervisorInv, OperatorStarts \/ OperatorRestarts \/ OperatorStops
               PROVE  SupervisorInv'
    OBVIOUS
  <1>1. agent \in AgentRecord /\ commands \in Nat /\ Counted(agent)
    BY DEF SupervisorInv, SupervisorTypeOK, CountsAbreast
  <1>2. commands' = commands + 1 /\ commands' \in Nat
    BY <1>1 DEF OperatorStarts, OperatorRestarts, OperatorStops, Commanded
  <1>3. UNCHANGED <<pass, object, children, broken, cooling, up, exits, deaths>>
    BY DEF OperatorStarts, OperatorRestarts, OperatorStops
  <1>4. Cleared(agent) \in AgentRecord /\ Cleared(agent).count = 0
    BY <1>1, ClearedFields
  <1>5. CASE OperatorStarts
    <2>1. agent' \in AgentRecord /\ Counted(agent') /\ tries' = NoTries
      BY <1>4, <1>5, ErrorAssumption DEF OperatorStarts, Counted
    <2> QED BY <1>2, <1>3, <2>1, RowSound
  <1>6. CASE OperatorRestarts
    <2>1. agent' = [Cleared(agent) EXCEPT !.request = commands'] /\ tries' = NoTries
      BY <1>6 DEF OperatorRestarts
    <2>2. agent' \in AgentRecord /\ agent'.count = 0
      BY <1>2, <1>4, <2>1 DEF AgentRecord
    <2>3. Counted(agent')
      BY <2>2, ErrorAssumption DEF Counted
    <2> QED BY <1>2, <1>3, <2>1, <2>2, <2>3, RowSound
  <1>7. CASE OperatorStops
    <2>1. agent' = [agent EXCEPT !.desired = "stopped"] /\ tries' = tries
      BY <1>7 DEF OperatorStops
    <2>2. /\ agent' \in AgentRecord /\ agent'.count = agent.count /\ agent'.sig = agent.sig
          /\ agent'.disabled = agent.disabled
      BY <1>1, <2>1 DEF AgentRecord
    <2>3. Counted(agent')
      BY <1>1, <2>2 DEF Counted
    <2> QED BY <1>2, <1>3, <2>1, <2>2, <2>3, RowSound
  <1> QED BY <1>5, <1>6, <1>7

LEMMA SupervisorStep == SupervisorInv /\ [SupervisorNext]_supervisor => SupervisorInv'
  <1> SUFFICES ASSUME SupervisorInv, [SupervisorNext]_supervisor PROVE SupervisorInv'
    OBVIOUS
  <1>1. CASE UNCHANGED supervisor
    BY <1>1 DEF supervisor, SupervisorInv, SupervisorTypeOK, OneChild, Living, CountsAbreast,
                Counted, Abreast, GivesUp
  <1>2. CASE PassSkips
    <2>1. pass.copy \in AgentRecord
      BY <1>2 DEF PassSkips, SupervisorInv, SupervisorTypeOK
    <2> QED BY <1>2, <2>1, ObjectGoes DEF PassSkips
  <1>3. CASE PassStops
    <2> DEFINE copy == [pass.copy EXCEPT !.shown = "stopped", !.status = FALSE]
    <2>1. pass.copy \in AgentRecord
      BY <1>3 DEF PassStops, SupervisorInv, SupervisorTypeOK
    <2>2. /\ copy \in AgentRecord /\ copy.count = pass.copy.count /\ copy.sig = pass.copy.sig
          /\ copy.disabled = pass.copy.disabled
      BY <2>1 DEF AgentRecord, Shown
    <2>3. /\ pass # NoObject /\ ~pass.done /\ ReconciledTo(copy, NoObject, Ended(object, "killed"))
          /\ UNCHANGED <<agent, broken, cooling, up, commands, exits, deaths, tries>>
      BY <1>3 DEF PassStops
    <2> HIDE DEF copy
    <2> QED BY <2>2, <2>3, ObjectGoes
  <1>4. CASE PassLoads \/ PassLeaves \/ PassFails \/ PassSpawns \/ PassSaves
    BY <1>4, LoadsSound, LeavesSound, FailsSound, SpawnsSound, SavesSound
  <1>5. CASE \E c \in DOMAIN children : MonitorLooks(c) \/ ChildExits(c)
    BY <1>5, MonitorSound, ExitsSound
  <1>6. CASE SetupChanges
    <2>1. /\ broken' \in Errors \cup {NoError}
          /\ UNCHANGED <<agent, pass, object, children, cooling, up, commands, exits, deaths, tries>>
      BY <1>6 DEF SetupChanges
    <2>2. SupervisorTypeOK'
      BY <2>1 DEF SupervisorInv, SupervisorTypeOK
    <2> QED BY <2>1, <2>2 DEF SupervisorInv, OneChild, Living, CountsAbreast, Counted, Abreast, GivesUp
  <1>7. CASE BackoffElapses
    <2>1. /\ cooling' = FALSE
          /\ UNCHANGED <<agent, pass, object, children, broken, up, commands, exits, deaths, tries>>
      BY <1>7 DEF BackoffElapses
    <2>2. SupervisorTypeOK'
      BY <2>1 DEF SupervisorInv, SupervisorTypeOK
    <2> QED BY <2>1, <2>2 DEF SupervisorInv, OneChild, Living, CountsAbreast, Counted, Abreast, GivesUp
  <1>8. CASE SupervisorStarts
    <2>1. /\ up' = TRUE
          /\ UNCHANGED <<agent, pass, object, children, broken, cooling, commands, exits, deaths, tries>>
      BY <1>8 DEF SupervisorStarts
    <2>2. SupervisorTypeOK'
      BY <2>1 DEF SupervisorInv, SupervisorTypeOK
    <2> QED BY <2>1, <2>2 DEF SupervisorInv, OneChild, Living, CountsAbreast, Counted, Abreast, GivesUp
  <1>9. CASE OperatorStarts \/ OperatorRestarts \/ OperatorStops
    BY <1>9, CommandsSound
  <1>10. CASE SupervisorStops \/ SupervisorDies
    BY <1>10, StopsSound, DiesSound
  <1> QED BY <1>1, <1>2, <1>3, <1>4, <1>5, <1>6, <1>7, <1>8, <1>9, <1>10 DEF SupervisorNext

-----------------------------------------------------------------------------

(* The row, the daemon's copy and object and the children are well-formed. *)
THEOREM SupervisorTypeCorrect == SupervisorSpec => []SupervisorTypeOK
  <1>1. SupervisorInv => SupervisorTypeOK
    BY DEF SupervisorInv
  <1> QED BY <1>1, SupervisorStart, SupervisorStep, PTL DEF SupervisorSpec

(* However starts, restarts, stops, exits and deaths interleave, the       *)
(* daemon has at most one living child for an agent, the one it can stop.  *)
THEOREM OneChildAtATime == SupervisorSpec => []OneChild
  <1>1. SupervisorInv => OneChild
    BY DEF SupervisorInv
  <1> QED BY <1>1, SupervisorStart, SupervisorStep, PTL DEF SupervisorSpec

(* A setup that fails in one way is tried no more than MaxErrors times,    *)
(* and once for each daemon killed before it saved a try.                  *)
THEOREM TriesAreBounded == SupervisorSpec => []GivesUp
  <1>1. SupervisorInv => GivesUp
    BY DEF SupervisorInv
  <1> QED BY <1>1, SupervisorStart, SupervisorStep, PTL DEF SupervisorSpec

-----------------------------------------------------------------------------
(* Heartbeats                                                              *)

(* What a process may write, and what it is still to make of it.           *)
JobSound(job, has) ==
    /\ Reached(job.copy, has)
    /\ job.at = "load" => job.beat \in has
    /\ job.at = "post" /\ job.does = "push" =>
         \E i \in DOMAIN job.copy :
            job.copy[i].beat = job.beat /\ \A j \in Unpushed(job.copy) : j <= i

(* The store, the temporary file and every copy that may still be saved.   *)
CopiesReached ==
    /\ Reached(history, arrived)
    /\ temporary # Unwritten => Reached(temporary, arrived)
    /\ \A b \in Beaters : JobSound(beaters[b], arrived)

HeartbeatsInv == HeartbeatsTypeOK /\ CopiesReached

Job == [at : {"rest", "post", "load", "load unpushed", "write", "rename"},
        does : {"send", "watch", "push"}, copy : History, beat : Nat]

-----------------------------------------------------------------------------
(* Histories                                                               *)

LEMMA HistoryRange ==
  ASSUME NEW h \in History
  PROVE  /\ Len(h) \in Nat
         /\ DOMAIN h = 1..Len(h)
         /\ \A i \in 1..Len(h) : h[i] \in Beat
  BY ElementOfSeq, LenProperties DEF History

LEMMA EmptyHistory == <<>> \in History
  BY DEF History

LEMMA EmptyReached == ASSUME NEW has PROVE Reached(<<>>, has)
  BY DEF Reached

LEMMA ReachedGrows ==
  ASSUME NEW h \in History, NEW has, NEW has2, has \subseteq has2, Reached(h, has)
  PROVE  Reached(h, has2)
  BY DEF Reached

LEMMA LatestReached ==
  ASSUME NEW h \in History, NEW n \in Nat \ {0}, NEW has, Reached(h, has)
  PROVE  Latest(h, n) \in History /\ Reached(Latest(h, n), has)
  <1>1. CASE ~(Len(h) > n)
    BY <1>1 DEF Latest
  <1>2. CASE Len(h) > n
    <2> DEFINE k == Len(h) - n
               s == SubSeq(h, k + 1, Len(h))
    <2>1. Len(h) \in Nat /\ DOMAIN h = 1..Len(h) /\ \A i \in 1..Len(h) : h[i] \in Beat
      BY HistoryRange
    <2>2. k \in Nat /\ k + n = Len(h) /\ n \in Nat /\ n >= 1
      BY <1>2, <2>1
    <2>3. \A i \in k+1 .. Len(h) : h[i] \in Beat
      BY <2>1, <2>2
    <2>4. /\ s \in Seq(Beat)
          /\ Len(s) = n
          /\ \A i \in 1..n : s[i] = h[k + i]
      <3> HIDE DEF k
      <3>1. k + 1 \in Int /\ Len(h) \in Int
        BY <2>1, <2>2
      <3>2. /\ s \in Seq(Beat)
            /\ Len(s) = (IF k+1 <= Len(h) THEN Len(h) - (k+1) + 1 ELSE 0)
            /\ \A i \in 1 .. Len(h) - (k+1) + 1 : s[i] = h[k+1+i-1]
        BY <2>3, <3>1, SubSeqProperties
      <3>3. Len(h) - (k+1) + 1 = n /\ k + 1 <= Len(h)
        <4> HIDE DEF s
        <4>1. \A l, m, o \in Nat : m + o = l /\ o >= 1 => l - (m+1) + 1 = o /\ m + 1 <= l
          OBVIOUS
        <4> QED BY <2>1, <2>2, <4>1
      <3>4. \A i \in 1..n : k+1+i-1 = k + i
        BY <2>2
      <3> HIDE DEF s
      <3> QED BY <3>2, <3>3, <3>4
    <2>5. Latest(h, n) = s
      BY <1>2 DEF Latest
    <2>6. Reached(s, has)
      <3> HIDE DEF k, s
      <3>1. DOMAIN s = 1..n
        BY <2>4, LenProperties
      <3> SUFFICES ASSUME NEW i \in 1..n, s[i].pushed
                   PROVE  \E j \in i..n : s[j].beat \in has
        BY <2>4, <3>1 DEF Reached
      <3>2. k + i \in 1..Len(h) /\ h[k + i].pushed
        BY <2>2, <2>4
      <3>3. PICK j \in (k + i)..Len(h) : h[j].beat \in has
        BY <2>1, <3>2 DEF Reached
      <3>4. j - k \in i..n /\ k + (j - k) = j
        BY <2>2, <2>1, <3>3
      <3>5. j - k \in 1..n
        BY <3>4
      <3>6. s[j - k] = h[j]
        BY <2>4, <3>4, <3>5
      <3> QED BY <3>3, <3>4, <3>6
    <2> QED BY <2>4, <2>5, <2>6 DEF History
  <1> QED BY <1>1, <1>2

LEMMA WithBeatReached ==
  ASSUME NEW h \in History, NEW beat \in Nat, NEW pushed \in BOOLEAN, NEW has,
         Reached(h, has), pushed => beat \in has
  PROVE  WithBeat(h, beat, pushed) \in History /\ Reached(WithBeat(h, beat, pushed), has)
  <1> DEFINE r == [beat |-> beat, pushed |-> pushed]
             a == Append(h, r)
  <1>1. Len(h) \in Nat /\ DOMAIN h = 1..Len(h)
    BY HistoryRange
  <1>2. r \in Beat
    BY DEF Beat
  <1>3. /\ a \in Seq(Beat)
        /\ Len(a) = Len(h) + 1
        /\ \A i \in 1..Len(h) : a[i] = h[i]
        /\ a[Len(h) + 1] = r
    <2> HIDE DEF r
    <2> QED BY <1>1, <1>2 DEF History
  <1>4. Reached(a, has)
    <2>1. DOMAIN a = 1..(Len(h) + 1)
      BY <1>3, LenProperties
    <2>2. a[Len(h) + 1].beat = beat /\ a[Len(h) + 1].pushed = pushed
      BY <1>3
    <2> HIDE DEF a, r
    <2> SUFFICES ASSUME NEW i \in 1..(Len(h) + 1), a[i].pushed
                 PROVE  \E j \in i..(Len(h) + 1) : a[j].beat \in has
      BY <1>3, <2>1 DEF Reached
    <2>3. CASE i = Len(h) + 1
      BY <1>1, <2>2, <2>3
    <2>4. CASE i # Len(h) + 1
      <3>1. i \in 1..Len(h) /\ h[i].pushed
        BY <1>1, <1>3, <2>4
      <3>2. PICK j \in i..Len(h) : h[j].beat \in has
        BY <1>1, <3>1 DEF Reached
      <3>3. j \in i..(Len(h) + 1) /\ a[j] = h[j]
        BY <1>1, <1>3, <3>1, <3>2
      <3> QED BY <3>2, <3>3
    <2> QED BY <2>3, <2>4
  <1> HIDE DEF a
  <1>5. Latest(a, HistorySize) \in History /\ Reached(Latest(a, HistorySize), has)
    BY <1>3, <1>4, LatestReached, HeartbeatAssumption DEF History
  <1>6. WithBeat(h, beat, pushed) = Latest(a, HistorySize)
    BY DEF WithBeat, a
  <1> QED BY <1>5, <1>6

LEMMA MarkedReached ==
  ASSUME NEW h \in History, NEW has, Reached(h, has),
         NEW i \in DOMAIN h, h[i].beat \in has, \A j \in Unpushed(h) : j <= i
  PROVE  Marked(h) \in History /\ Reached(Marked(h), has)
  <1> DEFINE m == Marked(h)
  <1>1. Len(h) \in Nat /\ DOMAIN h = 1..Len(h) /\ \A k \in 1..Len(h) : h[k] \in Beat
    BY HistoryRange
  <1>2. \A k \in 1..Len(h) : m[k] \in Beat /\ m[k].beat = h[k].beat
    BY <1>1 DEF Marked, Beat
  <1>3. m \in Seq(Beat) /\ Len(m) = Len(h) /\ DOMAIN m = 1..Len(h)
    BY <1>1, <1>2 DEF Marked
  <1>4. Reached(m, has)
    <2> HIDE DEF m
    <2> SUFFICES ASSUME NEW k \in 1..Len(h)
                 PROVE  \E j \in k..Len(h) : m[j].beat \in has
      BY <1>3 DEF Reached
    <2>1. CASE k <= i
      <3>1. i \in k..Len(h) /\ m[i].beat = h[i].beat
        BY <1>1, <1>2, <2>1
      <3> QED BY <3>1
    <2>2. CASE ~(k <= i)
      <3>1. h[k].pushed
        BY <1>1, <2>2 DEF Unpushed
      <3>2. PICK j \in k..Len(h) : h[j].beat \in has
        BY <1>1, <3>1 DEF Reached
      <3>3. j \in 1..Len(h)
        BY <1>1, <3>2
      <3>4. m[j].beat = h[j].beat
        BY <1>2, <3>3
      <3> QED BY <3>2, <3>4
    <2> QED BY <2>1, <2>2
  <1> QED BY <1>3, <1>4 DEF History

-----------------------------------------------------------------------------
(* The invariant                                                           *)

LEMMA RestingSound == ASSUME NEW has PROVE Resting \in Job /\ JobSound(Resting, has)
  BY EmptyReached, EmptyHistory DEF Resting, Job, JobSound

LEMMA JobFields ==
  ASSUME NEW job \in Job
  PROVE  /\ job.copy \in History
         /\ job.beat \in Nat
         /\ job.does \in {"send", "watch", "push"}
  BY DEF Job

LEMMA JobSoundGrows ==
  ASSUME NEW job \in Job, NEW has, NEW has2, has \subseteq has2, JobSound(job, has)
  PROVE  JobSound(job, has2)
  <1>1. job.copy \in History
    BY JobFields
  <1>2. Reached(job.copy, has2)
    BY <1>1, ReachedGrows DEF JobSound
  <1> QED BY <1>2 DEF JobSound

(* What an answer makes of a sound job is sound; where the post counts as  *)
(* pushed its heartbeat has arrived.                                       *)
LEMMA AnsweredSound ==
  ASSUME NEW job \in Job, NEW has, JobSound(job, has), job.at = "post",
         NEW pushed \in BOOLEAN, pushed => job.beat \in has
  PROVE  Answered(job, pushed) \in Job /\ JobSound(Answered(job, pushed), has)
  <1>1. job.copy \in History /\ job.beat \in Nat /\ job.does \in {"send", "watch", "push"}
    BY JobFields
  <1>2. Reached(job.copy, has)
    BY DEF JobSound
  <1>3. CASE job.does = "send"
    <2> DEFINE c == WithBeat(job.copy, job.beat, pushed)
    <2>1. c \in History /\ Reached(c, has)
      BY <1>1, <1>2, WithBeatReached
    <2>2. Answered(job, pushed) = [job EXCEPT !.at = "write", !.copy = c]
      BY <1>3 DEF Answered
    <2> HIDE DEF c
    <2> QED BY <1>3, <2>1, <2>2 DEF Job, JobSound
  <1>4. CASE job.does = "push"
    <2> DEFINE c == IF pushed THEN Marked(job.copy) ELSE job.copy
    <2>1. c \in History /\ Reached(c, has)
      <3>1. CASE pushed
        <4>1. PICK i \in DOMAIN job.copy :
                 job.copy[i].beat = job.beat /\ \A j \in Unpushed(job.copy) : j <= i
          BY <1>4 DEF JobSound
        <4>2. Marked(job.copy) \in History /\ Reached(Marked(job.copy), has)
          BY <1>1, <1>2, <3>1, <4>1, MarkedReached
        <4> QED BY <3>1, <4>2
      <3>2. CASE ~pushed
        BY <1>1, <1>2, <3>2
      <3> QED BY <3>1, <3>2
    <2>2. Answered(job, pushed) = [job EXCEPT !.at = "write", !.copy = c]
      BY <1>4 DEF Answered
    <2> HIDE DEF c
    <2> QED BY <1>4, <2>1, <2>2 DEF Job, JobSound
  <1>5. CASE job.does = "watch"
    <2>1. Answered(job, pushed) = [job EXCEPT !.at = IF pushed THEN "load" ELSE "load unpushed"]
      BY <1>5 DEF Answered
    <2> QED BY <1>2, <1>5, <2>1 DEF Job, JobSound
  <1> QED BY <1>1, <1>3, <1>4, <1>5

(* A step of one process that leaves the files alone.                      *)
LEMMA MoveSound ==
  ASSUME HeartbeatsInv, NEW b \in Beaters, NEW to \in Job,
         arrived \subseteq arrived', arrived' \in SUBSET Nat, JobSound(to, arrived'),
         Moves(b, to), UNCHANGED <<history, temporary>>, beats' \in Nat, presence' \in Nat
  PROVE  HeartbeatsInv'
  <1>1. beaters' = [beaters EXCEPT ![b] = to] /\ beaters \in [Beaters -> Job]
    BY DEF Moves, HeartbeatsInv, HeartbeatsTypeOK, Job
  <1>2. HeartbeatsTypeOK'
    BY <1>1 DEF HeartbeatsInv, HeartbeatsTypeOK, Job
  <1>3. Reached(history, arrived)' /\ (temporary # Unwritten => Reached(temporary, arrived))'
    <2>1. history \in History /\ temporary \in History \cup {Unwritten}
      BY DEF HeartbeatsInv, HeartbeatsTypeOK
    <2>2. Reached(history, arrived')
      BY <2>1, ReachedGrows DEF HeartbeatsInv, CopiesReached
    <2>3. temporary # Unwritten => Reached(temporary, arrived')
      BY <2>1, ReachedGrows DEF HeartbeatsInv, CopiesReached
    <2> QED BY <2>2, <2>3
  <1>4. ASSUME NEW d \in Beaters PROVE JobSound(beaters'[d], arrived')
    <2>1. CASE d = b
      BY <1>1, <2>1
    <2>2. CASE d # b
      <3>1. beaters'[d] = beaters[d] /\ beaters[d] \in Job /\ JobSound(beaters[d], arrived)
        BY <1>1, <2>2 DEF HeartbeatsInv, CopiesReached
      <3> QED BY <3>1, JobSoundGrows
    <2> QED BY <2>1, <2>2
  <1> QED BY <1>2, <1>3, <1>4 DEF HeartbeatsInv, CopiesReached

LEMMA HeartbeatsStart == HeartbeatsInit => HeartbeatsInv
  <1> SUFFICES ASSUME HeartbeatsInit PROVE HeartbeatsInv
    OBVIOUS
  <1>1. HeartbeatsTypeOK
    BY EmptyHistory, RestingSound DEF HeartbeatsInit, HeartbeatsTypeOK, Job
  <1>2. CopiesReached
    BY EmptyReached, RestingSound DEF HeartbeatsInit, CopiesReached
  <1> QED BY <1>1, <1>2 DEF HeartbeatsInv

LEMMA HeartbeatsStep == HeartbeatsInv /\ [HeartbeatsNext]_heartbeats => HeartbeatsInv'
  <1> SUFFICES ASSUME HeartbeatsInv, [HeartbeatsNext]_heartbeats PROVE HeartbeatsInv'
    OBVIOUS
  <1>1. CASE UNCHANGED heartbeats
    BY <1>1 DEF heartbeats, HeartbeatsInv, HeartbeatsTypeOK, CopiesReached, JobSound, Reached,
       Unpushed
  <1>2. ASSUME NEW b \in Beaters,
               \/ SendBegins(b) \/ WatchTicks(b) \/ PushBegins(b)
               \/ PostArrives(b) \/ PostFails(b) \/ WatchRecords(b)
               \/ StoreWritten(b) \/ StoreRenamed(b) \/ Interrupted(b)
        PROVE  HeartbeatsInv'
    <2>1. /\ beaters \in [Beaters -> Job] /\ beaters[b] \in Job
          /\ JobSound(beaters[b], arrived)
          /\ history \in History /\ Reached(history, arrived)
          /\ arrived \in SUBSET Nat /\ beats \in Nat /\ presence \in Nat
          /\ arrived \subseteq arrived
      BY DEF HeartbeatsInv, HeartbeatsTypeOK, CopiesReached, Job
    <2>2. beaters[b].copy \in History /\ beaters[b].beat \in Nat
      BY <2>1, JobFields
    <2>3. CASE SendBegins(b)
      <3> DEFINE to == [at |-> "post", does |-> "send", copy |-> history, beat |-> beats']
      <3>1. beats' \in Nat
        BY <2>1, <2>3 DEF SendBegins
      <3>2. to \in Job /\ JobSound(to, arrived)
        BY <2>1, <3>1 DEF Job, JobSound
      <3> QED BY <2>1, <2>3, <3>1, <3>2, MoveSound DEF SendBegins
    <2>4. CASE WatchTicks(b)
      <3> DEFINE to == [at |-> "post", does |-> "watch", copy |-> <<>>, beat |-> beats']
      <3>1. beats' \in Nat
        BY <2>1, <2>4 DEF WatchTicks
      <3>2. to \in Job /\ JobSound(to, arrived)
        BY <2>1, <3>1, EmptyHistory, EmptyReached DEF Job, JobSound
      <3> QED BY <2>1, <2>4, <3>1, <3>2, MoveSound DEF WatchTicks
    <2>5. CASE PushBegins(b)
      <3>1. PICK i \in Unpushed(history) :
               /\ \A j \in Unpushed(history) : j <= i
               /\ Moves(b, [at |-> "post", does |-> "push", copy |-> history, beat |-> history[i].beat])
        BY <2>5 DEF PushBegins
      <3> DEFINE to == [at |-> "post", does |-> "push", copy |-> history, beat |-> history[i].beat]
      <3>2. i \in DOMAIN history
        BY DEF Unpushed
      <3>3. history[i].beat \in Nat
        BY <2>1, <3>2, HistoryRange DEF Beat
      <3>4. to \in Job
        BY <2>1, <3>3 DEF Job
      <3>5. JobSound(to, arrived)
        BY <2>1, <3>1, <3>2 DEF JobSound
      <3>6. UNCHANGED <<history, temporary, beats, arrived, presence>>
        BY <2>5 DEF PushBegins
      <3> QED BY <2>1, <3>1, <3>4, <3>5, <3>6, MoveSound
    <2>6. CASE PostArrives(b)
      <3>1. PICK pushed \in BOOLEAN : Moves(b, Answered(beaters[b], pushed))
        BY <2>6 DEF PostArrives
      <3>2. /\ beaters[b].at = "post" /\ arrived' = arrived \cup {beaters[b].beat}
            /\ presence' = beaters[b].beat /\ UNCHANGED <<history, temporary, beats>>
        BY <2>6 DEF PostArrives
      <3>3. arrived \subseteq arrived' /\ arrived' \in SUBSET Nat /\ presence' \in Nat /\ beats' \in Nat
        BY <2>1, <2>2, <3>2
      <3>4. JobSound(beaters[b], arrived')
        BY <2>1, <3>3, JobSoundGrows
      <3>5. Answered(beaters[b], pushed) \in Job /\ JobSound(Answered(beaters[b], pushed), arrived')
        BY <2>1, <3>2, <3>4, AnsweredSound
      <3> QED BY <3>1, <3>2, <3>3, <3>5, MoveSound
    <2>7. CASE PostFails(b)
      <3>1. Answered(beaters[b], FALSE) \in Job /\ JobSound(Answered(beaters[b], FALSE), arrived)
        BY <2>1, <2>7, AnsweredSound DEF PostFails
      <3> QED BY <2>1, <2>7, <3>1, MoveSound DEF PostFails
    <2>8. CASE WatchRecords(b)
      <3> DEFINE pushed == beaters[b].at = "load"
                 c == WithBeat(history, beaters[b].beat, pushed)
                 to == [beaters[b] EXCEPT !.at = "write", !.copy = c]
      <3>1. pushed \in BOOLEAN /\ (pushed => beaters[b].beat \in arrived)
        BY <2>1 DEF JobSound
      <3>2. c \in History /\ Reached(c, arrived)
        <4> HIDE DEF pushed
        <4> QED BY <2>1, <2>2, <3>1, WithBeatReached
      <3>3. Moves(b, to) /\ UNCHANGED <<history, temporary, beats, arrived, presence>>
        BY <2>8 DEF WatchRecords
      <3> HIDE DEF c
      <3>4. to \in Job /\ JobSound(to, arrived)
        BY <2>1, <3>2 DEF Job, JobSound
      <3> HIDE DEF to
      <3> QED BY <2>1, <3>3, <3>4, MoveSound
    <2>9. CASE StoreWritten(b)
      <3> DEFINE to == [beaters[b] EXCEPT !.at = "rename", !.copy = <<>>]
      <3>1. to \in Job /\ JobSound(to, arrived)
        BY <2>1, EmptyHistory, EmptyReached DEF Job, JobSound
      <3>2. /\ temporary' = beaters[b].copy /\ beaters' = [beaters EXCEPT ![b] = to]
            /\ UNCHANGED <<history, beats, arrived, presence>>
        BY <2>9 DEF StoreWritten, Moves
      <3> HIDE DEF to
      <3>3. HeartbeatsTypeOK'
        BY <2>1, <2>2, <3>1, <3>2 DEF HeartbeatsInv, HeartbeatsTypeOK, Job
      <3>4. Reached(history, arrived)' /\ Reached(temporary, arrived)'
        BY <2>1, <3>2 DEF JobSound
      <3>5. \A d \in Beaters : JobSound(beaters'[d], arrived')
        BY <2>1, <3>1, <3>2 DEF HeartbeatsInv, CopiesReached
      <3> QED BY <3>3, <3>4, <3>5 DEF HeartbeatsInv, CopiesReached
    <2>10. CASE StoreRenamed(b)
      <3>1. /\ \/ temporary = Unwritten /\ UNCHANGED <<history, temporary>>
               \/ temporary # Unwritten /\ history' = temporary /\ temporary' = Unwritten
            /\ beaters' = [beaters EXCEPT ![b] = Resting]
            /\ UNCHANGED <<beats, arrived, presence>>
        BY <2>10 DEF StoreRenamed, Moves
      <3>2. Resting \in Job /\ JobSound(Resting, arrived)
        BY RestingSound
      <3>3. HeartbeatsTypeOK'
        BY <2>1, <3>1, <3>2 DEF HeartbeatsInv, HeartbeatsTypeOK, Job
      <3>4. Reached(history, arrived)' /\ (temporary # Unwritten => Reached(temporary, arrived))'
        BY <2>1, <3>1 DEF HeartbeatsInv, CopiesReached
      <3>5. \A d \in Beaters : JobSound(beaters'[d], arrived')
        BY <2>1, <3>1, <3>2 DEF HeartbeatsInv, CopiesReached
      <3> QED BY <3>3, <3>4, <3>5 DEF HeartbeatsInv, CopiesReached
    <2>11. CASE Interrupted(b)
      <3>1. Resting \in Job /\ JobSound(Resting, arrived)
        BY RestingSound
      <3> QED BY <2>1, <2>11, <3>1, MoveSound DEF Interrupted
    <2> QED BY <1>2, <2>3, <2>4, <2>5, <2>6, <2>7, <2>8, <2>9, <2>10, <2>11
  <1> QED BY <1>1, <1>2 DEF HeartbeatsNext

-----------------------------------------------------------------------------

(* The heartbeat store and its copies are well-formed, whatever commands   *)
(* overlap, fail or are interrupted.                                       *)
THEOREM HeartbeatsTypeCorrect == HeartbeatsSpec => []HeartbeatsTypeOK
  <1>1. HeartbeatsInv => HeartbeatsTypeOK
    BY DEF HeartbeatsInv
  <1> QED BY <1>1, HeartbeatsStart, HeartbeatsStep, PTL DEF HeartbeatsSpec

(* No heartbeat leaves the queue of the unpushed that neither arrived nor  *)
(* was followed by one that did, for any number of processes and whatever  *)
(* saves they lose.                                                        *)
THEOREM NoneLeavesTheQueueUnsent == HeartbeatsSpec => []PushedArrived
  <1>1. HeartbeatsInv => PushedArrived
    BY DEF HeartbeatsInv, CopiesReached, PushedArrived
  <1> QED BY <1>1, HeartbeatsStart, HeartbeatsStep, PTL DEF HeartbeatsSpec

-----------------------------------------------------------------------------
(* TokenCache                                                              *)

(* A request that was sent again holds a token exchanged for it, except    *)
(* where _rpc has emptied the memory and is about to ask for one.          *)
FreshToken(call, toks) == toks[call.key] > call.first

RetrySound(call, toks, given) ==
    /\ call.first <= given
    /\ call.does = "refresh" => call.tried = 0
    /\ call.at = "refused" => call.tried > 0
    /\ call.at \in {"send", "refused"} /\ call.tried > 0 => FreshToken(call, toks)
    /\ call.at \in {"save", "truncate", "write", "chmod"} /\ call.tried > 0 =>
         FreshToken(call, toks) \/ (call.does = "rpc" /\ toks[call.key] = NoToken)

CacheInv ==
    /\ CacheTypeOK
    /\ \A c \in Clients : RetrySound(calls[c], memory[c], issued)

Call == [at : {"new", "exchange", "save", "truncate", "write", "chmod", "send"} \cup AtRest,
         key : TokenKeys, does : {"client", "rpc", "refresh"}, tried : Nat,
         file : Tokens, first : Nat]

LEMMA EmptyIsTokens == Empty \in Tokens
  BY DEF Empty, Tokens, NoToken

LEMMA NoCallSound ==
  ASSUME NEW place \in {"new"} \cup {"idle", "served", "failed"}, NEW toks, NEW given \in Nat
  PROVE  /\ [NoCall EXCEPT !.at = place] \in Call
         /\ NoCall \in Call /\ [NoCall EXCEPT !.at = place].at = place
         /\ RetrySound([NoCall EXCEPT !.at = place], toks, given)
         /\ RetrySound(NoCall, toks, given)
  <1>1. (CHOOSE k \in TokenKeys : TRUE) \in TokenKeys
    BY TokenAssumption DEF TokenAssumption
  <1> DEFINE k0 == CHOOSE k \in TokenKeys : TRUE
  <1> HIDE DEF k0
  <1>2. NoCall = [at |-> "new", key |-> k0, does |-> "client", tried |-> 0, file |-> Empty, first |-> 0]
    BY DEF NoCall, k0
  <1>3. k0 \in TokenKeys
    BY <1>1 DEF k0
  <1> QED BY <1>2, <1>3, EmptyIsTokens DEF Call, AtRest, RetrySound

(* One client's call changes, and no other's memory.                       *)
LEMMA CallChanges ==
  ASSUME CacheInv, NEW c \in Clients, NEW call \in Call, Goes(c, call),
         NEW toks \in Tokens, memory' = [memory EXCEPT ![c] = toks],
         issued' \in Nat, issued' >= issued, UNCHANGED due,
         tokens' \in Tokens \cup {NoFile, CutOff}, wide' \in BOOLEAN,
         orphaned' \in SUBSET Clients,
         RetrySound(call, toks, issued')
  PROVE  CacheInv'
  <1>1. CacheTypeOK'
    BY DEF CacheInv, CacheTypeOK, Goes, Call
  <1>2. ASSUME NEW d \in Clients PROVE RetrySound(calls[d], memory[d], issued)'
    <2>1. CASE d = c
      BY <2>1 DEF CacheInv, CacheTypeOK, Goes
    <2>2. CASE d # c
      <3>1. calls'[d] = calls[d] /\ memory'[d] = memory[d] /\ calls[d].first \in Nat /\ issued \in Nat
        BY <2>2 DEF CacheInv, CacheTypeOK, Goes
      <3>2. RetrySound(calls[d], memory[d], issued)
        BY DEF CacheInv
      <3> QED BY <3>1, <3>2 DEF RetrySound, FreshToken
    <2> QED BY <2>1, <2>2
  <1> QED BY <1>1, <1>2 DEF CacheInv

LEMMA LiveType == ASSUME NEW toks \in Tokens PROVE Live(toks) \in Tokens
  BY DEF Live, Tokens, NoToken

LEMMA CallShape ==
  ASSUME CacheInv, NEW c \in Clients
  PROVE  /\ calls[c] \in Call /\ memory[c] \in Tokens /\ memory = [memory EXCEPT ![c] = memory[c]]
         /\ issued \in Nat /\ due \in Nat
         /\ tokens \in Tokens \cup {NoFile, CutOff} /\ wide \in BOOLEAN /\ orphaned \in SUBSET Clients
         /\ RetrySound(calls[c], memory[c], issued)
  BY DEF CacheInv, CacheTypeOK, Call

(* A request that is over, or a process that takes its place.              *)
LEMMA EndSound ==
  ASSUME CacheInv, NEW c \in Clients, NEW place \in {"served", "failed"}, RequestEnds(c, place)
  PROVE  \E call \in Call : Goes(c, call) /\ RetrySound(call, memory[c], issued)
  <1>1. CASE calls[c].does = "refresh"
    <2>1. Goes(c, [calls[c] EXCEPT !.at = place])
      BY <1>1 DEF RequestEnds, GoesTo
    <2>2. [calls[c] EXCEPT !.at = place] \in Call
      BY CallShape DEF Call, AtRest
    <2>3. RetrySound([calls[c] EXCEPT !.at = place], memory[c], issued)
      BY <1>1, CallShape DEF Call, RetrySound
    <2> QED BY <2>1, <2>2, <2>3
  <1>2. CASE calls[c].does # "refresh"
    <2>1. Goes(c, [NoCall EXCEPT !.at = place])
      BY <1>2 DEF RequestEnds
    <2> QED BY <2>1, NoCallSound, CallShape
  <1> QED BY <1>1, <1>2

LEMMA CacheInitInv == CacheInit => CacheInv
  <1> SUFFICES ASSUME CacheInit PROVE CacheInv
    OBVIOUS
  <1>1. NoCall \in Call /\ RetrySound(NoCall, Empty, 0)
    BY NoCallSound
  <1>2. CacheTypeOK
    BY <1>1, EmptyIsTokens DEF CacheInit, CacheTypeOK, Call
  <1>3. \A c \in Clients : RetrySound(calls[c], memory[c], issued)
    BY <1>1 DEF CacheInit
  <1> QED BY <1>2, <1>3 DEF CacheInv

LEMMA LoadKeeps == ASSUME CacheInv, NEW c \in Clients, LoadCache(c) PROVE CacheInv'
  <1> DEFINE call == [calls[c] EXCEPT !.at = "idle"]
             toks == IF tokens \in {NoFile, CutOff} \/ wide THEN Empty ELSE tokens
  <1>1. call \in Call /\ toks \in Tokens
    BY CallShape, EmptyIsTokens DEF Call, AtRest
  <1>2. RetrySound(call, toks, issued)
    BY CallShape DEF Call, RetrySound
  <1>3. /\ Goes(c, call) /\ memory' = [memory EXCEPT ![c] = toks] /\ UNCHANGED <<due, issued>>
        /\ wide' = FALSE
    BY DEF LoadCache, GoesTo
  <1>4. tokens' \in Tokens \cup {NoFile, CutOff} /\ orphaned' \in SUBSET Clients
    BY CallShape DEF LoadCache
  <1> HIDE DEF call, toks
  <1>5. issued' \in Nat /\ issued' >= issued
    BY <1>3, CallShape
  <1>6. wide' \in BOOLEAN
    BY <1>3
  <1> QED BY <1>1, <1>2, <1>3, <1>4, <1>5, <1>6, CallChanges

LEMMA StartsKeep ==
  ASSUME CacheInv, NEW c \in Clients, NEW k \in TokenKeys, NEW does \in {"client", "rpc"},
         RequestStarts(c, k, does) \/ RefreshStarts(c, k)
  PROVE  CacheInv'
  <1>1. CASE RequestStarts(c, k, does)
    <2> DEFINE call == [at |-> IF memory[c][k] > due THEN "send" ELSE "exchange", key |-> k,
                        does |-> does, tried |-> 0, file |-> Empty, first |-> issued]
    <2>1. call \in Call /\ RetrySound(call, memory[c], issued)
      BY CallShape, EmptyIsTokens DEF Call, AtRest, RetrySound
    <2>2. Goes(c, call) /\ UNCHANGED <<orphaned, tokens, wide, memory, due, issued>>
      BY <1>1 DEF RequestStarts
    <2> HIDE DEF call
    <2>3. /\ memory[c] \in Tokens /\ memory' = [memory EXCEPT ![c] = memory[c]]
          /\ issued' \in Nat /\ issued' >= issued
          /\ tokens' \in Tokens \cup {NoFile, CutOff} /\ wide' \in BOOLEAN /\ orphaned' \in SUBSET Clients
      BY <2>2, CallShape
    <2> QED BY <2>1, <2>2, <2>3, CallChanges
  <1>2. CASE RefreshStarts(c, k)
    <2> DEFINE call == [at |-> "exchange", key |-> k, does |-> "refresh", tried |-> 0,
                        file |-> Empty, first |-> issued]
    <2>1. call \in Call /\ RetrySound(call, Empty, issued)
      BY CallShape, EmptyIsTokens DEF Call, AtRest, RetrySound
    <2>2. /\ Goes(c, call) /\ memory' = [memory EXCEPT ![c] = Empty]
          /\ UNCHANGED <<orphaned, due, issued>> /\ wide' = FALSE
          /\ tokens' = IF tokens = NoFile THEN NoFile ELSE Empty
      BY <1>2 DEF RefreshStarts
    <2> HIDE DEF call
    <2>3. /\ issued' \in Nat /\ issued' >= issued
          /\ tokens' \in Tokens \cup {NoFile, CutOff} /\ orphaned' \in SUBSET Clients
      BY <2>2, CallShape, EmptyIsTokens
    <2>4. wide' \in BOOLEAN
      BY <2>2
    <2> QED BY <2>1, <2>2, <2>3, <2>4, EmptyIsTokens, CallChanges
  <1> QED BY <1>1, <1>2

(* Steps of one client that leave its memory alone.                        *)
LEMMA PlaceChanges ==
  ASSUME CacheInv, NEW c \in Clients, NEW call \in Call, Goes(c, call),
         UNCHANGED <<memory, due, issued>>,
         tokens' \in Tokens \cup {NoFile, CutOff}, wide' \in BOOLEAN,
         orphaned' \in SUBSET Clients,
         RetrySound(call, memory[c], issued)
  PROVE  CacheInv'
  <1>1. /\ memory[c] \in Tokens /\ memory' = [memory EXCEPT ![c] = memory[c]]
        /\ issued' \in Nat /\ issued' >= issued
    BY CallShape
  <1> QED BY <1>1, CallChanges

LEMMA ExchangesKeep ==
  ASSUME CacheInv, NEW c \in Clients, ExchangeSucceeds(c) \/ ExchangeFails(c)
  PROVE  CacheInv'
  <1>1. CASE ExchangeSucceeds(c)
    <2> DEFINE call == [calls[c] EXCEPT !.at = "save"]
               toks == [memory[c] EXCEPT ![calls[c].key] = issued']
    <2>1. /\ issued' = issued + 1 /\ issued \in Nat
          /\ Goes(c, call) /\ memory' = [memory EXCEPT ![c] = toks]
          /\ UNCHANGED <<orphaned, tokens, wide, due>>
      BY <1>1, CallShape DEF ExchangeSucceeds, GoesTo, CacheInv, CacheTypeOK
    <2>2. call \in Call /\ toks \in Tokens
      BY <2>1, CallShape DEF Call, Tokens
    <2>3. RetrySound(call, toks, issued')
      <3>1. toks[call.key] = issued' /\ call.first = calls[c].first /\ call.first \in Nat
        BY <2>1, CallShape DEF Call, Tokens
      <3>2. call.first <= issued
        BY CallShape, <3>1 DEF RetrySound
      <3>3. FreshToken(call, toks) /\ call.first <= issued'
        BY <2>1, <3>1, <3>2 DEF FreshToken
      <3>4. call.at = "save" /\ (call.does = "refresh" => call.tried = 0)
        BY CallShape DEF Call, RetrySound
      <3> HIDE DEF call, toks
      <3> QED BY <3>3, <3>4 DEF RetrySound
    <2> HIDE DEF call, toks
    <2>4. /\ issued' \in Nat /\ issued' >= issued
          /\ tokens' \in Tokens \cup {NoFile, CutOff} /\ wide' \in BOOLEAN /\ orphaned' \in SUBSET Clients
      BY <2>1, CallShape
    <2> QED BY <2>1, <2>2, <2>3, <2>4, CallChanges
  <1>2. CASE ExchangeFails(c)
    <2>1. PICK call \in Call : Goes(c, call) /\ RetrySound(call, memory[c], issued)
      BY <1>2, EndSound DEF ExchangeFails
    <2>2. UNCHANGED <<orphaned, tokens, wide, memory, due, issued>>
      BY <1>2 DEF ExchangeFails
    <2> QED BY <2>1, <2>2, CallShape, PlaceChanges
  <1> QED BY <1>1, <1>2

LEMMA SavesKeep ==
  ASSUME CacheInv, NEW c \in Clients,
         SaveReads(c) \/ SaveTruncates(c) \/ SaveWrites(c) \/ SaveEnds(c)
  PROVE  CacheInv'
  <1>0. /\ UNCHANGED <<memory, due, issued>>
        /\ calls[c].at \in {"save", "truncate", "write", "chmod"}
    BY DEF SaveReads, SaveTruncates, SaveWrites, SaveEnds
  <1>1. CASE SaveReads(c)
    <2> DEFINE file == IF tokens \in {NoFile, CutOff} THEN Empty ELSE tokens
               merged == [k \in TokenKeys |-> IF memory[c][k] # NoToken THEN memory[c][k] ELSE file[k]]
               call == [calls[c] EXCEPT !.at = "truncate", !.file = Live(merged)]
    <2>1. file \in Tokens
      BY CallShape, EmptyIsTokens
    <2>2. merged \in Tokens
      BY <2>1, CallShape DEF Tokens
    <2>3. Goes(c, call) /\ UNCHANGED <<orphaned, tokens, wide>>
      BY <1>1 DEF SaveReads
    <2> HIDE DEF merged
    <2>4. call \in Call /\ RetrySound(call, memory[c], issued)
      BY <1>0, <2>2, LiveType, CallShape DEF Call, RetrySound, FreshToken
    <2> HIDE DEF call
    <2> QED BY <1>0, <2>3, <2>4, CallShape, PlaceChanges
  <1>2. CASE SaveTruncates(c)
    <2> DEFINE call == [calls[c] EXCEPT !.at = "write"]
    <2>1. Goes(c, call) /\ UNCHANGED orphaned /\ tokens' = CutOff
      BY <1>2 DEF SaveTruncates, GoesTo
    <2>2. wide' \in BOOLEAN
      BY <1>2 DEF SaveTruncates
    <2>3. call \in Call /\ RetrySound(call, memory[c], issued)
      BY <1>0, CallShape DEF Call, RetrySound, FreshToken
    <2> HIDE DEF call
    <2> QED BY <1>0, <2>1, <2>2, <2>3, CallShape, PlaceChanges
  <1>3. CASE SaveWrites(c)
    <2> DEFINE call == [calls[c] EXCEPT !.at = "chmod", !.file = Empty]
    <2>1. Goes(c, call) /\ UNCHANGED wide
      BY <1>3 DEF SaveWrites
    <2>2. tokens' \in Tokens \cup {NoFile, CutOff} /\ orphaned' \in SUBSET Clients
      BY <1>3, CallShape DEF SaveWrites, Call
    <2>3. call \in Call /\ RetrySound(call, memory[c], issued)
      BY <1>0, EmptyIsTokens, CallShape DEF Call, RetrySound, FreshToken
    <2> HIDE DEF call
    <2> QED BY <1>0, <2>1, <2>2, <2>3, CallShape, PlaceChanges
  <1>4. CASE SaveEnds(c)
    <2>1. wide' = FALSE /\ UNCHANGED <<orphaned, tokens>> /\ calls[c].at = "chmod"
      BY <1>4 DEF SaveEnds
    <2>2. \E call \in Call : Goes(c, call) /\ RetrySound(call, memory[c], issued)
      <3>1. CASE RequestEnds(c, "failed")
        BY <3>1, EndSound
      <3>2. CASE GoesTo(c, IF memory[c][calls[c].key] = NoToken THEN "exchange"
                           ELSE IF calls[c].does = "refresh" THEN "served" ELSE "send")
        <4>1. CASE memory[c][calls[c].key] = NoToken
          <5> DEFINE call == [calls[c] EXCEPT !.at = "exchange"]
          <5>1. call \in Call /\ RetrySound(call, memory[c], issued)
            BY CallShape DEF Call, RetrySound
          <5> QED BY <3>2, <4>1, <5>1 DEF GoesTo
        <4>2. CASE memory[c][calls[c].key] # NoToken /\ calls[c].does = "refresh"
          <5> DEFINE call == [calls[c] EXCEPT !.at = "served"]
          <5>1. call \in Call /\ RetrySound(call, memory[c], issued)
            BY CallShape DEF Call, RetrySound, AtRest
          <5> QED BY <3>2, <4>2, <5>1 DEF GoesTo
        <4>3. CASE memory[c][calls[c].key] # NoToken /\ calls[c].does # "refresh"
          <5> DEFINE call == [calls[c] EXCEPT !.at = "send"]
          <5>1. call \in Call /\ RetrySound(call, memory[c], issued)
            BY <1>0, <4>3, CallShape DEF Call, RetrySound, FreshToken
          <5> QED BY <3>2, <4>3, <5>1 DEF GoesTo
        <4> QED BY <4>1, <4>2, <4>3
      <3> QED BY <1>4, <3>1, <3>2 DEF SaveEnds
    <2>3. PICK call \in Call : Goes(c, call) /\ RetrySound(call, memory[c], issued)
      BY <2>2
    <2>4. wide' \in BOOLEAN
      BY <2>1
    <2> QED BY <1>0, <2>1, <2>3, <2>4, CallShape, PlaceChanges
  <1> QED BY <1>1, <1>2, <1>3, <1>4

LEMMA AnswersKeep ==
  ASSUME CacheInv, NEW c \in Clients,
         Served(c) \/ RetriesClient(c) \/ RetriesRpc(c) \/ Refused(c)
  PROVE  CacheInv'
  <1>0. calls[c].at = "send" /\ UNCHANGED <<orphaned, tokens, wide, due, issued>>
    BY DEF Served, RetriesClient, RetriesRpc, Refused
  <1>1. CASE Served(c)
    <2>1. PICK call \in Call : Goes(c, call) /\ RetrySound(call, memory[c], issued)
      BY <1>1, EndSound DEF Served
    <2> QED BY <1>0, <1>1, <2>1, CallShape, PlaceChanges DEF Served
  <1>2. CASE RetriesClient(c)
    <2> DEFINE n == calls[c].tried + 1
               call == [calls[c] EXCEPT !.at = "exchange", !.tried = n]
    <2>0. n \in Nat
      BY CallShape DEF Call
    <2>1. Goes(c, call) /\ UNCHANGED memory
      BY <1>2, CallShape DEF RetriesClient, Call
    <2> HIDE DEF n
    <2>2. call \in Call
      BY <2>0, CallShape DEF Call
    <2>3. /\ call.at = "exchange" /\ call.first = calls[c].first
          /\ call.does = "client" /\ calls[c].first <= issued
      BY <1>2, CallShape DEF RetriesClient, Call, RetrySound
    <2> HIDE DEF call
    <2>4. RetrySound(call, memory[c], issued)
      BY <2>3 DEF RetrySound
    <2> QED BY <1>0, <2>1, <2>2, <2>4, CallShape, PlaceChanges
  <1>3. CASE RetriesRpc(c)
    <2> DEFINE call == [calls[c] EXCEPT !.at = "save", !.tried = 1]
    <2>1. Goes(c, call) /\ memory' = [memory EXCEPT ![c] = Empty] /\ calls[c].does = "rpc"
      BY <1>3 DEF RetriesRpc
    <2>2. call \in Call
      BY CallShape DEF Call
    <2>3. RetrySound(call, Empty, issued)
      <3>1. call.does = "rpc" /\ call.at = "save" /\ call.first = calls[c].first /\ call.key \in TokenKeys
        BY <2>1, CallShape DEF Call
      <3>2. Empty[call.key] = NoToken
        BY <3>1 DEF Empty
      <3>3. call.first <= issued
        BY <3>1, CallShape DEF RetrySound
      <3> HIDE DEF call
      <3> QED BY <3>1, <3>2, <3>3 DEF RetrySound
    <2> HIDE DEF call
    <2>4. issued' \in Nat /\ issued' >= issued
      BY <1>0, CallShape
    <2> QED BY <1>0, <2>1, <2>2, <2>3, <2>4, EmptyIsTokens, CallShape, CallChanges
  <1>4. CASE Refused(c)
    <2> DEFINE call == [calls[c] EXCEPT !.at = "refused"]
    <2>1. Goes(c, call) /\ UNCHANGED memory
      BY <1>4 DEF Refused, GoesTo
    <2>2. calls[c].tried > 0
      BY <1>4, TokenAssumption DEF Refused, TokenAssumption
    <2>3. call \in Call /\ RetrySound(call, memory[c], issued)
      BY <1>0, <2>2, CallShape DEF Call, RetrySound, FreshToken, AtRest
    <2> HIDE DEF call
    <2> QED BY <1>0, <2>1, <2>3, CallShape, PlaceChanges
  <1> QED BY <1>1, <1>2, <1>3, <1>4

LEMMA ReplacedKeeps == ASSUME CacheInv, NEW c \in Clients, Replaced(c) PROVE CacheInv'
  <1>1. /\ Goes(c, NoCall) /\ memory' = [memory EXCEPT ![c] = Empty]
        /\ orphaned' \in SUBSET Clients /\ UNCHANGED <<tokens, wide, due, issued>>
    BY CallShape DEF Replaced
  <1>2. NoCall \in Call /\ RetrySound(NoCall, Empty, issued')
    BY <1>1, NoCallSound, CallShape
  <1>3. issued' \in Nat /\ issued' >= issued /\ tokens' \in Tokens \cup {NoFile, CutOff} /\ wide' \in BOOLEAN
    BY <1>1, CallShape
  <1> QED BY <1>1, <1>2, <1>3, EmptyIsTokens, CallChanges

LEMMA CacheStepInv == CacheInv /\ [CacheNext]_cache => CacheInv'
  <1> SUFFICES ASSUME CacheInv, [CacheNext]_cache PROVE CacheInv'
    OBVIOUS
  <1>1. CASE UNCHANGED cache
    BY <1>1 DEF cache, CacheInv, CacheTypeOK, AtRest, RetrySound, FreshToken
  <1>2. CASE TokensExpire
    <2>1. UNCHANGED <<orphaned, tokens, wide, memory, calls, issued>> /\ due' \in Nat
      BY <1>2 DEF TokensExpire, CacheInv, CacheTypeOK
    <2> QED BY <2>1 DEF CacheInv, CacheTypeOK, RetrySound, FreshToken
  <1>3. ASSUME NEW c \in Clients, LoadCache(c) PROVE CacheInv'
    BY <1>3, LoadKeeps
  <1>4. ASSUME NEW c \in Clients, NEW k \in TokenKeys,
               RefreshStarts(c, k) \/ \E does \in {"client", "rpc"} : RequestStarts(c, k, does)
        PROVE  CacheInv'
    BY <1>4, StartsKeep
  <1>5. ASSUME NEW c \in Clients,
               \/ ExchangeSucceeds(c) \/ ExchangeFails(c)
               \/ SaveReads(c) \/ SaveTruncates(c) \/ SaveWrites(c) \/ SaveEnds(c)
               \/ Served(c) \/ RetriesClient(c) \/ RetriesRpc(c) \/ Refused(c) \/ Replaced(c)
        PROVE  CacheInv'
    BY <1>5, ExchangesKeep, SavesKeep, AnswersKeep, ReplacedKeeps
  <1> QED BY <1>1, <1>2, <1>3, <1>4, <1>5 DEF CacheNext

LEMMA CacheInvHolds == CacheSpec => []CacheInv
  BY CacheInitInv, CacheStepInv, PTL DEF CacheSpec

(* Whatever the caches of this and other processes hold, and however they  *)
(* are cut off, emptied or rewritten, a request that is given up as        *)
(* unauthorized was last sent with a token exchanged for it.               *)
THEOREM RefusedHadFreshToken == CacheSpec => []RefusedIsFresh
  <1>1. CacheInv => RefusedIsFresh
    BY DEF CacheInv, RetrySound, FreshToken, RefusedIsFresh
  <1> QED BY <1>1, CacheInvHolds, PTL

(* The file, its mode, the memory and the call of each process keep their  *)
(* types.                                                                  *)
THEOREM CacheTypeCorrect == CacheSpec => []CacheTypeOK
  <1>1. CacheInv => CacheTypeOK
    BY DEF CacheInv
  <1> QED BY <1>1, CacheInvHolds, PTL

-----------------------------------------------------------------------------
(* Reminders                                                               *)

(* Of one fire of a policy, by its key: has a store made it, as a message  *)
(* or a draft, and is there a draft of it that may yet be sent?            *)
Fired(s, p, k) == p \in DOMAIN s.policies /\ k \in s.policies[p].keys

Of(s, i, p, k) == s.drafts[i].policy = p /\ s.drafts[i].key = k

Offered(s, p, k) == \E i \in 1..Len(s.drafts) : Of(s, i, p, k) /\ s.drafts[i].status = "pending"

(* What a store may still make reach people, of one fire.                  *)
Owed(s, p, k) == IF ~Fired(s, p, k) \/ Offered(s, p, k) THEN 1 ELSE 0

Balanced(s, p, k) == reached[p][k] + Owed(s, p, k) <= 1 + losses

(* A fire has one draft at most, and is made once it has one.              *)
OneDraft(s) ==
    \A i, j \in 1..Len(s.drafts) :
        /\ Fired(s, s.drafts[i].policy, s.drafts[i].key)
        /\ Of(s, j, s.drafts[i].policy, s.drafts[i].key) => i = j

(* What a pass has taken for due it has not fired, and what was fired when *)
(* it began it leaves alone.                                               *)
CopyFollows ==
    run # Idle =>
        /\ \A p \in run.todo : p \in DOMAIN run.copy.policies
                               /\ run.copy.policies[p].next \notin run.copy.policies[p].keys
        /\ \A p \in Policies, k \in Nat :
            Fired(run.loaded, p, k) =>
                Fired(run.copy, p, k) /\ (Offered(run.copy, p, k) => Offered(run.loaded, p, k))

(* Only the pass in progress can make a fire that was not made when it     *)
(* began: nobody holds a store in which it is made.                        *)
FiredStays ==
    \A p \in Policies, k \in Nat :
        /\ command # Idle /\ Fired(command.loaded, p, k) => Fired(store, p, k)
        /\ run # Idle /\ ~Fired(run.loaded, p, k) =>
            ~Fired(store, p, k) /\ (command # Idle => ~Fired(command.loaded, p, k))

(* Whose store a fire is owed by: the pass's that may make it, or the file.*)
OfPass(p, k) == run # Idle /\ ~Fired(run.loaded, p, k)

AllBalanced ==
    \A p \in Policies, k \in Keys :
        /\ OfPass(p, k) => Balanced(run.copy, p, k)
        /\ ~OfPass(p, k) => Balanced(store, p, k)

SendsPending ==
    command # Idle /\ command.draft # NoDraft =>
        /\ command.draft \in 1..Len(command.loaded.drafts)
        /\ command.loaded.drafts[command.draft].status = "pending"

RemindersTypes ==
    /\ store \in Stores
    /\ run \in RunRecord \cup {Idle} /\ command \in CommandRecord \cup {Idle}
    /\ closed \in SUBSET Policies
    /\ clock \in Nat /\ edits \in Nat /\ crashes \in Nat
    /\ reached \in [Policies -> [Keys -> Nat]]
    /\ losses \in Nat

DraftsSound ==
    /\ OneDraft(store)
    /\ run # Idle => OneDraft(run.copy)
    /\ command # Idle => OneDraft(command.loaded)

RemindersInv ==
    /\ RemindersTypes /\ DraftsSound /\ CopyFollows /\ FiredStays /\ SendsPending /\ AllBalanced

-----------------------------------------------------------------------------
(* Stores                                                                  *)

LEMMA StoreShape ==
  ASSUME NEW s \in Stores
  PROVE  /\ s = [policies |-> s.policies, drafts |-> s.drafts]
         /\ DOMAIN s.policies \subseteq Policies
         /\ s.policies \in [DOMAIN s.policies -> Policy]
         /\ s.drafts \in Seq(Draft)
         /\ Len(s.drafts) \in Nat
         /\ \A i \in 1..Len(s.drafts) : s.drafts[i] \in Draft
  <1>1. PICK D \in SUBSET Policies : s.policies \in [D -> Policy]
    BY DEF Stores
  <1>2. s.drafts \in Seq(Draft)
    BY DEF Stores
  <1> QED BY <1>1, <1>2, LenProperties, ElementOfSeq DEF Stores

LEMMA StoreMade ==
  ASSUME NEW D \in SUBSET Policies, NEW f \in [D -> Policy], NEW d \in Seq(Draft)
  PROVE  [policies |-> f, drafts |-> d] \in Stores
  BY DEF Stores

LEMMA StorePolicies ==
  ASSUME NEW f, NEW d, NEW x
  PROVE  [[policies |-> f, drafts |-> d] EXCEPT !.policies = x] = [policies |-> x, drafts |-> d]
  OBVIOUS

LEMMA StoreDrafts ==
  ASSUME NEW f, NEW d, NEW x
  PROVE  [[policies |-> f, drafts |-> d] EXCEPT !.drafts = x] = [policies |-> f, drafts |-> x]
  OBVIOUS

(* A store with one policy replaced.                                       *)
LEMMA StoreEdited ==
  ASSUME NEW s \in Stores, NEW p \in DOMAIN s.policies, NEW q \in Policy
  PROVE  /\ [s.policies EXCEPT ![p] = q] \in [DOMAIN s.policies -> Policy]
         /\ [s EXCEPT !.policies[p] = q] = [policies |-> [s.policies EXCEPT ![p] = q], drafts |-> s.drafts]
         /\ [s EXCEPT !.policies[p] = q] \in Stores
  <1> DEFINE f == [s.policies EXCEPT ![p] = q]
  <1>1. s = [policies |-> s.policies, drafts |-> s.drafts] /\ DOMAIN s.policies \in SUBSET Policies
        /\ s.policies \in [DOMAIN s.policies -> Policy] /\ s.drafts \in Seq(Draft)
    BY StoreShape
  <1>2. f \in [DOMAIN s.policies -> Policy]
    BY <1>1
  <1>3. [s EXCEPT !.policies[p] = q] = [policies |-> f, drafts |-> s.drafts]
    BY <1>1
  <1> HIDE DEF f
  <1>5. [policies |-> f, drafts |-> s.drafts] \in Stores
    BY <1>1, <1>2, StoreMade
  <1> QED BY <1>2, <1>3, <1>5 DEF f

LEMMA RunParts ==
  ASSUME RemindersTypes, run # Idle
  PROVE  /\ run = [loaded |-> run.loaded, copy |-> run.copy, now |-> run.now, todo |-> run.todo]
         /\ run.loaded \in Stores /\ run.copy \in Stores /\ run.now \in Nat
         /\ run.todo \in SUBSET Policies
  BY DEF RemindersTypes, RunRecord

LEMMA CommandParts ==
  ASSUME RemindersTypes, command # Idle
  PROVE  command.loaded \in Stores /\ command.draft \in Nat /\ command.now \in Nat
  BY DEF RemindersTypes, CommandRecord

(* Alike in what they owe.                                                 *)
Alike(s, t) == s.drafts = t.drafts /\ \A p \in Policies, k \in Nat : Fired(s, p, k) <=> Fired(t, p, k)

LEMMA AlikeOwe ==
  ASSUME NEW s \in Stores, NEW t \in Stores, Alike(s, t)
  PROVE  /\ OneDraft(s) => OneDraft(t)
         /\ \A p \in Policies, k \in Nat :
              Owed(s, p, k) = Owed(t, p, k) /\ (Offered(s, p, k) <=> Offered(t, p, k))
  <1>1. \A i \in 1..Len(s.drafts) : s.drafts[i].policy \in Policies /\ s.drafts[i].key \in Nat
    BY StoreShape DEF Draft
  <1>2. OneDraft(s) => OneDraft(t)
    BY <1>1 DEF OneDraft, Alike, Of
  <1>3. \A p \in Policies, k \in Nat : Offered(s, p, k) <=> Offered(t, p, k)
    BY DEF Offered, Alike, Of
  <1> QED BY <1>2, <1>3 DEF Alike, Owed

LEMMA KeysAreNat == Keys \subseteq Nat
  BY ReminderAssumption DEF Keys, ReminderAssumption

LEMMA OwedIsBit == \A s, p, k : Owed(s, p, k) \in {0, 1}
  BY DEF Owed

(* One more time that a fire reached people.                               *)
LEMMA ReachedOnce ==
  ASSUME RemindersTypes, NEW p \in Policies, NEW n,
         reached' = [reached EXCEPT ![p][n] = @ + 1]
  PROVE  /\ reached' \in [Policies -> [Keys -> Nat]]
         /\ \A q \in Policies, k \in Keys :
              reached'[q][k] = IF q = p /\ k = n THEN reached[q][k] + 1 ELSE reached[q][k]
  <1>1. reached \in [Policies -> [Keys -> Nat]]
    BY DEF RemindersTypes
  <1> DEFINE f == [reached[p] EXCEPT ![n] = @ + 1]
  <1>2. reached[p] \in [Keys -> Nat]
    BY <1>1
  <1>4. \A k \in Keys : f[k] = IF k = n THEN reached[p][k] + 1 ELSE reached[p][k]
    BY <1>2
  <1>5. \A k \in Keys : f[k] \in Nat
    BY <1>2, <1>4
  <1>6. f \in [Keys -> Nat]
    BY <1>2, <1>5
  <1>3. reached' = [reached EXCEPT ![p] = f]
    OBVIOUS
  <1> HIDE DEF f
  <1> QED BY <1>1, <1>3, <1>4, <1>6

-----------------------------------------------------------------------------

LEMMA RemindersInitInv == RemindersInit => RemindersInv
  <1> SUFFICES ASSUME RemindersInit PROVE RemindersInv
    OBVIOUS
  <1>1. store \in Stores /\ store.drafts = <<>> /\ Len(store.drafts) = 0
    <2>1. <<>> \in Seq(Policy) /\ <<>> \in Seq(Draft) /\ Len(<<>>) = 0
      BY EmptySeq
    <2>2. <<>> \in [{} -> Policy]
      <3>1. <<>> \in [1..0 -> Policy]
        BY <2>1, SeqDef, LenProperties
      <3>2. 1..0 = {}
        OBVIOUS
      <3> QED BY <3>1, <3>2
    <2>3. store = [policies |-> <<>>, drafts |-> <<>>]
      BY DEF RemindersInit
    <2> QED BY <2>1, <2>2, <2>3, StoreMade
  <1>2. reached \in [Policies -> [Keys -> Nat]] /\ \A p \in Policies, k \in Keys : reached[p][k] = 0
    BY DEF RemindersInit
  <1>3. run = Idle /\ command = Idle /\ losses = 0
    BY DEF RemindersInit
  <1>4. RemindersTypes
    BY <1>1, <1>2 DEF RemindersInit, RemindersTypes
  <1>5. DraftsSound
    BY <1>1, <1>3 DEF DraftsSound, OneDraft
  <1>6. AllBalanced
    BY <1>2, <1>3, OwedIsBit DEF AllBalanced, OfPass, Balanced
  <1> QED BY <1>3, <1>4, <1>5, <1>6 DEF RemindersInv, CopyFollows, FiredStays, SendsPending

-----------------------------------------------------------------------------
(* Commands                                                                *)

(* The file is edited at once: no fire is made or unmade, and no draft     *)
(* becomes one that may be sent.                                           *)
LEMMA EditKeeps ==
  ASSUME RemindersInv, store' \in Stores, OneDraft(store'),
         \A p \in Policies, k \in Nat :
            /\ Fired(store', p, k) <=> Fired(store, p, k)
            /\ Offered(store', p, k) => Offered(store, p, k),
         edits' \in Nat, closed' \in SUBSET Policies, clock' \in Nat,
         UNCHANGED <<run, command, crashes, reached, losses>>
  PROVE  RemindersInv'
  <1> USE DEF RemindersInv
  <1>1. RemindersTypes'
    BY DEF RemindersTypes
  <1>2. DraftsSound'
    BY DEF DraftsSound, OneDraft, Fired, Of
  <1>3. CopyFollows' /\ SendsPending'
    BY DEF CopyFollows, SendsPending, Fired, Offered, Of
  <1>4. FiredStays'
    BY DEF FiredStays, Fired
  <1>5. AllBalanced'
    <2> SUFFICES ASSUME NEW p \in Policies, NEW k \in Keys
                 PROVE  (/\ OfPass(p, k) => Balanced(run.copy, p, k)
                         /\ ~OfPass(p, k) => Balanced(store, p, k))'
      BY DEF AllBalanced
    <2>1. OfPass(p, k)' <=> OfPass(p, k)
      BY DEF OfPass, Fired
    <2>2. k \in Nat /\ reached[p][k] \in Nat /\ losses \in Nat
      BY KeysAreNat DEF RemindersTypes
    <2>3. Owed(store', p, k) <= Owed(store, p, k)
      BY <2>2 DEF Owed
    <2>4. Owed(store, p, k) \in Nat /\ Owed(store', p, k) \in Nat
      BY OwedIsBit
    <2>5. Balanced(run.copy, p, k) => Balanced(run.copy, p, k)'
      BY DEF Balanced, Owed, Fired, Offered, Of
    <2>6. Balanced(store, p, k) => reached'[p][k] + Owed(store', p, k) <= 1 + losses'
      BY <2>2, <2>3, <2>4 DEF Balanced
    <2>7. Balanced(store, p, k) => Balanced(store, p, k)'
      BY <2>6 DEF Balanced, Owed, Fired, Offered, Of
    <2> QED BY <2>1, <2>5, <2>7 DEF AllBalanced
  <1> QED BY <1>1, <1>2, <1>3, <1>4, <1>5

LEMMA AlikeEdit ==
  ASSUME RemindersInv, store' \in Stores, Alike(store, store'),
         edits' \in Nat, closed' \in SUBSET Policies, clock' \in Nat,
         UNCHANGED <<run, command, crashes, reached, losses>>
  PROVE  RemindersInv'
  <1>1. store \in Stores /\ OneDraft(store)
    BY DEF RemindersInv, RemindersTypes, DraftsSound
  <1>2. OneDraft(store')
    BY <1>1, AlikeOwe
  <1>3. \A p \in Policies, k \in Nat :
            /\ Fired(store', p, k) <=> Fired(store, p, k)
            /\ Offered(store', p, k) => Offered(store, p, k)
    BY <1>1, AlikeOwe DEF Alike
  <1> QED BY <1>2, <1>3, EditKeeps

LEMMA RunTodo ==
  ASSUME NEW l, NEW c, NEW n, NEW t, NEW x
  PROVE  [[loaded |-> l, copy |-> c, now |-> n, todo |-> t] EXCEPT !.todo = x] =
           [loaded |-> l, copy |-> c, now |-> n, todo |-> x]
  OBVIOUS
LEMMA RunCopy ==
  ASSUME NEW l, NEW c, NEW n, NEW t, NEW x
  PROVE  [[loaded |-> l, copy |-> c, now |-> n, todo |-> t] EXCEPT !.copy = x] =
           [loaded |-> l, copy |-> x, now |-> n, todo |-> t]
  OBVIOUS
LEMMA HandledParts ==
  ASSUME RemindersTypes, run # Idle, NEW p \in DOMAIN run.copy.policies, NEW q \in Policy,
         NEW d \in Seq(Draft),
         Handled(p, q, d)
  PROVE  run' = [loaded |-> run.loaded,
                 copy |-> [policies |-> [run.copy.policies EXCEPT ![p] = q], drafts |-> d],
                 now |-> run.now, todo |-> run.todo \ {p}]
  <1> DEFINE t == run.todo \ {p}
             f == [run.copy.policies EXCEPT ![p] = q]
             r1 == [run EXCEPT !.todo = t]
             c2 == [run.copy EXCEPT !.policies = f]
             r2 == [r1 EXCEPT !.copy = c2]
             c3 == [c2 EXCEPT !.drafts = d]
             r3 == [r2 EXCEPT !.copy = c3]
  <1>1. run = [loaded |-> run.loaded, copy |-> run.copy, now |-> run.now, todo |-> run.todo]
        /\ run.copy \in Stores
    BY RunParts
  <1>2. run.copy = [policies |-> run.copy.policies, drafts |-> run.copy.drafts]
    BY <1>1, StoreShape
  <1>9. run' = r3
    BY <1>1 DEF Handled
  <1> HIDE DEF t, f
  <1>3. r1 = [loaded |-> run.loaded, copy |-> run.copy, now |-> run.now, todo |-> t]
    BY <1>1, RunTodo
  <1>4. c2 = [policies |-> f, drafts |-> run.copy.drafts]
    BY <1>2, StorePolicies
  <1> HIDE DEF c2
  <1>5. c3 = [policies |-> f, drafts |-> d]
    BY <1>4, StoreDrafts
  <1> HIDE DEF c3, r1
  <1>6. r2 = [loaded |-> run.loaded, copy |-> c2, now |-> run.now, todo |-> t]
    BY <1>3, RunCopy
  <1> HIDE DEF r2
  <1>7. r3 = [loaded |-> run.loaded, copy |-> c3, now |-> run.now, todo |-> t]
    BY <1>6, RunCopy
  <1> HIDE DEF r3
  <1> QED BY <1>5, <1>7, <1>9 DEF t, f

LEMMA HandledRun ==
  ASSUME RemindersTypes, run # Idle, NEW p \in DOMAIN run.copy.policies, NEW q \in Policy,
         NEW d \in Seq(Draft),
         Handled(p, q, d)
  PROVE  /\ run' \in RunRecord /\ run' # Idle
         /\ run'.loaded = run.loaded /\ run'.todo = run.todo \ {p}
         /\ run'.copy \in Stores /\ run'.copy.drafts = d
         /\ DOMAIN run'.copy.policies = DOMAIN run.copy.policies
         /\ \A a \in DOMAIN run.copy.policies :
              run'.copy.policies[a] = IF a = p THEN q ELSE run.copy.policies[a]
  <1> DEFINE f == [run.copy.policies EXCEPT ![p] = q]
             c == [policies |-> f, drafts |-> d]
             t == run.todo \ {p}
  <1>1. run.loaded \in Stores /\ run.now \in Nat /\ t \in SUBSET Policies /\ run.copy \in Stores
    BY RunParts
  <1>2. run.copy.policies \in [DOMAIN run.copy.policies -> Policy] /\ DOMAIN run.copy.policies \in SUBSET Policies
    BY <1>1, StoreShape
  <1>3. f \in [DOMAIN run.copy.policies -> Policy]
        /\ \A a \in DOMAIN run.copy.policies : f[a] = IF a = p THEN q ELSE run.copy.policies[a]
    BY <1>2
  <1>4. run' = [loaded |-> run.loaded, copy |-> c, now |-> run.now, todo |-> t]
    BY HandledParts
  <1> HIDE DEF f
  <1>5. c \in Stores
    BY <1>2, <1>3, StoreMade
  <1>6. c.policies = f /\ c.drafts = d
    OBVIOUS
  <1> HIDE DEF c, t
  <1>7. run' \in RunRecord
    BY <1>1, <1>4, <1>5 DEF RunRecord
  <1>8. run' # Idle
    BY <1>7, IdleAssumption DEF IdleAssumption
  <1>9. run'.loaded = run.loaded /\ run'.copy = c /\ run'.todo = t
    BY <1>4
  <1> QED BY <1>3, <1>5, <1>6, <1>7, <1>8, <1>9 DEF t

(* The fire a pass is about to make is its own, and has no draft yet.      *)
LEMMA FiringParts ==
  ASSUME RemindersInv, NEW p, Firing(p)
  PROVE  /\ p \in Policies /\ p \in DOMAIN run.copy.policies /\ run.copy.policies[p] \in Policy
         /\ run.copy.policies[p].next \in Nat
         /\ run.copy \in Stores /\ run.loaded \in Stores /\ run.now \in Nat
         /\ ~Fired(run.copy, p, run.copy.policies[p].next)
         /\ OfPass(p, run.copy.policies[p].next)
         /\ \A i \in 1..Len(run.copy.drafts) : ~Of(run.copy, i, p, run.copy.policies[p].next)
         /\ Owed(run.copy, p, run.copy.policies[p].next) = 1
  <1> DEFINE n == run.copy.policies[p].next
  <1>1. run # Idle /\ p \in run.todo
    BY DEF Firing
  <1>2. run.todo \in SUBSET Policies /\ run.copy \in Stores /\ run.loaded \in Stores /\ run.now \in Nat
    BY <1>1, RunParts DEF RemindersInv
  <1>3. p \in DOMAIN run.copy.policies /\ n \notin run.copy.policies[p].keys
    BY <1>1 DEF RemindersInv, CopyFollows
  <1>4. run.copy.policies[p] \in Policy
    BY <1>2, <1>3, StoreShape
  <1>5. n \in Nat
    BY <1>4 DEF Policy
  <1>6. ~Fired(run.copy, p, n)
    BY <1>3 DEF Fired
  <1> HIDE DEF n
  <1>7. OfPass(p, n)
    BY <1>1, <1>2, <1>5, <1>6 DEF RemindersInv, CopyFollows, OfPass
  <1>8. \A i \in 1..Len(run.copy.drafts) : ~Of(run.copy, i, p, n)
    BY <1>1, <1>6 DEF RemindersInv, DraftsSound, OneDraft, Of
  <1>9. Owed(run.copy, p, n) = 1
    BY <1>6 DEF Owed
  <1> QED BY <1>1, <1>2, <1>3, <1>4, <1>5, <1>6, <1>7, <1>8, <1>9 DEF n

(* A step of the pass in its own copy.                                     *)
LEMMA PassStep ==
  ASSUME RemindersInv, run # Idle, run' # Idle, run' \in RunRecord, run'.loaded = run.loaded,
         UNCHANGED <<store, command, closed, clock, edits, crashes>>,
         reached' \in [Policies -> [Keys -> Nat]], losses' \in Nat, losses' >= losses,
         OneDraft(run'.copy), CopyFollows',
         \A p \in Policies, k \in Keys :
            /\ OfPass(p, k) => reached'[p][k] + Owed(run'.copy, p, k) <= 1 + losses'
            /\ ~OfPass(p, k) => reached'[p][k] = reached[p][k]
  PROVE  RemindersInv'
  <1> USE DEF RemindersInv
  <1>1. RemindersTypes'
    BY DEF RemindersTypes
  <1>2. DraftsSound'
    BY DEF DraftsSound, OneDraft, Fired, Of
  <1>3. SendsPending'
    BY DEF SendsPending
  <1>4. FiredStays'
    BY DEF FiredStays, Fired
  <1>5. AllBalanced'
    <2> SUFFICES ASSUME NEW p \in Policies, NEW k \in Keys
                 PROVE  (/\ OfPass(p, k) => Balanced(run.copy, p, k)
                         /\ ~OfPass(p, k) => Balanced(store, p, k))'
      BY DEF AllBalanced
    <2>1. OfPass(p, k)' <=> OfPass(p, k)
      BY DEF OfPass, Fired
    <2>2. reached[p][k] \in Nat /\ reached'[p][k] \in Nat /\ losses \in Nat
      BY DEF RemindersTypes
    <2>3. Owed(store, p, k) \in Nat
      BY OwedIsBit
    <2>4. OfPass(p, k) => Balanced(run.copy, p, k)'
      BY DEF Balanced, Owed, Fired, Offered, Of
    <2>5. Balanced(store, p, k) /\ ~OfPass(p, k) => reached'[p][k] + Owed(store, p, k) <= 1 + losses'
      BY <2>2, <2>3 DEF Balanced
    <2>6. Owed(store, p, k)' = Owed(store, p, k)
      BY DEF Owed, Fired, Offered, Of
    <2>7. Balanced(store, p, k) /\ ~OfPass(p, k) => Balanced(store, p, k)'
      BY <2>5, <2>6 DEF Balanced
    <2> QED BY <2>1, <2>4, <2>7 DEF AllBalanced
  <1> QED BY <1>1, <1>2, <1>3, <1>4, <1>5

(* The pass leaves a policy unfired.                                       *)
LEMMA Unfired ==
  ASSUME RemindersInv, NEW p, Firing(p), NEW q \in Policy, q.keys = run.copy.policies[p].keys,
         Handled(p, q, run.copy.drafts),
         UNCHANGED <<store, command, closed, clock, edits, crashes, reached, losses>>
  PROVE  RemindersInv'
  <1>1. run # Idle /\ RemindersTypes /\ run.copy \in Stores /\ p \in DOMAIN run.copy.policies
    BY FiringParts DEF Firing, RemindersInv
  <1>2. run.copy.drafts \in Seq(Draft)
    BY <1>1, StoreShape
  <1>3. /\ run' \in RunRecord /\ run' # Idle
        /\ run'.loaded = run.loaded /\ run'.todo = run.todo \ {p}
        /\ run'.copy \in Stores /\ run'.copy.drafts = run.copy.drafts
        /\ DOMAIN run'.copy.policies = DOMAIN run.copy.policies
        /\ \A a \in DOMAIN run.copy.policies :
              run'.copy.policies[a] = IF a = p THEN q ELSE run.copy.policies[a]
    BY <1>1, <1>2, HandledRun
  <1>4. Alike(run.copy, run'.copy)
    BY <1>3 DEF Alike, Fired
  <1>5. /\ OneDraft(run.copy) => OneDraft(run'.copy)
        /\ \A a \in Policies, k \in Nat :
              Owed(run.copy, a, k) = Owed(run'.copy, a, k) /\ (Offered(run.copy, a, k) <=> Offered(run'.copy, a, k))
    BY <1>1, <1>3, <1>4, AlikeOwe
  <1>6. OneDraft(run'.copy)
    BY <1>1, <1>5 DEF RemindersInv, DraftsSound
  <1>7. CopyFollows'
    <2>1. \A a \in Policies, k \in Nat : Fired(run'.loaded, a, k) =>
             Fired(run'.copy, a, k) /\ (Offered(run'.copy, a, k) => Offered(run'.loaded, a, k))
      BY <1>1, <1>3, <1>4, <1>5 DEF RemindersInv, CopyFollows, Alike
    <2>2. \A a \in run'.todo : a \in DOMAIN run'.copy.policies
                               /\ run'.copy.policies[a].next \notin run'.copy.policies[a].keys
      BY <1>1, <1>3 DEF RemindersInv, CopyFollows
    <2> QED BY <2>1, <2>2 DEF CopyFollows, Fired, Offered, Of
  <1>8. losses \in Nat /\ reached \in [Policies -> [Keys -> Nat]]
    BY <1>1 DEF RemindersTypes
  <1>9. \A a \in Policies, k \in Keys : OfPass(a, k) => reached[a][k] + Owed(run'.copy, a, k) <= 1 + losses
    BY <1>5, KeysAreNat DEF RemindersInv, AllBalanced, Balanced
  <1>10. losses' \in Nat /\ losses' >= losses /\ reached' \in [Policies -> [Keys -> Nat]]
    BY <1>8
  <1> QED BY <1>1, <1>3, <1>6, <1>7, <1>9, <1>10, PassStep

LEMMA RunSkipsKeeps == ASSUME RemindersInv, NEW p, RunSkips(p) PROVE RemindersInv'
  <1> DEFINE q == [run.copy.policies[p] EXCEPT !.enabled = FALSE, !.why = "task"]
  <1>1. Firing(p)
    BY DEF RunSkips
  <1>2. run.copy.policies[p] \in Policy
    BY <1>1, FiringParts
  <1>3. q \in Policy /\ q.keys = run.copy.policies[p].keys
    BY <1>2 DEF Policy
  <1> QED BY <1>1, <1>3, Unfired DEF RunSkips

LEMMA RunIsRefusedKeeps == ASSUME RemindersInv, NEW p, RunIsRefused(p) PROVE RemindersInv'
  <1>1. Firing(p)
    BY DEF RunIsRefused
  <1>2. run.copy.policies[p] \in Policy
    BY <1>1, FiringParts
  <1> QED BY <1>1, <1>2, Unfired DEF RunIsRefused

LEMMA AdvancedPolicy ==
  ASSUME NEW q \in Policy, NEW now \in Nat
  PROVE  Advanced(q, now) \in Policy /\ Advanced(q, now).keys = q.keys \cup {q.next}
  <1> DEFINE f == [q EXCEPT !.fired = @ + 1, !.keys = @ \cup {q.next}]
  <1>1. q.fired \in Nat /\ q.next \in Nat /\ q.keys \in SUBSET Nat
    BY DEF Policy
  <1>2. f \in Policy /\ f.keys = q.keys \cup {q.next}
    <2> DEFINE count == q.fired + 1
               keys == q.keys \cup {q.next}
    <2>1. count \in Nat /\ keys \in SUBSET Nat
      BY <1>1
    <2>2. f = [q EXCEPT !.fired = count, !.keys = keys]
      BY DEF Policy
    <2> HIDE DEF count, keys, f
    <2>3. f \in Policy /\ f.keys = keys
      BY <2>1, <2>2 DEF Policy
    <2> QED BY <2>3 DEF keys
  <1> HIDE DEF f
  <1>3. now + Cadence \in Nat
    BY ReminderAssumption DEF ReminderAssumption
  <1>4. [f EXCEPT !.enabled = FALSE, !.why = "max_fires"] \in Policy
        /\ [f EXCEPT !.enabled = FALSE, !.why = "max_fires"].keys = f.keys
    BY <1>2 DEF Policy
  <1>5. [f EXCEPT !.next = now + Cadence] \in Policy /\ [f EXCEPT !.next = now + Cadence].keys = f.keys
    BY <1>2, <1>3 DEF Policy
  <1>6. CASE Completed(f)
    <2>1. Advanced(q, now) = [f EXCEPT !.enabled = FALSE, !.why = "max_fires"]
      BY <1>6 DEF Advanced, f
    <2> QED BY <2>1, <1>2, <1>4
  <1>7. CASE ~Completed(f)
    <2>1. Advanced(q, now) = [f EXCEPT !.next = now + Cadence]
      BY <1>7 DEF Advanced, f
    <2> QED BY <2>1, <1>2, <1>5
  <1> QED BY <1>6, <1>7

(* The pass fires a policy, and its copy has the drafts d.                 *)
LEMMA FiredCopy ==
  ASSUME RemindersInv, NEW p, Firing(p), NEW d \in Seq(Draft),
         Handled(p, Advanced(run.copy.policies[p], run.now), d)
  PROVE  /\ run' \in RunRecord /\ run' # Idle /\ run'.loaded = run.loaded /\ run'.todo = run.todo \ {p}
         /\ run'.copy \in Stores /\ run'.copy.drafts = d
         /\ \A a \in Policies, k \in Nat : Fired(run'.copy, a, k) <=>
               Fired(run.copy, a, k) \/ (a = p /\ k = run.copy.policies[p].next)
         /\ \A a \in run'.todo : a \in DOMAIN run'.copy.policies
                                /\ run'.copy.policies[a].next \notin run'.copy.policies[a].keys
  <1> DEFINE q == Advanced(run.copy.policies[p], run.now)
             n == run.copy.policies[p].next
  <1>1. run # Idle /\ RemindersTypes /\ p \in DOMAIN run.copy.policies
        /\ run.copy.policies[p] \in Policy /\ run.now \in Nat /\ p \in Policies
    BY FiringParts DEF Firing, RemindersInv
  <1>2. q \in Policy /\ q.keys = run.copy.policies[p].keys \cup {n}
    BY <1>1, AdvancedPolicy
  <1> HIDE DEF q, n
  <1>3. /\ run' \in RunRecord /\ run' # Idle
        /\ run'.loaded = run.loaded /\ run'.todo = run.todo \ {p}
        /\ run'.copy \in Stores /\ run'.copy.drafts = d
        /\ DOMAIN run'.copy.policies = DOMAIN run.copy.policies
        /\ \A a \in DOMAIN run.copy.policies :
              run'.copy.policies[a] = IF a = p THEN q ELSE run.copy.policies[a]
    BY <1>1, <1>2, HandledRun DEF q
  <1>4. \A a \in Policies, k \in Nat :
           Fired(run'.copy, a, k) <=> Fired(run.copy, a, k) \/ (a = p /\ k = n)
    <2> SUFFICES ASSUME NEW a \in Policies, NEW k \in Nat
                 PROVE  Fired(run'.copy, a, k) <=> Fired(run.copy, a, k) \/ (a = p /\ k = n)
      OBVIOUS
    <2>1. CASE a = p
      BY <2>1, <1>1, <1>2, <1>3 DEF Fired
    <2>2. CASE a # p
      BY <2>2, <1>3 DEF Fired
    <2> QED BY <2>1, <2>2
  <1>5. \A a \in run'.todo : a \in DOMAIN run'.copy.policies
                            /\ run'.copy.policies[a].next \notin run'.copy.policies[a].keys
    BY <1>1, <1>3 DEF RemindersInv, CopyFollows
  <1> QED BY <1>3, <1>4, <1>5 DEF n

LEMMA RunSendsKeeps == ASSUME RemindersInv, NEW p, RunSends(p) PROVE RemindersInv'
  <1> DEFINE n == run.copy.policies[p].next
  <1>1. Firing(p) /\ run # Idle /\ RemindersTypes
    BY DEF RunSends, Firing, RemindersInv
  <1>2. /\ p \in Policies /\ run.copy \in Stores /\ run.loaded \in Stores /\ n \in Nat
        /\ OfPass(p, n) /\ Owed(run.copy, p, n) = 1
        /\ \A i \in 1..Len(run.copy.drafts) : ~Of(run.copy, i, p, n)
    BY <1>1, FiringParts
  <1>3. run.copy.drafts \in Seq(Draft)
    BY <1>2, StoreShape
  <1>4. /\ run' \in RunRecord /\ run' # Idle /\ run'.loaded = run.loaded
        /\ run'.copy \in Stores /\ run'.copy.drafts = run.copy.drafts
        /\ \A a \in Policies, k \in Nat : Fired(run'.copy, a, k) <=> Fired(run.copy, a, k) \/ (a = p /\ k = n)
        /\ \A a \in run'.todo : a \in DOMAIN run'.copy.policies
                               /\ run'.copy.policies[a].next \notin run'.copy.policies[a].keys
    BY <1>1, <1>3, FiredCopy DEF RunSends
  <1>5. \A a \in Policies, k \in Nat : Offered(run'.copy, a, k) <=> Offered(run.copy, a, k)
    BY <1>4 DEF Offered, Of
  <1>6. OneDraft(run.copy)
    BY <1>1 DEF RemindersInv, DraftsSound
  <1>7. \A i \in 1..Len(run.copy.drafts) : run.copy.drafts[i].policy \in Policies /\ run.copy.drafts[i].key \in Nat
    BY <1>2, StoreShape DEF Draft
  <1>8. OneDraft(run'.copy)
    BY <1>4, <1>6, <1>7 DEF OneDraft, Of
  <1>9. CopyFollows'
    <2>1. \A a \in Policies, k \in Nat : Fired(run'.loaded, a, k) =>
             Fired(run'.copy, a, k) /\ (Offered(run'.copy, a, k) => Offered(run'.loaded, a, k))
      BY <1>1, <1>4, <1>5 DEF RemindersInv, CopyFollows
    <2> QED BY <2>1, <1>4 DEF CopyFollows, Fired, Offered, Of
  <1>10. reached' = [reached EXCEPT ![p][n] = @ + 1]
    BY DEF RunSends, Reaches
  <1>11. UNCHANGED <<store, command, closed, clock, edits, crashes, losses>>
    BY DEF RunSends
  <1> HIDE DEF n
  <1>12. /\ reached' \in [Policies -> [Keys -> Nat]]
         /\ \A a \in Policies, k \in Keys :
              reached'[a][k] = IF a = p /\ k = n THEN reached[a][k] + 1 ELSE reached[a][k]
    BY <1>1, <1>2, <1>10, ReachedOnce
  <1>13. losses \in Nat /\ reached \in [Policies -> [Keys -> Nat]]
    BY <1>1 DEF RemindersTypes
  <1>14. ASSUME NEW a \in Policies, NEW k \in Keys
         PROVE  /\ OfPass(a, k) => reached'[a][k] + Owed(run'.copy, a, k) <= 1 + losses'
                /\ ~OfPass(a, k) => reached'[a][k] = reached[a][k]
    <2>1. k \in Nat /\ reached[a][k] \in Nat
      BY <1>13, KeysAreNat
    <2>2. OfPass(a, k) => reached[a][k] + Owed(run.copy, a, k) <= 1 + losses
      BY DEF RemindersInv, AllBalanced, Balanced
    <2>3. CASE a = p /\ k = n
      <3>1. Owed(run'.copy, a, k) = 0
        BY <2>1, <2>3, <1>2, <1>4, <1>5 DEF Owed, Offered
      <3>2. reached'[a][k] = reached[a][k] + 1
        BY <2>3, <1>12
      <3> QED BY <3>1, <3>2, <2>1, <2>2, <2>3, <1>2, <1>11, <1>13
    <2>4. CASE ~(a = p /\ k = n)
      <3>1. Owed(run'.copy, a, k) = Owed(run.copy, a, k)
        BY <2>1, <2>4, <1>4, <1>5 DEF Owed
      <3>2. reached'[a][k] = reached[a][k]
        BY <2>4, <1>12
      <3> QED BY <3>1, <3>2, <2>2, <1>11
    <2> QED BY <2>3, <2>4
  <1>15. losses' \in Nat /\ losses' >= losses
    BY <1>11, <1>13
  <1> QED BY <1>1, <1>4, <1>8, <1>9, <1>11, <1>12, <1>14, <1>15, PassStep

LEMMA RunDraftsKeeps == ASSUME RemindersInv, NEW p, RunDrafts(p) PROVE RemindersInv'
  <1> DEFINE n == run.copy.policies[p].next
             s == run.copy.drafts
             new == [policy |-> p, key |-> n, status |-> "pending"]
  <1>1. Firing(p) /\ run # Idle /\ RemindersTypes
    BY DEF RunDrafts, Firing, RemindersInv
  <1>2. /\ p \in Policies /\ run.copy \in Stores /\ run.loaded \in Stores /\ n \in Nat
        /\ OfPass(p, n) /\ Owed(run.copy, p, n) = 1
        /\ \A i \in 1..Len(s) : ~Of(run.copy, i, p, n)
    BY <1>1, FiringParts
  <1>3. s \in Seq(Draft) /\ new \in Draft
    BY <1>2, StoreShape DEF Draft
  <1>4. Drafted(p) = Append(s, new)
    BY DEF Drafted
  <1> HIDE DEF n, s, new
  <1>5. /\ Drafted(p) \in Seq(Draft) /\ Len(s) \in Nat /\ Len(Drafted(p)) = Len(s) + 1
        /\ \A i \in 1..Len(s) : Drafted(p)[i] = s[i]
        /\ Drafted(p)[Len(s) + 1] = new
    BY <1>3, <1>4, AppendProperties, LenProperties
  <1>6. /\ run' \in RunRecord /\ run' # Idle /\ run'.loaded = run.loaded
        /\ run'.copy \in Stores /\ run'.copy.drafts = Drafted(p)
        /\ \A a \in Policies, k \in Nat : Fired(run'.copy, a, k) <=> Fired(run.copy, a, k) \/ (a = p /\ k = n)
        /\ \A a \in run'.todo : a \in DOMAIN run'.copy.policies
                               /\ run'.copy.policies[a].next \notin run'.copy.policies[a].keys
    BY <1>1, <1>5, FiredCopy DEF RunDrafts, n
  <1>7. /\ new.policy = p /\ new.key = n
        /\ \A i \in 1..Len(s) : s[i].policy \in Policies /\ s[i].key \in Nat
    BY <1>2, StoreShape DEF Draft, s, new
  <1>8. OneDraft(run.copy)
    BY <1>1 DEF RemindersInv, DraftsSound
  <1>9. \A i \in 1..Len(Drafted(p)) :
           (i \in 1..Len(s) /\ run'.copy.drafts[i] = s[i])
           \/ (i = Len(s) + 1 /\ run'.copy.drafts[i] = new)
    BY <1>5, <1>6
  <1>10. OneDraft(run'.copy)
    <2> SUFFICES ASSUME NEW i \in 1..Len(Drafted(p)), NEW j \in 1..Len(Drafted(p))
                 PROVE  /\ Fired(run'.copy, run'.copy.drafts[i].policy, run'.copy.drafts[i].key)
                        /\ Of(run'.copy, j, run'.copy.drafts[i].policy, run'.copy.drafts[i].key) => i = j
      BY <1>6 DEF OneDraft
    <2>1. CASE i \in 1..Len(s) /\ run'.copy.drafts[i] = s[i]
      <3>1. Fired(run.copy, s[i].policy, s[i].key)
        BY <2>1, <1>8 DEF OneDraft, s
      <3>2. CASE j \in 1..Len(s) /\ run'.copy.drafts[j] = s[j]
        BY <3>1, <3>2, <2>1, <1>6, <1>7, <1>8 DEF OneDraft, Of, s
      <3>3. CASE j = Len(s) + 1 /\ run'.copy.drafts[j] = new
        BY <3>1, <3>3, <2>1, <1>2, <1>6, <1>7 DEF Of, s
      <3> QED BY <3>2, <3>3, <1>9
    <2>2. CASE i = Len(s) + 1 /\ run'.copy.drafts[i] = new
      <3>1. Fired(run'.copy, p, n)
        BY <1>2, <1>6 DEF n
      <3>2. CASE j \in 1..Len(s) /\ run'.copy.drafts[j] = s[j]
        BY <3>1, <3>2, <2>2, <1>2, <1>7 DEF Of, s
      <3>3. CASE j = Len(s) + 1 /\ run'.copy.drafts[j] = new
        BY <3>1, <3>3, <2>2, <1>7
      <3> QED BY <3>2, <3>3, <1>9
    <2> QED BY <2>1, <2>2, <1>9
  <1>11. \A a \in Policies, k \in Nat : ~(a = p /\ k = n) => (Offered(run'.copy, a, k) <=> Offered(run.copy, a, k))
    <2> SUFFICES ASSUME NEW a \in Policies, NEW k \in Nat, ~(a = p /\ k = n)
                 PROVE  Offered(run'.copy, a, k) <=> Offered(run.copy, a, k)
      OBVIOUS
    <2>1. Offered(run'.copy, a, k) => Offered(run.copy, a, k)
      BY <1>6, <1>7, <1>9 DEF Offered, Of, s
    <2>2. 1..Len(s) \subseteq 1..Len(Drafted(p))
      BY <1>5
    <2>3. Offered(run.copy, a, k) => Offered(run'.copy, a, k)
      BY <2>2, <1>5, <1>6 DEF Offered, Of, s
    <2> QED BY <2>1, <2>3
  <1>12. CopyFollows'
    <2>1. ASSUME NEW a \in Policies, NEW k \in Nat, Fired(run.loaded, a, k)
          PROVE  Fired(run'.copy, a, k) /\ (Offered(run'.copy, a, k) => Offered(run.loaded, a, k))
      <3>1. ~(a = p /\ k = n)
        BY <2>1, <1>2 DEF OfPass, n
      <3> QED BY <3>1, <2>1, <1>1, <1>6, <1>11 DEF RemindersInv, CopyFollows
    <2>2. \A a \in Policies, k \in Nat : Fired(run'.loaded, a, k) =>
             Fired(run'.copy, a, k) /\ (Offered(run'.copy, a, k) => Offered(run'.loaded, a, k))
      BY <2>1, <1>6
    <2> QED BY <2>2, <1>6 DEF CopyFollows, Fired, Offered, Of
  <1>13. losses \in Nat /\ reached \in [Policies -> [Keys -> Nat]]
    BY <1>1 DEF RemindersTypes
  <1>14. UNCHANGED <<store, command, closed, clock, edits, crashes>>
    BY DEF RunDrafts
  <1>15. \/ UNCHANGED <<reached, losses>>
         \/ reached' = [reached EXCEPT ![p][n] = @ + 1] /\ losses' = losses + 1
    BY DEF RunDrafts, Reaches, n
  <1>16. /\ reached' \in [Policies -> [Keys -> Nat]] /\ losses' \in Nat /\ losses' >= losses
         /\ \A a \in Policies, k \in Keys :
              \/ reached'[a][k] = reached[a][k]
              \/ a = p /\ k = n /\ reached'[a][k] = reached[a][k] + 1 /\ losses' = losses + 1
    <2>1. CASE UNCHANGED <<reached, losses>>
      BY <2>1, <1>13
    <2>2. CASE reached' = [reached EXCEPT ![p][n] = @ + 1] /\ losses' = losses + 1
      <3>1. /\ reached' \in [Policies -> [Keys -> Nat]]
            /\ \A a \in Policies, k \in Keys :
                 reached'[a][k] = IF a = p /\ k = n THEN reached[a][k] + 1 ELSE reached[a][k]
        BY <1>1, <1>2, <2>2, ReachedOnce
      <3>2. losses' \in Nat /\ losses' >= losses
        BY <2>2, <1>13
      <3> QED BY <3>1, <3>2, <2>2
    <2> QED BY <2>1, <2>2, <1>15
  <1>17. ASSUME NEW a \in Policies, NEW k \in Keys
         PROVE  /\ OfPass(a, k) => reached'[a][k] + Owed(run'.copy, a, k) <= 1 + losses'
                /\ ~OfPass(a, k) => reached'[a][k] = reached[a][k]
    <2>1. k \in Nat /\ reached[a][k] \in Nat /\ Owed(run'.copy, a, k) \in {0, 1}
      BY <1>13, KeysAreNat, OwedIsBit
    <2>2. OfPass(a, k) => reached[a][k] + Owed(run.copy, a, k) <= 1 + losses
      BY DEF RemindersInv, AllBalanced, Balanced
    <2>3. CASE a = p /\ k = n
      <3>1. OfPass(a, k) /\ reached[a][k] <= losses
        BY <2>1, <2>2, <2>3, <1>2, <1>13 DEF n
      <3> QED BY <3>1, <2>1, <1>13, <1>16
    <2>4. CASE ~(a = p /\ k = n)
      <3>1. Owed(run'.copy, a, k) = Owed(run.copy, a, k)
        BY <2>1, <2>4, <1>6, <1>11 DEF Owed
      <3>2. reached'[a][k] = reached[a][k]
        BY <2>4, <1>16
      <3>3. Owed(run.copy, a, k) \in Nat
        BY OwedIsBit
      <3> QED BY <3>1, <3>2, <3>3, <2>1, <2>2, <1>13, <1>16
    <2> QED BY <2>3, <2>4
  <1> QED BY <1>1, <1>6, <1>10, <1>12, <1>14, <1>16, <1>17, PassStep

LEMMA RefreshedPolicy ==
  ASSUME NEW q \in Policy, NEW now \in Nat
  PROVE  Refreshed(q, now) \in Policy /\ Refreshed(q, now).keys = q.keys
  <1> DEFINE w == Awake(q, now)
             on == w.paused \/ ~Completed(q)
  <1>1. w \in Policy /\ w.keys = q.keys
    BY DEF Awake, Resumed, Policy
  <1>2. on \in BOOLEAN
    BY DEF Policy
  <1> HIDE DEF w, on
  <1>3. [w EXCEPT !.enabled = on] \in Policy /\ [w EXCEPT !.enabled = on].keys = w.keys
    BY <1>1, <1>2 DEF Policy
  <1> QED BY <1>1, <1>3 DEF Refreshed, w, on

LEMMA RunLoadsKeeps == ASSUME RemindersInv, RunLoads PROVE RemindersInv'
  <1> DEFINE f == [p \in Added |-> Refreshed(store.policies[p], clock)]
             copy == [store EXCEPT !.policies = f]
             todo == {p \in Added : Due(copy.policies[p], clock)}
  <1>1. RemindersTypes /\ store \in Stores /\ clock \in Nat /\ run = Idle
    BY DEF RemindersInv, RemindersTypes, RunLoads
  <1>2. store = [policies |-> store.policies, drafts |-> store.drafts] /\ Added \in SUBSET Policies
        /\ store.policies \in [Added -> Policy] /\ store.drafts \in Seq(Draft)
    BY <1>1, StoreShape DEF Added
  <1>3. f \in [Added -> Policy] /\ \A p \in Added : f[p].keys = store.policies[p].keys
    BY <1>1, <1>2, RefreshedPolicy
  <1>4. run' = [loaded |-> store, copy |-> copy, now |-> clock, todo |-> todo]
    BY DEF RunLoads
  <1>5. UNCHANGED <<store, command, closed, clock, edits, crashes, reached, losses>>
    BY DEF RunLoads
  <1> HIDE DEF f
  <1>6. copy = [policies |-> f, drafts |-> store.drafts]
    BY <1>2, StorePolicies
  <1> HIDE DEF copy
  <1>7. copy \in Stores /\ copy.policies = f /\ copy.drafts = store.drafts
    BY <1>2, <1>3, <1>6, StoreMade
  <1>8. \A p \in todo : p \in DOMAIN copy.policies /\ copy.policies[p].next \notin copy.policies[p].keys
    BY <1>3, <1>7 DEF Due
  <1>9. todo \in SUBSET Policies
    BY <1>2
  <1> HIDE DEF todo
  <1>10. run' \in RunRecord
    BY <1>1, <1>4, <1>7, <1>9 DEF RunRecord
  <1>11. run' # Idle
    BY <1>10, IdleAssumption DEF IdleAssumption
  <1>12. run'.loaded = store /\ run'.copy = copy /\ run'.todo = todo
    BY <1>4
  <1>13. Alike(store, copy)
    BY <1>2, <1>3, <1>7 DEF Alike, Fired, Added
  <1>14. /\ OneDraft(store) => OneDraft(copy)
         /\ \A p \in Policies, k \in Nat :
              Owed(store, p, k) = Owed(copy, p, k) /\ (Offered(store, p, k) <=> Offered(copy, p, k))
    BY <1>1, <1>7, <1>13, AlikeOwe
  <1>15. RemindersTypes'
    BY <1>1, <1>5, <1>10 DEF RemindersTypes
  <1>16. DraftsSound'
    <2>1. OneDraft(store) /\ OneDraft(copy)
      BY <1>14 DEF RemindersInv, DraftsSound
    <2> QED BY <2>1, <1>5, <1>12 DEF RemindersInv, DraftsSound, OneDraft, Fired, Of
  <1>17. SendsPending'
    BY <1>5 DEF RemindersInv, SendsPending
  <1>18. CopyFollows'
    <2>1. \A p \in Policies, k \in Nat : Fired(run'.loaded, p, k) =>
             Fired(run'.copy, p, k) /\ (Offered(run'.copy, p, k) => Offered(run'.loaded, p, k))
      BY <1>12, <1>13, <1>14 DEF Alike
    <2> QED BY <2>1, <1>8, <1>12 DEF CopyFollows, Fired, Offered, Of
  <1>19. FiredStays'
    BY <1>5, <1>12 DEF RemindersInv, FiredStays, Fired
  <1>20. AllBalanced'
    <2> SUFFICES ASSUME NEW p \in Policies, NEW k \in Keys
                 PROVE  (/\ OfPass(p, k) => Balanced(run.copy, p, k)
                         /\ ~OfPass(p, k) => Balanced(store, p, k))'
      BY DEF AllBalanced
    <2>1. Balanced(store, p, k)
      BY <1>1 DEF RemindersInv, AllBalanced, OfPass
    <2>2. Owed(store, p, k) = Owed(run'.copy, p, k)
      BY <1>12, <1>14, KeysAreNat
    <2>3. Balanced(store, p, k)'
      BY <2>1, <1>5 DEF Balanced, Owed, Fired, Offered, Of
    <2>4. reached'[p][k] + Owed(run'.copy, p, k) <= 1 + losses'
      BY <2>1, <2>2, <1>5 DEF Balanced
    <2>5. Balanced(run.copy, p, k)'
      BY <2>4 DEF Balanced, Owed, Fired, Offered, Of
    <2> QED BY <2>3, <2>5
  <1> QED BY <1>15, <1>16, <1>17, <1>18, <1>19, <1>20 DEF RemindersInv

(* A step that ends the pass or a command balances the file again.         *)
LEMMA StoreStep ==
  ASSUME RemindersInv, RemindersTypes', OneDraft(store'),
         UNCHANGED run \/ run' = Idle, UNCHANGED command \/ command' = Idle, losses' >= losses,
         \A p \in Policies, k \in Nat :
            /\ command' # Idle /\ Fired(command.loaded, p, k) => Fired(store', p, k)
            /\ run' # Idle /\ ~Fired(run.loaded, p, k) => ~Fired(store', p, k),
         \A p \in Policies, k \in Keys :
            /\ run' # Idle /\ OfPass(p, k) => reached'[p][k] = reached[p][k]
            /\ ~(run' # Idle /\ OfPass(p, k)) => reached'[p][k] + Owed(store', p, k) <= 1 + losses'
  PROVE  RemindersInv'
  <1> USE DEF RemindersInv
  <1>1. DraftsSound'
    <2>1. (run # Idle => OneDraft(run.copy))'
      BY DEF DraftsSound, OneDraft, Fired, Of
    <2>2. (command # Idle => OneDraft(command.loaded))'
      BY DEF DraftsSound, OneDraft, Fired, Of
    <2>3. OneDraft(store)'
      BY DEF OneDraft, Fired, Of
    <2> QED BY <2>1, <2>2, <2>3 DEF DraftsSound
  <1>2. SendsPending'
    BY DEF SendsPending
  <1>3. CopyFollows'
    BY DEF CopyFollows, Fired, Offered, Of
  <1>4. FiredStays'
    BY DEF FiredStays, Fired
  <1>5. AllBalanced'
    <2> SUFFICES ASSUME NEW p \in Policies, NEW k \in Keys
                 PROVE  (/\ OfPass(p, k) => Balanced(run.copy, p, k)
                         /\ ~OfPass(p, k) => Balanced(store, p, k))'
      BY DEF AllBalanced
    <2>1. OfPass(p, k)' <=> run' # Idle /\ OfPass(p, k)
      BY DEF OfPass, Fired
    <2>2. reached[p][k] \in Nat /\ losses \in Nat /\ losses' \in Nat
      BY DEF RemindersTypes
    <2>3. CASE run' # Idle /\ OfPass(p, k)
      <3>1. reached[p][k] + Owed(run.copy, p, k) <= 1 + losses
        BY <2>3 DEF AllBalanced, Balanced
      <3>2. Owed(run.copy, p, k) \in Nat /\ reached'[p][k] = reached[p][k]
        BY <2>3, OwedIsBit
      <3>3. reached'[p][k] + Owed(run.copy, p, k) <= 1 + losses'
        BY <3>1, <3>2, <2>2
      <3>4. Owed(run.copy, p, k)' = Owed(run.copy, p, k)
        BY <2>3 DEF Owed, Fired, Offered, Of
      <3> QED BY <3>3, <3>4, <2>1, <2>3 DEF Balanced
    <2>4. CASE ~(run' # Idle /\ OfPass(p, k))
      <3>1. reached'[p][k] + Owed(store', p, k) <= 1 + losses'
        BY <2>4
      <3>2. Balanced(store, p, k)'
        BY <3>1 DEF Balanced, Owed, Fired, Offered, Of
      <3> QED BY <3>2, <2>1, <2>4
    <2> QED BY <2>3, <2>4
  <1> QED BY <1>1, <1>2, <1>3, <1>4, <1>5

LEMMA RunSavesKeeps == ASSUME RemindersInv, RunSaves PROVE RemindersInv'
  <1>1. /\ run # Idle /\ run' = Idle /\ store' = run.copy /\ losses' = losses + Overwrites(run.loaded)
        /\ UNCHANGED <<command, closed, clock, edits, crashes, reached>>
    BY DEF RunSaves
  <1>2. /\ RemindersTypes /\ run.copy \in Stores /\ run.loaded \in Stores
        /\ losses \in Nat /\ reached \in [Policies -> [Keys -> Nat]]
    BY <1>1, RunParts DEF RemindersInv, RemindersTypes
  <1>3. Overwrites(run.loaded) \in {0, 1} /\ (Overwrites(run.loaded) = 0 => store = run.loaded)
    BY DEF Overwrites
  <1>4. losses' \in Nat /\ losses' >= losses
    BY <1>1, <1>2, <1>3
  <1>5. RemindersTypes'
    BY <1>1, <1>2, <1>4 DEF RemindersTypes
  <1>6. OneDraft(store')
    BY <1>1 DEF RemindersInv, DraftsSound
  <1>7. \A p \in Policies, k \in Nat : command' # Idle /\ Fired(command.loaded, p, k) => Fired(store', p, k)
    BY <1>1 DEF RemindersInv, FiredStays, CopyFollows
  <1>8. ASSUME NEW p \in Policies, NEW k \in Keys
        PROVE  reached'[p][k] + Owed(store', p, k) <= 1 + losses'
    <2>1. k \in Nat /\ reached[p][k] \in Nat /\ Owed(run.copy, p, k) \in {0, 1} /\ Owed(store, p, k) \in {0, 1}
      BY <1>2, KeysAreNat, OwedIsBit
    <2>2. CASE OfPass(p, k)
      <3>1. reached[p][k] + Owed(run.copy, p, k) <= 1 + losses
        BY <2>2 DEF RemindersInv, AllBalanced, Balanced
      <3> QED BY <3>1, <2>1, <1>1, <1>2, <1>3
    <2>3. CASE ~OfPass(p, k)
      <3>1. reached[p][k] + Owed(store, p, k) <= 1 + losses
        BY <2>3 DEF RemindersInv, AllBalanced, Balanced
      <3>2. Fired(run.loaded, p, k) /\ Fired(run.copy, p, k)
            /\ (Offered(run.copy, p, k) => Offered(run.loaded, p, k))
        BY <2>1, <2>3, <1>1 DEF RemindersInv, CopyFollows, OfPass
      <3>3. store = run.loaded => Owed(run.copy, p, k) <= Owed(store, p, k)
        BY <3>2 DEF Owed
      <3> QED BY <3>1, <3>3, <2>1, <1>1, <1>2, <1>3
    <2> QED BY <2>2, <2>3
  <1> QED BY <1>1, <1>4, <1>5, <1>6, <1>7, <1>8, StoreStep

LEMMA RunCrashesKeeps == ASSUME RemindersInv, RunCrashes PROVE RemindersInv'
  <1>1. /\ run # Idle /\ run' = Idle /\ losses' = losses + 1 /\ crashes' = crashes + 1
        /\ UNCHANGED <<store, command, closed, clock, edits>>
    BY DEF RunCrashes
  <1>2. /\ RemindersTypes /\ crashes \in Nat
        /\ losses \in Nat /\ reached \in [Policies -> [Keys -> Nat]]
    BY DEF RemindersInv, RemindersTypes
  <1>3. /\ reached' \in [Policies -> [Keys -> Nat]]
        /\ \A a \in Policies, k \in Keys :
             \/ reached'[a][k] = reached[a][k]
             \/ reached'[a][k] = reached[a][k] + 1 /\ OfPass(a, k) /\ Owed(run.copy, a, k) = 1
    <2>1. CASE UNCHANGED reached
      BY <2>1, <1>2
    <2>2. CASE \E p \in run.todo : run.copy.policies[p].mode = "auto" /\ Reaches(p)
      <3>1. PICK p \in run.todo : Reaches(p)
        BY <2>2
      <3>2. Firing(p)
        BY <1>1 DEF Firing
      <3> DEFINE n == run.copy.policies[p].next
      <3>3. p \in Policies /\ OfPass(p, n) /\ Owed(run.copy, p, n) = 1
        BY <3>2, FiringParts
      <3>4. reached' = [reached EXCEPT ![p][n] = @ + 1]
        BY <3>1 DEF Reaches
      <3> HIDE DEF n
      <3>5. /\ reached' \in [Policies -> [Keys -> Nat]]
            /\ \A a \in Policies, k \in Keys :
                 reached'[a][k] = IF a = p /\ k = n THEN reached[a][k] + 1 ELSE reached[a][k]
        BY <1>2, <3>3, <3>4, ReachedOnce
      <3> QED BY <3>3, <3>5
    <2> QED BY <2>1, <2>2 DEF RunCrashes
  <1>4. losses' \in Nat /\ losses' >= losses /\ crashes' \in Nat
    BY <1>1, <1>2
  <1>5. RemindersTypes'
    BY <1>1, <1>2, <1>3, <1>4 DEF RemindersTypes
  <1>6. OneDraft(store')
    BY <1>1 DEF RemindersInv, DraftsSound
  <1>7. \A a \in Policies, k \in Nat : command' # Idle /\ Fired(command.loaded, a, k) => Fired(store', a, k)
    BY <1>1 DEF RemindersInv, FiredStays
  <1>8. ASSUME NEW a \in Policies, NEW k \in Keys
        PROVE  reached'[a][k] + Owed(store', a, k) <= 1 + losses'
    <2>1. k \in Nat /\ reached[a][k] \in Nat /\ Owed(run.copy, a, k) \in {0, 1} /\ Owed(store, a, k) \in {0, 1}
      BY <1>2, KeysAreNat, OwedIsBit
    <2>2. CASE OfPass(a, k)
      <3>1. reached[a][k] + Owed(run.copy, a, k) <= 1 + losses
        BY <2>2 DEF RemindersInv, AllBalanced, Balanced
      <3> QED BY <3>1, <2>1, <1>1, <1>2, <1>3
    <2>3. CASE ~OfPass(a, k)
      <3>1. reached[a][k] + Owed(store, a, k) <= 1 + losses
        BY <2>3 DEF RemindersInv, AllBalanced, Balanced
      <3>2. reached'[a][k] = reached[a][k]
        BY <2>3, <1>3
      <3> QED BY <3>1, <3>2, <2>1, <1>1, <1>2
    <2> QED BY <2>2, <2>3
  <1> QED BY <1>1, <1>4, <1>5, <1>6, <1>7, <1>8, StoreStep

-----------------------------------------------------------------------------
(* Commands at work                                                        *)

(* A command that holds the store it found.                                *)
LEMMA CommandLoads ==
  ASSUME RemindersInv, command' \in CommandRecord, command'.loaded = store,
         command'.draft # NoDraft => Pending(command'.draft),
         edits' \in Nat,
         UNCHANGED <<store, run, closed, clock, crashes, reached, losses>>
  PROVE  RemindersInv'
  <1> USE DEF RemindersInv
  <1>1. RemindersTypes'
    BY DEF RemindersTypes
  <1>2. DraftsSound'
    <2>1. (run # Idle => OneDraft(run.copy))'
      BY DEF DraftsSound, OneDraft, Fired, Of
    <2>2. (command # Idle => OneDraft(command.loaded))'
      BY DEF DraftsSound, OneDraft, Fired, Of
    <2>3. OneDraft(store)'
      BY DEF DraftsSound, OneDraft, Fired, Of
    <2> QED BY <2>1, <2>2, <2>3 DEF DraftsSound
  <1>3. CopyFollows'
    BY DEF CopyFollows, Fired, Offered, Of
  <1>4. FiredStays'
    BY DEF FiredStays, Fired
  <1>5. SendsPending'
    <2>1. store.drafts \in Seq(Draft)
      BY StoreShape DEF RemindersTypes
    <2>2. DOMAIN store.drafts = 1..Len(store.drafts)
      BY <2>1, LenProperties
    <2> QED BY <2>2 DEF SendsPending, Pending
  <1>6. AllBalanced'
    <2> SUFFICES ASSUME NEW p \in Policies, NEW k \in Keys
                 PROVE  (/\ OfPass(p, k) => Balanced(run.copy, p, k)
                         /\ ~OfPass(p, k) => Balanced(store, p, k))'
      BY DEF AllBalanced
    <2>1. OfPass(p, k)' <=> OfPass(p, k)
      BY DEF OfPass, Fired
    <2>2. Balanced(run.copy, p, k)' <=> Balanced(run.copy, p, k)
      BY DEF Balanced, Owed, Fired, Offered, Of
    <2>3. Balanced(store, p, k)' <=> Balanced(store, p, k)
      BY DEF Balanced, Owed, Fired, Offered, Of
    <2> QED BY <2>1, <2>2, <2>3 DEF AllBalanced
  <1> QED BY <1>1, <1>2, <1>3, <1>4, <1>5, <1>6

LEMMA SendLoadsKeeps ==
  ASSUME RemindersInv, NEW i \in DOMAIN store.drafts, SendLoads(i)
  PROVE RemindersInv'
  <1>1. store \in Stores /\ clock \in Nat /\ edits \in Nat
    BY DEF RemindersInv, RemindersTypes
  <1>2. i \in Nat
    BY <1>1, StoreShape, LenProperties
  <1>3. command' = [loaded |-> store, draft |-> i, now |-> clock] /\ edits' = edits + 1 /\ Pending(i)
        /\ UNCHANGED <<store, run, closed, clock, crashes, reached, losses>>
    BY DEF SendLoads
  <1>4. command' \in CommandRecord /\ command'.loaded = store /\ command'.draft = i
    BY <1>1, <1>2, <1>3 DEF CommandRecord
  <1>5. edits' \in Nat
    BY <1>1, <1>3
  <1> QED BY <1>3, <1>4, <1>5, CommandLoads

LEMMA GroomLoadsKeeps == ASSUME RemindersInv, GroomLoads PROVE RemindersInv'
  <1>1. store \in Stores /\ clock \in Nat /\ edits \in Nat
    BY DEF RemindersInv, RemindersTypes
  <1>3. command' = [loaded |-> store, draft |-> NoDraft, now |-> clock] /\ edits' = edits + 1
        /\ UNCHANGED <<store, run, closed, clock, crashes, reached, losses>>
    BY DEF GroomLoads
  <1>4. command' \in CommandRecord /\ command'.loaded = store /\ command'.draft = NoDraft
    BY <1>1, <1>3 DEF CommandRecord, NoDraft
  <1>5. edits' \in Nat
    BY <1>1, <1>3
  <1> QED BY <1>3, <1>4, <1>5, CommandLoads

(* The draft that is being sent is of a fire every store has made.         *)
LEMMA SendingParts ==
  ASSUME RemindersInv, Sending
  PROVE  LET i == command.draft
             s == command.loaded
             d == s.drafts[i]
         IN  /\ RemindersTypes /\ s \in Stores /\ i \in 1..Len(s.drafts) /\ d \in Draft /\ d.status = "pending"
             /\ d.policy \in Policies /\ d.key \in Nat
             /\ Fired(s, d.policy, d.key) /\ Offered(s, d.policy, d.key)
             /\ \A j \in 1..Len(s.drafts) : Of(s, j, d.policy, d.key) => j = i
             /\ ~OfPass(d.policy, d.key)
  <1> DEFINE i == command.draft
             s == command.loaded
             d == s.drafts[i]
  <1>1. command # Idle /\ i # NoDraft
    BY DEF Sending
  <1>2. RemindersTypes /\ s \in Stores
    BY <1>1, CommandParts DEF RemindersInv
  <1>3. i \in 1..Len(s.drafts) /\ d.status = "pending"
    BY <1>1 DEF RemindersInv, SendsPending
  <1>4. d \in Draft /\ d.policy \in Policies /\ d.key \in Nat
    BY <1>2, <1>3, StoreShape DEF Draft
  <1>5. OneDraft(s)
    BY <1>1 DEF RemindersInv, DraftsSound
  <1>6. Fired(s, d.policy, d.key) /\ \A j \in 1..Len(s.drafts) : Of(s, j, d.policy, d.key) => j = i
    BY <1>3, <1>5 DEF OneDraft
  <1>7. Offered(s, d.policy, d.key)
    BY <1>3 DEF Offered, Of
  <1>8. ~OfPass(d.policy, d.key)
    BY <1>1, <1>4, <1>6 DEF RemindersInv, FiredStays, OfPass
  <1> QED BY <1>2, <1>3, <1>4, <1>6, <1>7, <1>8

LEMMA SendSavesKeeps == ASSUME RemindersInv, SendSaves PROVE RemindersInv'
  <1> DEFINE i == command.draft
             s == command.loaded
             d == s.drafts[i]
             e == [s.drafts EXCEPT ![i].status = "sent"]
  <1>1. /\ Sending /\ command # Idle /\ command' = Idle
        /\ reached' = [reached EXCEPT ![d.policy][d.key] = @ + 1]
        /\ store' = [s EXCEPT !.drafts[i].status = "sent"]
        /\ losses' = losses + Overwrites(s)
        /\ UNCHANGED <<run, closed, clock, edits, crashes>>
    BY DEF SendSaves, Sending
  <1>2. /\ RemindersTypes /\ s \in Stores /\ i \in 1..Len(s.drafts) /\ d \in Draft
        /\ d.policy \in Policies /\ d.key \in Nat
        /\ Fired(s, d.policy, d.key) /\ Offered(s, d.policy, d.key)
        /\ \A j \in 1..Len(s.drafts) : Of(s, j, d.policy, d.key) => j = i
        /\ ~OfPass(d.policy, d.key)
    BY <1>1, SendingParts
  <1>3. s = [policies |-> s.policies, drafts |-> s.drafts] /\ DOMAIN s.policies \in SUBSET Policies
        /\ s.policies \in [DOMAIN s.policies -> Policy] /\ s.drafts \in Seq(Draft) /\ Len(s.drafts) \in Nat
    BY <1>2, StoreShape
  <1>4. [d EXCEPT !.status = "sent"] \in Draft
    BY <1>2 DEF Draft
  <1>5. /\ e \in Seq(Draft) /\ Len(e) = Len(s.drafts)
        /\ \A j \in 1..Len(s.drafts) : e[j] = IF j = i THEN [d EXCEPT !.status = "sent"] ELSE s.drafts[j]
    <2>1. e = [s.drafts EXCEPT ![i] = [d EXCEPT !.status = "sent"]]
      OBVIOUS
    <2> HIDE DEF e, d
    <2> QED BY <2>1, <1>2, <1>3, <1>4, ExceptSeq
  <1>6. store' = [s EXCEPT !.drafts = e]
    BY <1>1, <1>3
  <1> HIDE DEF e
  <1>7. store' = [policies |-> s.policies, drafts |-> e]
    BY <1>3, <1>6, StoreDrafts
  <1>8. store' \in Stores /\ store'.policies = s.policies /\ store'.drafts = e
    BY <1>3, <1>5, <1>7, StoreMade
  <1>9. \A a \in Policies, k \in Nat : Fired(store', a, k) <=> Fired(s, a, k)
    BY <1>8 DEF Fired
  <1>10. \A j \in 1..Len(e) : /\ e[j].policy = s.drafts[j].policy /\ e[j].key = s.drafts[j].key
                              /\ e[j].status = "pending" => s.drafts[j].status = "pending" /\ j # i
    <2> SUFFICES ASSUME NEW j \in 1..Len(e)
                 PROVE  /\ e[j].policy = s.drafts[j].policy /\ e[j].key = s.drafts[j].key
                        /\ e[j].status = "pending" => s.drafts[j].status = "pending" /\ j # i
      OBVIOUS
    <2>1. CASE j = i
      <3>1. e[j] = [d EXCEPT !.status = "sent"]
        BY <2>1, <1>5
      <3>2. [d EXCEPT !.status = "sent"].policy = d.policy /\ [d EXCEPT !.status = "sent"].key = d.key
            /\ [d EXCEPT !.status = "sent"].status = "sent"
        BY <1>2 DEF Draft
      <3> QED BY <3>1, <3>2, <2>1
    <2>2. CASE j # i
      BY <2>2, <1>5
    <2> QED BY <2>1, <2>2
  <1>11. OneDraft(store')
    <2>1. OneDraft(s)
      BY <1>1 DEF RemindersInv, DraftsSound
    <2> QED BY <2>1, <1>5, <1>8, <1>10 DEF OneDraft, Of, Fired
  <1>12. \A a \in Policies, k \in Nat : Offered(store', a, k) => Offered(s, a, k)
    BY <1>5, <1>8, <1>10 DEF Offered, Of
  <1>13. ~Offered(store', d.policy, d.key)
    BY <1>2, <1>5, <1>8, <1>10 DEF Offered, Of
  <1>14. losses \in Nat /\ reached \in [Policies -> [Keys -> Nat]]
    BY <1>2 DEF RemindersTypes
  <1>15. Overwrites(s) \in {0, 1} /\ (Overwrites(s) = 0 => store = s)
    BY DEF Overwrites
  <1>16. losses' \in Nat /\ losses' >= losses
    <2>1. losses' = losses + Overwrites(s)
      BY <1>1
    <2> HIDE DEF s
    <2> QED BY <2>1, <1>14, <1>15
  <1> DEFINE p == d.policy
             n == d.key
  <1>17. p \in Policies /\ ~OfPass(p, n) /\ reached' = [reached EXCEPT ![p][n] = @ + 1]
         /\ ~Offered(store', p, n) /\ Fired(store', p, n) /\ Offered(s, p, n)
    BY <1>1, <1>2, <1>9, <1>13
  <1> HIDE DEF d, p, n, i
  <1>18. /\ reached' \in [Policies -> [Keys -> Nat]]
         /\ \A a \in Policies, k \in Keys :
              reached'[a][k] = IF a = p /\ k = n THEN reached[a][k] + 1 ELSE reached[a][k]
    BY <1>2, <1>17, ReachedOnce
  <1>19. RemindersTypes'
    BY <1>1, <1>2, <1>8, <1>16, <1>18 DEF RemindersTypes
  <1>20. \A a \in Policies, k \in Nat : run' # Idle /\ ~Fired(run.loaded, a, k) => ~Fired(store', a, k)
    BY <1>1, <1>9 DEF RemindersInv, FiredStays
  <1>21. \A a \in Policies, k \in Keys : OfPass(a, k) => reached'[a][k] = reached[a][k]
    BY <1>17, <1>18
  <1>22. ASSUME NEW a \in Policies, NEW k \in Keys, ~OfPass(a, k)
         PROVE  reached'[a][k] + Owed(store', a, k) <= 1 + losses'
    <2>1. k \in Nat /\ reached[a][k] \in Nat /\ Owed(store', a, k) \in {0, 1} /\ Owed(store, a, k) \in {0, 1}
      BY <1>14, KeysAreNat, OwedIsBit
    <2>2. reached[a][k] + Owed(store, a, k) <= 1 + losses
      BY <1>22 DEF RemindersInv, AllBalanced, Balanced
    <2>3. CASE a = p /\ k = n
      <3>1. Owed(store', a, k) = 0
        BY <2>3, <1>17 DEF Owed
      <3>2. store = s => Owed(store, a, k) = 1
        BY <2>3, <1>17 DEF Owed
      <3>3. reached'[a][k] = reached[a][k] + 1
        BY <2>3, <1>18
      <3> QED BY <3>1, <3>2, <3>3, <2>1, <2>2, <1>1, <1>14, <1>15
    <2>4. CASE ~(a = p /\ k = n)
      <3>1. store = s => Owed(store', a, k) <= Owed(store, a, k)
        BY <2>1, <1>9, <1>12 DEF Owed
      <3>2. reached'[a][k] = reached[a][k]
        BY <2>4, <1>18
      <3> QED BY <3>1, <3>2, <2>1, <2>2, <1>1, <1>14, <1>15
    <2> QED BY <2>3, <2>4
  <1>23. \A a \in Policies, k \in Keys : OfPass(a, k) => run # Idle
    BY DEF OfPass
  <1> QED BY <1>1, <1>11, <1>16, <1>19, <1>20, <1>21, <1>22, <1>23, StoreStep

LEMMA SendFailsKeeps == ASSUME RemindersInv, SendFails PROVE RemindersInv'
  <1> DEFINE p == command.loaded.drafts[command.draft].policy
             n == command.loaded.drafts[command.draft].key
  <1>1. /\ Sending /\ command' = Idle
        /\ UNCHANGED <<store, run, closed, clock, edits, crashes>>
        /\ \/ UNCHANGED <<reached, losses>>
           \/ reached' = [reached EXCEPT ![p][n] = @ + 1] /\ losses' = losses + 1
    BY DEF SendFails
  <1>2. RemindersTypes /\ p \in Policies /\ ~OfPass(p, n)
    BY <1>1, SendingParts
  <1> HIDE DEF p, n
  <1>3. losses \in Nat /\ reached \in [Policies -> [Keys -> Nat]]
    BY <1>2 DEF RemindersTypes
  <1>4. /\ reached' \in [Policies -> [Keys -> Nat]] /\ losses' \in Nat /\ losses' >= losses
        /\ \A a \in Policies, k \in Keys :
             \/ reached'[a][k] = reached[a][k]
             \/ ~OfPass(a, k) /\ reached'[a][k] = reached[a][k] + 1 /\ losses' = losses + 1
    <2>1. CASE UNCHANGED <<reached, losses>>
      BY <2>1, <1>3
    <2>2. CASE reached' = [reached EXCEPT ![p][n] = @ + 1] /\ losses' = losses + 1
      <3>1. /\ reached' \in [Policies -> [Keys -> Nat]]
            /\ \A a \in Policies, k \in Keys :
                 reached'[a][k] = IF a = p /\ k = n THEN reached[a][k] + 1 ELSE reached[a][k]
        BY <1>2, <2>2, ReachedOnce
      <3>2. losses' \in Nat /\ losses' >= losses
        BY <2>2, <1>3
      <3> QED BY <3>1, <3>2, <2>2, <1>2
    <2> QED BY <2>1, <2>2, <1>1
  <1>5. RemindersTypes'
    BY <1>1, <1>2, <1>4 DEF RemindersTypes
  <1>6. OneDraft(store')
    BY <1>1 DEF RemindersInv, DraftsSound
  <1>7. \A a \in Policies, k \in Nat : run' # Idle /\ ~Fired(run.loaded, a, k) => ~Fired(store', a, k)
    BY <1>1 DEF RemindersInv, FiredStays
  <1>8. ASSUME NEW a \in Policies, NEW k \in Keys, ~OfPass(a, k)
        PROVE  reached'[a][k] + Owed(store', a, k) <= 1 + losses'
    <2>1. reached[a][k] \in Nat /\ Owed(store, a, k) \in Nat
      BY <1>3, OwedIsBit
    <2>2. reached[a][k] + Owed(store, a, k) <= 1 + losses
      BY <1>8 DEF RemindersInv, AllBalanced, Balanced
    <2> QED BY <2>1, <2>2, <1>1, <1>3, <1>4
  <1>9. \A a \in Policies, k \in Keys : OfPass(a, k) => run # Idle /\ reached'[a][k] = reached[a][k]
    BY <1>4 DEF OfPass
  <1> QED BY <1>1, <1>4, <1>5, <1>6, <1>7, <1>8, <1>9, StoreStep

LEMMA GroomEndsKeeps == ASSUME RemindersInv, GroomEnds PROVE RemindersInv'
  <1> DEFINE s == command.loaded
  <1>1. /\ command # Idle /\ command' = Idle
        /\ UNCHANGED <<run, closed, clock, edits, crashes, reached>>
    BY DEF GroomEnds
  <1>2. RemindersTypes /\ s \in Stores /\ OneDraft(s) /\ command.now \in Nat
    BY <1>1, CommandParts DEF RemindersInv, DraftsSound
  <1>3. s = [policies |-> s.policies, drafts |-> s.drafts] /\ DOMAIN s.policies \in SUBSET Policies
        /\ s.policies \in [DOMAIN s.policies -> Policy] /\ s.drafts \in Seq(Draft)
    BY <1>2, StoreShape
  <1>4. losses \in Nat /\ reached \in [Policies -> [Keys -> Nat]]
    BY <1>2 DEF RemindersTypes
  <1>5. \/ UNCHANGED <<store, losses>>
        \/ /\ store' \in Stores /\ Alike(s, store')
           /\ losses' = losses + Overwrites(s)
    <2>1. PICK found \in SUBSET closed :
            LET held == command.loaded.policies
                awake == [p \in DOMAIN held |-> Awake(held[p], command.now)]
                finished == {p \in DOMAIN held : p \in found \/ (Completed(held[p]) /\ ~awake[p].paused)}
                groomed == [p \in DOMAIN held |->
                                IF p \notin finished THEN awake[p]
                                ELSE [awake[p] EXCEPT !.enabled = FALSE, !.paused = FALSE, !.why = "groomed"]]
            IN  \/ finished = {} /\ UNCHANGED <<store, losses>>
                \/ /\ finished # {}
                   /\ store' = [command.loaded EXCEPT !.policies = groomed]
                   /\ losses' = losses + Overwrites(command.loaded)
      BY DEF GroomEnds
    <2> DEFINE held == s.policies
               awake == [p \in DOMAIN held |-> Awake(held[p], command.now)]
               finished == {p \in DOMAIN held : p \in found \/ (Completed(held[p]) /\ ~awake[p].paused)}
               groomed == [p \in DOMAIN held |->
                               IF p \notin finished THEN awake[p]
                               ELSE [awake[p] EXCEPT !.enabled = FALSE, !.paused = FALSE, !.why = "groomed"]]
    <2>2. \/ UNCHANGED <<store, losses>>
          \/ store' = [s EXCEPT !.policies = groomed] /\ losses' = losses + Overwrites(s)
      BY <2>1
    <2> HIDE DEF finished
    <2>3. \A p \in DOMAIN held : awake[p] \in Policy /\ awake[p].keys = held[p].keys
      <3>1. \A q \in Policy : Awake(q, command.now) \in Policy /\ Awake(q, command.now).keys = q.keys
        BY DEF Awake, Resumed, Policy
      <3> QED BY <3>1, <1>3
    <2> HIDE DEF awake
    <2>4. \A p \in DOMAIN held : groomed[p] \in Policy /\ groomed[p].keys = held[p].keys
      BY <2>3 DEF Policy
    <2>5. groomed \in [DOMAIN held -> Policy]
      BY <2>4
    <2> HIDE DEF groomed
    <2>6. CASE store' = [s EXCEPT !.policies = groomed] /\ losses' = losses + Overwrites(s)
      <3>1. store' = [policies |-> groomed, drafts |-> s.drafts]
        BY <2>6, <1>3, StorePolicies
      <3>2. store' \in Stores /\ store'.policies = groomed /\ store'.drafts = s.drafts
        BY <3>1, <1>3, <2>5, StoreMade
      <3>3. Alike(s, store')
        BY <3>2, <2>4, <2>5 DEF Alike, Fired
      <3> QED BY <3>2, <3>3, <2>6
    <2> QED BY <2>2, <2>6
  <1> HIDE DEF s
  <1>6. Overwrites(s) \in {0, 1} /\ (Overwrites(s) = 0 => store = s)
    BY DEF Overwrites
  <1>7. losses' \in Nat /\ losses' >= losses /\ store' \in Stores
    BY <1>2, <1>4, <1>5, <1>6 DEF RemindersTypes
  <1>8. RemindersTypes'
    BY <1>1, <1>2, <1>7 DEF RemindersTypes
  <1>9. CASE UNCHANGED <<store, losses>>
    <2>1. OneDraft(store')
      BY <1>9 DEF RemindersInv, DraftsSound
    <2>2. \A a \in Policies, k \in Nat : run' # Idle /\ ~Fired(run.loaded, a, k) => ~Fired(store', a, k)
      BY <1>1, <1>9 DEF RemindersInv, FiredStays
    <2>3. \A a \in Policies, k \in Keys : ~OfPass(a, k) => reached'[a][k] + Owed(store', a, k) <= 1 + losses'
      BY <1>1, <1>9 DEF RemindersInv, AllBalanced, Balanced
    <2>4. \A a \in Policies, k \in Keys : OfPass(a, k) => run # Idle
      BY DEF OfPass
    <2> QED BY <2>1, <2>2, <2>3, <2>4, <1>1, <1>7, <1>8, StoreStep
  <1>10. CASE Alike(s, store') /\ losses' = losses + Overwrites(s)
    <2>1. OneDraft(store') /\ \A a \in Policies, k \in Nat : Owed(s, a, k) = Owed(store', a, k)
      BY <1>2, <1>7, <1>10, AlikeOwe
    <2>2. \A a \in Policies, k \in Nat : run' # Idle /\ ~Fired(run.loaded, a, k) => ~Fired(store', a, k)
      BY <1>1, <1>10 DEF RemindersInv, FiredStays, Alike, s
    <2>3. ASSUME NEW a \in Policies, NEW k \in Keys, ~OfPass(a, k)
          PROVE  reached'[a][k] + Owed(store', a, k) <= 1 + losses'
      <3>1. /\ k \in Nat /\ reached[a][k] \in Nat
            /\ Owed(s, a, k) \in {0, 1} /\ Owed(store, a, k) \in {0, 1}
        BY <1>4, KeysAreNat, OwedIsBit
      <3>2. reached[a][k] + Owed(store, a, k) <= 1 + losses
        BY <2>3 DEF RemindersInv, AllBalanced, Balanced
      <3>3. Owed(store', a, k) = Owed(s, a, k) /\ reached' = reached
        BY <3>1, <2>1, <1>1
      <3> QED BY <3>1, <3>2, <3>3, <1>4, <1>6, <1>10
    <2>4. \A a \in Policies, k \in Keys : OfPass(a, k) => run # Idle
      BY DEF OfPass
    <2> QED BY <2>1, <2>2, <2>3, <2>4, <1>1, <1>7, <1>8, StoreStep
  <1> QED BY <1>5, <1>9, <1>10

-----------------------------------------------------------------------------
(* Edits                                                                   *)

LEMMA PolicyEdited ==
  ASSUME RemindersInv, NEW p \in Added, NEW q \in Policy, q.keys = store.policies[p].keys,
         EditPolicy(p, q)
  PROVE  RemindersInv'
  <1>1. store \in Stores /\ edits \in Nat /\ closed \in SUBSET Policies /\ clock \in Nat
    BY DEF RemindersInv, RemindersTypes
  <1>2. store' = [store EXCEPT !.policies[p] = q] /\ edits' = edits + 1
        /\ UNCHANGED <<run, command, closed, clock, crashes, reached, losses>>
    BY DEF EditPolicy, Edit
  <1> DEFINE f == [store.policies EXCEPT ![p] = q]
  <1>3. store' = [policies |-> f, drafts |-> store.drafts] /\ store' \in Stores
    BY <1>1, <1>2, StoreEdited DEF Added
  <1>4. store'.policies = f /\ store'.drafts = store.drafts
    BY <1>3
  <1>5. store.policies \in [Added -> Policy]
    BY <1>1, StoreShape DEF Added
  <1>6. DOMAIN f = Added /\ \A a \in Added : f[a].keys = store.policies[a].keys
    BY <1>5
  <1> HIDE DEF f
  <1>7. Alike(store, store')
    BY <1>4, <1>6 DEF Alike, Fired, Added
  <1>8. edits' \in Nat /\ closed' \in SUBSET Policies /\ clock' \in Nat
    BY <1>1, <1>2
  <1> QED BY <1>2, <1>3, <1>7, <1>8, AlikeEdit

LEMMA PolicyEdits ==
  ASSUME RemindersInv, NEW p \in Added,
         Disable(p) \/ Cancel(p) \/ Pause(p) \/ Resume(p) \/ UpdatePolicy(p)
  PROVE  RemindersInv'
  <1> DEFINE q == store.policies[p]
  <1>1. q \in Policy /\ clock \in Nat
    BY StoreShape DEF RemindersInv, RemindersTypes, Added
  <1>2. q.max \in Nat
    BY <1>1 DEF Policy
  <1> HIDE DEF q
  <1>3. CASE Disable(p)
    <2>1. [q EXCEPT !.enabled = FALSE] \in Policy /\ [q EXCEPT !.enabled = FALSE].keys = q.keys
      BY <1>1 DEF Policy
    <2> QED BY <2>1, <1>3, PolicyEdited DEF Disable, q
  <1>4. CASE Cancel(p)
    <2> DEFINE r == [q EXCEPT !.enabled = FALSE, !.why = "cancelled"]
    <2>1. r \in Policy /\ r.keys = q.keys
      BY <1>1 DEF Policy
    <2> QED BY <2>1, <1>4, PolicyEdited DEF Cancel, q
  <1>5. CASE Pause(p)
    <2>1. PICK until \in {0, clock + 1} : EditPolicy(p, [q EXCEPT !.paused = TRUE, !.until = until])
      BY <1>5 DEF Pause, q
    <2> DEFINE r == [q EXCEPT !.paused = TRUE, !.until = until]
    <2>2. until \in Nat
      BY <1>1
    <2>3. r \in Policy /\ r.keys = q.keys
      BY <1>1, <2>2 DEF Policy
    <2>4. EditPolicy(p, r)
      BY <2>1
    <2> HIDE DEF r
    <2> QED BY <2>3, <2>4, PolicyEdited DEF q
  <1>6. CASE Resume(p)
    <2> DEFINE r == [Resumed(q) EXCEPT !.enabled = TRUE, !.next = clock]
    <2>1. Resumed(q) \in Policy /\ Resumed(q).keys = q.keys
      BY <1>1 DEF Policy, Resumed
    <2>2. r \in Policy /\ r.keys = q.keys
      BY <2>1, <1>1 DEF Policy
    <2>3. EditPolicy(p, r)
      BY <1>6 DEF Resume, q
    <2> HIDE DEF r
    <2> QED BY <2>2, <2>3, PolicyEdited DEF q
  <1>7. CASE UpdatePolicy(p)
    <2>1. CASE \E mode \in {"auto", "draft", "manual"} \ {q.mode} : EditPolicy(p, [q EXCEPT !.mode = mode])
      <3>1. PICK mode \in {"auto", "draft", "manual"} : EditPolicy(p, [q EXCEPT !.mode = mode])
        BY <2>1
      <3>2. [q EXCEPT !.mode = mode] \in Policy /\ [q EXCEPT !.mode = mode].keys = q.keys
        BY <1>1 DEF Policy
      <3> QED BY <3>1, <3>2, PolicyEdited DEF q
    <2>2. CASE EditPolicy(p, [q EXCEPT !.max = @ + 1])
      <3> DEFINE m == q.max + 1
                 r == [q EXCEPT !.max = m]
      <3>1. m \in Nat
        BY <1>2
      <3>2. EditPolicy(p, r)
        BY <2>2, <1>1 DEF Policy
      <3> HIDE DEF m
      <3>3. r \in Policy /\ r.keys = q.keys
        BY <3>1, <1>1 DEF Policy
      <3> HIDE DEF r
      <3> QED BY <3>2, <3>3, PolicyEdited DEF q
    <2> QED BY <2>1, <2>2, <1>7 DEF UpdatePolicy, q
  <1> QED BY <1>3, <1>4, <1>5, <1>6, <1>7

LEMMA AddKeeps == ASSUME RemindersInv, NEW p \in Policies, Add(p) PROVE RemindersInv'
  <1>1. store \in Stores /\ edits \in Nat /\ closed \in SUBSET Policies /\ clock \in Nat
    BY DEF RemindersInv, RemindersTypes
  <1>2. PICK mode \in {"auto", "draft", "manual"}, first \in {clock, clock + 1} :
           /\ store' = [store EXCEPT !.policies =
                           [q \in Added \cup {p} |-> IF q = p THEN NewPolicy(mode, first) ELSE store.policies[q]]]
           /\ edits' = edits + 1
    BY <1>1, StoreShape DEF Add, Edit
  <1>3. p \notin Added /\ UNCHANGED <<run, command, closed, clock, crashes, reached, losses>>
    BY DEF Add
  <1> DEFINE f == [q \in Added \cup {p} |-> IF q = p THEN NewPolicy(mode, first) ELSE store.policies[q]]
  <1>4. store = [policies |-> store.policies, drafts |-> store.drafts] /\ Added \in SUBSET Policies
        /\ store.policies \in [Added -> Policy] /\ store.drafts \in Seq(Draft)
    BY <1>1, StoreShape DEF Added
  <1>5. NewPolicy(mode, first) \in Policy /\ NewPolicy(mode, first).keys = {}
    BY <1>1, ReminderAssumption DEF NewPolicy, Policy, ReminderAssumption
  <1>6. f \in [Added \cup {p} -> Policy] /\ Added \cup {p} \in SUBSET Policies
    BY <1>4, <1>5
  <1>7. f[p].keys = {} /\ \A q \in Added : f[q] = store.policies[q]
    BY <1>3, <1>5
  <1>8. store' = [store EXCEPT !.policies = f]
    BY <1>2
  <1> HIDE DEF f
  <1>9. store' = [policies |-> f, drafts |-> store.drafts]
    BY <1>4, <1>8, StorePolicies
  <1>10. store' \in Stores /\ store'.policies = f /\ store'.drafts = store.drafts
    BY <1>4, <1>6, <1>9, StoreMade
  <1>11. \A a \in Policies, k \in Nat : Fired(store, a, k) <=> Fired(store', a, k)
    BY <1>3, <1>6, <1>7, <1>10 DEF Fired, Added
  <1>12. Alike(store, store')
    BY <1>10, <1>11 DEF Alike
  <1>13. edits' \in Nat /\ closed' \in SUBSET Policies /\ clock' \in Nat
    BY <1>1, <1>2, <1>3
  <1> QED BY <1>3, <1>10, <1>12, <1>13, AlikeEdit

LEMMA CancelDraftKeeps ==
  ASSUME RemindersInv, NEW i \in DOMAIN store.drafts, CancelDraft(i) PROVE RemindersInv'
  <1> DEFINE d == store.drafts[i]
             e == [store.drafts EXCEPT ![i] = [d EXCEPT !.status = "cancelled"]]
  <1>1. store \in Stores /\ edits \in Nat /\ closed \in SUBSET Policies /\ clock \in Nat
        /\ OneDraft(store)
    BY DEF RemindersInv, RemindersTypes, DraftsSound
  <1>2. store = [policies |-> store.policies, drafts |-> store.drafts]
        /\ DOMAIN store.policies \in SUBSET Policies
        /\ store.policies \in [DOMAIN store.policies -> Policy]
        /\ store.drafts \in Seq(Draft) /\ i \in 1..Len(store.drafts) /\ d \in Draft
    BY <1>1, StoreShape, LenProperties
  <1>3. edits' = edits + 1 /\ UNCHANGED <<run, command, closed, clock, crashes, reached, losses>>
    BY DEF CancelDraft, Edit
  <1>4. store' = [store EXCEPT !.drafts = e]
    BY <1>2 DEF CancelDraft, Edit
  <1>5. [d EXCEPT !.status = "cancelled"] \in Draft
    BY <1>2 DEF Draft
  <1>6. /\ e \in Seq(Draft) /\ Len(e) = Len(store.drafts)
        /\ \A j \in 1..Len(store.drafts) : e[j] = IF j = i THEN [d EXCEPT !.status = "cancelled"] ELSE store.drafts[j]
    <2> HIDE DEF d
    <2> QED BY <1>2, <1>5, ExceptSeq
  <1> HIDE DEF e
  <1>7. store' = [policies |-> store.policies, drafts |-> e]
    BY <1>2, <1>4, StoreDrafts
  <1>8. store' \in Stores /\ store'.policies = store.policies /\ store'.drafts = e
    BY <1>2, <1>6, <1>7, StoreMade
  <1>9. \A j \in 1..Len(e) : /\ e[j].policy = store.drafts[j].policy /\ e[j].key = store.drafts[j].key
                             /\ e[j].status = "pending" => store.drafts[j].status = "pending"
    <2> SUFFICES ASSUME NEW j \in 1..Len(e)
                 PROVE  /\ e[j].policy = store.drafts[j].policy /\ e[j].key = store.drafts[j].key
                        /\ e[j].status = "pending" => store.drafts[j].status = "pending"
      OBVIOUS
    <2>1. CASE j = i
      <3>1. e[j] = [d EXCEPT !.status = "cancelled"]
        BY <2>1, <1>6
      <3>2. [d EXCEPT !.status = "cancelled"].policy = d.policy /\ [d EXCEPT !.status = "cancelled"].key = d.key
            /\ [d EXCEPT !.status = "cancelled"].status = "cancelled"
        BY <1>2 DEF Draft
      <3> QED BY <3>1, <3>2, <2>1
    <2>2. CASE j # i
      BY <2>2, <1>6
    <2> QED BY <2>1, <2>2
  <1>10. \A a \in Policies, k \in Nat :
            /\ Fired(store', a, k) <=> Fired(store, a, k)
            /\ Offered(store', a, k) => Offered(store, a, k)
    BY <1>6, <1>8, <1>9 DEF Fired, Offered, Of
  <1>11. OneDraft(store')
    BY <1>1, <1>6, <1>8, <1>9 DEF OneDraft, Fired, Of
  <1>12. edits' \in Nat /\ closed' \in SUBSET Policies /\ clock' \in Nat
    BY <1>1, <1>3
  <1> QED BY <1>3, <1>8, <1>10, <1>11, <1>12, EditKeeps

LEMMA WorldKeeps ==
  ASSUME RemindersInv, ClockTicks \/ (\E p \in Policies : TaskCloses(p)) PROVE RemindersInv'
  <1>1. store \in Stores /\ edits \in Nat /\ closed \in SUBSET Policies /\ clock \in Nat
    BY DEF RemindersInv, RemindersTypes
  <1>2. UNCHANGED <<store, run, command, edits, crashes, reached, losses>>
    BY DEF ClockTicks, TaskCloses
  <1>3. clock' \in Nat /\ closed' \in SUBSET Policies
    BY <1>1 DEF ClockTicks, TaskCloses
  <1>4. store' \in Stores /\ edits' \in Nat
    BY <1>1, <1>2
  <1>5. Alike(store, store')
    BY <1>2 DEF Alike, Fired
  <1> QED BY <1>2, <1>3, <1>4, <1>5, AlikeEdit

LEMMA StutterKeeps == ASSUME RemindersInv, UNCHANGED reminders PROVE RemindersInv'
  <1>1. store \in Stores /\ edits \in Nat /\ closed \in SUBSET Policies /\ clock \in Nat
    BY DEF RemindersInv, RemindersTypes
  <1>2. UNCHANGED <<store, run, command, closed, clock, edits, crashes, reached, losses>>
    BY DEF reminders
  <1>3. store' \in Stores /\ edits' \in Nat /\ clock' \in Nat /\ closed' \in SUBSET Policies
    BY <1>1, <1>2
  <1>4. Alike(store, store')
    BY <1>2 DEF Alike, Fired
  <1> QED BY <1>2, <1>3, <1>4, AlikeEdit

LEMMA RemindersStep == RemindersInv /\ [RemindersNext]_reminders => RemindersInv'
  <1> SUFFICES ASSUME RemindersInv, [RemindersNext]_reminders PROVE RemindersInv'
    OBVIOUS
  <1>1. CASE RunLoads \/ RunSaves \/ RunCrashes
    BY <1>1, RunLoadsKeeps, RunSavesKeeps, RunCrashesKeeps
  <1>2. CASE \E p \in Policies : RunSkips(p) \/ RunSends(p) \/ RunDrafts(p) \/ RunIsRefused(p)
    BY <1>2, RunSkipsKeeps, RunSendsKeeps, RunDraftsKeeps, RunIsRefusedKeeps
  <1>3. CASE \E p \in Policies : Add(p)
    BY <1>3, AddKeeps
  <1>4. CASE \E p \in Added : Disable(p) \/ Cancel(p) \/ Pause(p) \/ Resume(p) \/ UpdatePolicy(p)
    BY <1>4, PolicyEdits
  <1>5. CASE \E i \in DOMAIN store.drafts : CancelDraft(i) \/ SendLoads(i)
    BY <1>5, CancelDraftKeeps, SendLoadsKeeps
  <1>6. CASE SendSaves \/ SendFails \/ GroomLoads \/ GroomEnds
    BY <1>6, SendSavesKeeps, SendFailsKeeps, GroomLoadsKeeps, GroomEndsKeeps
  <1>7. CASE ClockTicks \/ \E p \in Policies : TaskCloses(p)
    BY <1>7, WorldKeeps
  <1>8. CASE UNCHANGED reminders
    BY <1>8, StutterKeeps
  <1> QED BY <1>1, <1>2, <1>3, <1>4, <1>5, <1>6, <1>7, <1>8 DEF RemindersNext

LEMMA RemindersInvHolds == RemindersSpec => []RemindersInv
  BY RemindersInitInv, RemindersStep, PTL DEF RemindersSpec

(* One fire of a policy reaches people once, and once more only for each   *)
(* save over another's, each pass that was not saved and each message not  *)
(* known to have arrived.                                                  *)
THEOREM FiresOnce == RemindersSpec => []FiredOnce
  <1>1. RemindersInv => FiredOnce
    <2> SUFFICES ASSUME RemindersInv, NEW p \in Policies, NEW k \in Keys
                 PROVE  reached[p][k] <= 1 + losses
      BY DEF FiredOnce
    <2>1. reached[p][k] \in Nat /\ losses \in Nat
      BY DEF RemindersInv, RemindersTypes
    <2>2. Owed(run.copy, p, k) \in {0, 1} /\ Owed(store, p, k) \in {0, 1}
      BY OwedIsBit
    <2>3. \/ reached[p][k] + Owed(run.copy, p, k) <= 1 + losses
          \/ reached[p][k] + Owed(store, p, k) <= 1 + losses
      BY DEF RemindersInv, AllBalanced, Balanced
    <2> QED BY <2>1, <2>2, <2>3
  <1> QED BY <1>1, RemindersInvHolds, PTL

LEMMA RemindersTyped == RemindersInv => RemindersTypeOK
  <1> SUFFICES ASSUME RemindersInv PROVE RemindersTypeOK
    OBVIOUS
  <1>1. RemindersTypes
    BY DEF RemindersInv
  <1>2. \A s \in Stores : IsStore(s)
    BY StoreShape DEF IsStore
  <1>3. run # Idle => /\ IsStore(run.loaded) /\ IsStore(run.copy)
                      /\ run.todo \subseteq DOMAIN run.copy.policies /\ run.now \in Nat
    <2> SUFFICES ASSUME run # Idle
                 PROVE  /\ IsStore(run.loaded) /\ IsStore(run.copy)
                        /\ run.todo \subseteq DOMAIN run.copy.policies /\ run.now \in Nat
      OBVIOUS
    <2>1. run.loaded \in Stores /\ run.copy \in Stores /\ run.now \in Nat
      BY <1>1, RunParts
    <2>2. run.todo \subseteq DOMAIN run.copy.policies
      BY DEF RemindersInv, CopyFollows
    <2> QED BY <2>1, <2>2, <1>2
  <1>4. command # Idle => /\ IsStore(command.loaded) /\ command.now \in Nat
                          /\ command.draft \in DOMAIN command.loaded.drafts \cup {NoDraft}
    <2> SUFFICES ASSUME command # Idle
                 PROVE  /\ IsStore(command.loaded) /\ command.now \in Nat
                        /\ command.draft \in DOMAIN command.loaded.drafts \cup {NoDraft}
      OBVIOUS
    <2>1. command.loaded \in Stores /\ command.now \in Nat
      BY <1>1, CommandParts
    <2>2. DOMAIN command.loaded.drafts = 1..Len(command.loaded.drafts)
      BY <2>1, StoreShape, LenProperties
    <2>3. command.draft \in DOMAIN command.loaded.drafts \cup {NoDraft}
      BY <2>2 DEF RemindersInv, SendsPending
    <2> QED BY <2>1, <2>3, <1>2
  <1>5. IsStore(store)
    BY <1>1, <1>2 DEF RemindersTypes
  <1> QED BY <1>1, <1>3, <1>4, <1>5 DEF RemindersTypes, RemindersTypeOK

(* The store, what a pass and a command hold of it, and the counts keep    *)
(* their types.                                                            *)
THEOREM RemindersTypeCorrect == RemindersSpec => []RemindersTypeOK
  BY RemindersTyped, RemindersInvHolds, PTL
=============================================================================
