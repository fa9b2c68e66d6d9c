--------------------------- MODULE GatewayProofs ----------------------------
(***************************************************************************)
(* Proofs about the parts of the Gateway that share no state with its      *)
(* registry.                                                               *)
(*                                                                         *)
(* ActivityChain, for any number of recorders and events and for crashes   *)
(* at every step: what makes the chain whole is that only the holder of    *)
(* the lock has read the tail, so that what it read is still the end of    *)
(* the file when it appends.  What makes the verifier exact is that its    *)
(* walk is anchored at the last record it passed, by induction over the    *)
(* lines.                                                                  *)
(*                                                                         *)
(* GatewayProcesses, for any number of processes and environments: a       *)
(* process that passes the checks of run() finds no other gateway in the   *)
(* process table, and every one that is started later finds it there: that *)
(* alone excludes a second daemon, whatever the pid file says, and with it *)
(* a pid file that names another process.                                  *)
(*                                                                         *)
(* PluginAgent: a poll's copy and the row that an announcement loaded are  *)
(* old when they are saved, and yet no save undoes an operator's stop, for *)
(* desired_state is merged and nobody but the operator asks for more.      *)
(***************************************************************************)
EXTENDS ActivityChain, GatewayProcesses, PluginAgent, SequenceTheorems,
        FiniteSetTheorems, WellFoundedInduction, NaturalsInduction, TLAPS

-----------------------------------------------------------------------------
(* ActivityChain                                                           *)

(* Only a file with a line has a last line that lacks its newline, and an  *)
(* event that is being recorded has been numbered.                         *)
Numbered ==
    /\ unended => log # <<>>
    /\ nextId >= 1
    /\ \A w \in Recorders : pc[w] # "idle" => event[w] \in 1..MaxId

ChainInv ==
    /\ TypeOK
    /\ OneRecorder
    /\ TailIsCurrent
    /\ Numbered
    /\ SegmentsChained

-----------------------------------------------------------------------------
(* What is read from a file of lines is a sequence number and a hash.      *)
LEMMA ChainStateType ==
    ASSUME NEW s \in Seq(Line)
    PROVE  ChainState(s) \in [seq : Nat, hash : Nat]
<1>1. CASE s # <<>> /\ IsRecord(s[Len(s)])
  <2>1. Len(s) \in 1..Len(s)
    BY <1>1
  <2>2. s[Len(s)] \in Line
    BY <2>1
  <2> QED
    BY <1>1, <2>2 DEF ChainState, Line
<1>2. CASE ~(s # <<>> /\ IsRecord(s[Len(s)]))
  BY <1>2 DEF ChainState, NoTail, NoHash
<1> QED
  BY <1>1, <1>2

(* A line is written after the others, or torn with the last of them.      *)
LEMMA WrittenLines ==
    ASSUME TypeOK, unended => log # <<>>, NEW line \in Line
    PROVE  /\ Written(line) \in Seq(Line)
           /\ ~unended => /\ Len(Written(line)) = Len(log) + 1
                          /\ Written(line)[Len(log) + 1] = line
                          /\ \A i \in 1..Len(log) : Written(line)[i] = log[i]
           /\ unended => /\ Len(log) > 0
                         /\ Len(Written(line)) = Len(log)
                         /\ Written(line)[Len(log)] = Torn
                         /\ \A i \in 1..Len(log) :
                              i # Len(log) => Written(line)[i] = log[i]
<1>1. Torn \in Line
  BY DEF Torn, Line, NoHash
<1>2. log \in Seq(Line) /\ unended \in BOOLEAN
  BY DEF TypeOK
<1>3. CASE unended
  <2>1. Written(line) = [log EXCEPT ![Len(log)] = Torn]
    BY <1>3 DEF Written
  <2>2. Len(log) \in 1..Len(log)
    BY <1>2, <1>3
  <2> QED
    BY ONLY <2>1, <2>2, <1>1, <1>2, <1>3, ExceptSeq
<1>4. CASE ~unended
  <2>1. Written(line) = Append(log, line)
    BY <1>4 DEF Written
  <2> QED
    BY <2>1, <1>2, <1>4
<1> QED
  BY <1>3, <1>4

(* The line a recorder appends is a record.                                *)
LEMMA NewLineType ==
    ASSUME TypeOK, NEW w \in Recorders
    PROVE  NewLine(w) \in Line /\ IsRecord(NewLine(w))
BY DEF NewLine, RecordLine, Line, TypeOK, IsRecord

(* A torn line breaks no segment, wherever the segment ended.              *)
LEMMA TearKeepsSegments ==
    ASSUME TypeOK, SegmentsChained, unended => log # <<>>, log' = Written(Torn)
    PROVE  (SegmentsChained)'
<1>1. ~IsRecord(Torn) /\ Torn \in Line
  BY DEF Torn, IsRecord, Line, NoHash
<1>2. Len(log) \in Nat /\ unended \in BOOLEAN
  BY DEF TypeOK
<1>3. CASE unended
  BY <1>1, <1>2, <1>3, WrittenLines DEF SegmentsChained, Follows
<1>4. CASE ~unended
  BY <1>1, <1>2, <1>4, WrittenLines DEF SegmentsChained, Follows
<1> QED
  BY <1>2, <1>3, <1>4

(* A line written by a recorder whose tail is current continues the last   *)
(* segment, starts one, or is lost in the torn line it runs into.          *)
LEMMA LineKeepsSegments ==
    ASSUME ChainInv, NEW w \in Recorders, pc[w] = "tailed",
           log' = Written(NewLine(w))
    PROVE  (SegmentsChained)'
<1> USE DEF ChainInv
<1>0. NewLine(w) \in Line /\ (unended => log # <<>>)
  BY NewLineType DEF Numbered
<1>1. CASE unended
  <2>1. log' = Written(Torn)
    BY <1>1 DEF Written
  <2> QED
    BY <2>1, <1>0, TearKeepsSegments
<1>2. CASE ~unended
  <2>1. /\ Len(log') = Len(log) + 1
        /\ log'[Len(log) + 1] = NewLine(w)
        /\ \A i \in 1..Len(log) : log'[i] = log[i]
        /\ Len(log) \in Nat
    BY <1>0, <1>2, WrittenLines DEF TypeOK
  <2>3. tail[w] = ChainState(log)
    BY DEF TailIsCurrent
  <2>4. CASE log # <<>> /\ IsRecord(log[Len(log)])
    <3>1. Follows(log[Len(log)], NewLine(w)) /\ Len(log) >= 1
      BY <2>1, <2>3, <2>4 DEF Follows, NewLine, RecordLine, ChainState, TypeOK
    <3> QED
      BY <2>1, <2>4, <3>1 DEF SegmentsChained
  <2>5. CASE ~(log # <<>> /\ IsRecord(log[Len(log)]))
    <3>1. NewLine(w).seq = 1 /\ NewLine(w).prev = NoHash
      BY <2>3, <2>5 DEF NewLine, RecordLine, ChainState, NoTail, NoHash
    <3>2. Len(log) = 0 \/ ~IsRecord(log[Len(log)])
      BY <2>5 DEF TypeOK
    <3> QED
      BY <2>1, <3>1, <3>2 DEF SegmentsChained
  <2> QED
    BY <2>4, <2>5
<1> QED
  BY <1>1, <1>2 DEF TypeOK

LEMMA InitChainInv ==
    ASSUME BoundAssumption, NobodyAssumption, Init PROVE ChainInv
<1>1. Legacy \in Line /\ ~IsRecord(Legacy)
  BY DEF Legacy, Line, NoHash, IsRecord
<1>2. log \in Seq(Line) /\ Len(log) = LegacyLines
  BY <1>1 DEF Init, BoundAssumption
<1>3. TypeOK
  BY <1>2 DEF Init, TypeOK, NoTail, NoHash
<1>4. OneRecorder /\ TailIsCurrent /\ Numbered
  BY DEF Init, OneRecorder, TailIsCurrent, Numbered
<1>5. SegmentsChained
  BY <1>1, <1>2 DEF Init, SegmentsChained
<1> QED
  BY <1>3, <1>4, <1>5 DEF ChainInv

(* A recorder that leaves the block, or dies, gives its lock up and keeps  *)
(* nobody else's.                                                          *)
LEMMA LeaveKeepsOthers ==
    ASSUME ChainInv, NEW w \in Recorders, Leave(w)
    PROVE  /\ (OneRecorder)'
           /\ lock' \in Recorders \cup {Nobody}
           /\ pc' \in [Recorders -> {"idle", "waiting", "locked", "tailed"}]
           /\ event' \in [Recorders -> Nat]
           /\ tail' \in [Recorders -> [seq : Nat, hash : Nat]]
           /\ \A v \in Recorders : pc'[v] # "idle" =>
                 v # w /\ pc'[v] = pc[v] /\ event'[v] = event[v] /\ tail'[v] = tail[v]
           /\ nextId' = nextId
<1> USE DEF ChainInv, Leave, Goto, TypeOK
<1>1. NoTail \in [seq : Nat, hash : Nat]
  BY DEF NoTail, NoHash
<1>2. (OneRecorder)'
  BY DEF OneRecorder
<1> QED
  BY <1>1, <1>2

(* Every write is made by the recorder that holds the lock: no other one   *)
(* has a tail that the write could make stale.                             *)
LEMMA WriteKeepsChainInv ==
    ASSUME ChainInv, NEW w \in Recorders, pc[w] = "tailed", Leave(w),
           unended' \in BOOLEAN,
           NEW line \in {Torn, NewLine(w)}, log' = Written(line)
    PROVE  ChainInv'
<1>0. line \in Line /\ (unended => log # <<>>)
  BY NewLineType DEF Torn, Line, NoHash, ChainInv, Numbered
<1>1. log' \in Seq(Line) /\ log' # <<>>
  BY <1>0, WrittenLines DEF ChainInv, TypeOK
<1>2. (TypeOK)'
  BY <1>1, LeaveKeepsOthers DEF ChainInv, TypeOK
<1>3. (TailIsCurrent)'
  BY LeaveKeepsOthers DEF ChainInv, TailIsCurrent, OneRecorder
<1>4. (Numbered)'
  BY <1>1, LeaveKeepsOthers DEF ChainInv, Numbered
<1>5. (SegmentsChained)'
  BY <1>0, TearKeepsSegments, LineKeepsSegments DEF ChainInv
<1> QED
  BY <1>2, <1>3, <1>4, <1>5, LeaveKeepsOthers DEF ChainInv

LEMMA NextChainInv ==
    ASSUME BoundAssumption, NobodyAssumption, ChainInv, [Next]_vars
    PROVE  ChainInv'
<1>1. ASSUME NEW w \in Recorders, Begin(w) PROVE ChainInv'
  <2> USE <1>1 DEF Begin, Goto, ChainInv
  <2>1. (TypeOK)'
    BY DEF TypeOK
  <2>2. (Numbered)'
    BY DEF Numbered, TypeOK, BoundAssumption
  <2>3. (OneRecorder)' /\ (TailIsCurrent)' /\ (SegmentsChained)'
    BY DEF OneRecorder, TailIsCurrent, SegmentsChained, TypeOK
  <2> QED
    BY <2>1, <2>2, <2>3
<1>2. ASSUME NEW w \in Recorders, Acquire(w) PROVE ChainInv'
  <2> USE <1>2 DEF Acquire, Goto, ChainInv
  <2>1. (TypeOK)'
    BY DEF TypeOK
  <2>2. (OneRecorder)'
    BY NobodyAssumption DEF OneRecorder, TypeOK, NobodyAssumption
  <2>3. (Numbered)' /\ (TailIsCurrent)' /\ (SegmentsChained)'
    BY DEF Numbered, TailIsCurrent, SegmentsChained, TypeOK
  <2> QED
    BY <2>1, <2>2, <2>3
<1>3. ASSUME NEW w \in Recorders, ReadTail(w) PROVE ChainInv'
  <2> USE <1>3 DEF ReadTail, Goto, ChainInv
  <2>1. (TypeOK)'
    BY ChainStateType DEF TypeOK
  <2>2. (TailIsCurrent)' /\ (OneRecorder)'
    BY DEF TailIsCurrent, OneRecorder, TypeOK
  <2>3. (Numbered)' /\ (SegmentsChained)'
    BY DEF Numbered, SegmentsChained, TypeOK
  <2> QED
    BY <2>1, <2>2, <2>3
<1>4. ASSUME NEW w \in Recorders, AppendLine(w) PROVE ChainInv'
  BY <1>4, WriteKeepsChainInv DEF AppendLine
<1>5. ASSUME NEW w \in Recorders, Crash(w) PROVE ChainInv'
  <2>1. (TypeOK)' /\ (OneRecorder)'
    BY <1>5, LeaveKeepsOthers DEF Crash, ChainInv, TypeOK
  <2>2. (TailIsCurrent)' /\ (Numbered)' /\ (SegmentsChained)'
    BY <1>5, LeaveKeepsOthers
    DEF Crash, ChainInv, TailIsCurrent, Numbered, SegmentsChained
  <2> QED
    BY <2>1, <2>2 DEF ChainInv
<1>6. ASSUME NEW w \in Recorders, Tear(w) PROVE ChainInv'
  BY <1>6, WriteKeepsChainInv DEF Tear
<1>7. CASE UNCHANGED vars
  BY <1>7 DEF vars, ChainInv, TypeOK, OneRecorder, TailIsCurrent, Numbered,
              SegmentsChained
<1> QED
  BY <1>1, <1>2, <1>3, <1>4, <1>5, <1>6, <1>7 DEF Next

-----------------------------------------------------------------------------
(* The invariant of the log and of its recorders, for every behaviour.     *)
LEMMA ChainInvHolds == Spec => []ChainInv
<1>1. Init => ChainInv
  BY InitChainInv, BoundAssumption, NobodyAssumption
<1>2. ChainInv /\ [Next]_vars => ChainInv'
  BY NextChainInv, BoundAssumption, NobodyAssumption
<1> QED
  BY <1>1, <1>2, PTL DEF Spec

(* However many processes record events, and wherever they die, adjacent   *)
(* records of activity.jsonl are chained and a chain restarts only after a *)
(* line that is no record.                                                 *)
THEOREM RecordsAreChained == Spec => []SegmentsChained
<1>1. ChainInv => SegmentsChained
  BY DEF ChainInv
<1> QED
  BY <1>1, ChainInvHolds, PTL

(* Every state of the log and of its recorders is well typed.              *)
THEOREM ActivityTypeCorrect == Spec => []TypeOK
<1>1. ChainInv => TypeOK
  BY DEF ChainInv
<1> QED
  BY <1>1, ChainInvHolds, PTL

(* No step of any process changes a line that its writer ended.            *)
THEOREM LogIsAppendOnly == Spec => AppendOnly
<1>1. ASSUME ChainInv, [Next]_vars PROVE [AppendOnlyStep]_vars
  <2>1. ASSUME NEW line \in Line, log' = Written(line) PROVE AppendOnlyStep
    BY <1>1, <2>1, WrittenLines DEF AppendOnlyStep, ChainInv, Numbered, TypeOK
  <2>2. ASSUME UNCHANGED log PROVE AppendOnlyStep
    BY <1>1, <2>2 DEF AppendOnlyStep, ChainInv, TypeOK
  <2>3. \A w \in Recorders : NewLine(w) \in Line /\ Torn \in Line
    BY <1>1, NewLineType DEF ChainInv, Torn, Line, NoHash
  <2> QED
    BY <1>1, <2>1, <2>2, <2>3
    DEF Next, Begin, Acquire, ReadTail, AppendLine, Crash, Tear, vars
<1> QED
  BY <1>1, ChainInvHolds, PTL DEF Spec, AppendOnly

-----------------------------------------------------------------------------
(* A record's number counts the records since the last line that is none.  *)
Counted(s) ==
    \A i \in 1..Len(s) : IsRecord(s[i]) =>
        /\ i - s[i].seq \in 0..i
        /\ i - s[i].seq = 0 \/ ~IsRecord(s[i - s[i].seq])
        /\ \A j \in (i - s[i].seq + 1)..i : IsRecord(s[j])

(* Only a torn write leaves a line unended.                                *)
TornOnly == unended => Tears

(* There is one last break, so the last segment is the lines behind it.    *)
LEMMA LastSegmentIs ==
    ASSUME NEW s \in Seq(Line), NEW b \in 0..Len(s), IsLastBreak(s, b)
    PROVE  LastSegment(s) = SubSeq(s, b + 1, Len(s))
<1>1. ASSUME NEW c \in 0..Len(s), IsLastBreak(s, c) PROVE c = b
  <2>1. CASE c < b
    BY <1>1, <2>1 DEF IsLastBreak
  <2>2. CASE b < c
    BY <1>1, <2>2 DEF IsLastBreak
  <2> QED
    BY <1>1, <2>1, <2>2
<1>2. (CHOOSE c \in 0..Len(s) : IsLastBreak(s, c)) = b
  BY <1>1
<1> QED
  BY <1>2 DEF LastSegment

(* After a line that is no record the chain is empty.                      *)
LEMMA BrokenEnd ==
    ASSUME NEW s \in Seq(Line), s = <<>> \/ ~IsRecord(s[Len(s)])
    PROVE  LastSegment(s) = <<>>
<1>1. IsLastBreak(s, Len(s)) /\ Len(s) \in 0..Len(s)
  BY DEF IsLastBreak
<1>2. LastSegment(s) = SubSeq(s, Len(s) + 1, Len(s))
  BY <1>1, LastSegmentIs
<1> QED
  BY <1>2

(* A file that ends in a record numbered n ends in a chain of n records.   *)
LEMMA UnbrokenEnd ==
    ASSUME NEW s \in Seq(Line), Counted(s), s # <<>>, IsRecord(s[Len(s)]),
           NEW n, n = s[Len(s)].seq
    PROVE  /\ n \in 1..Len(s) /\ Len(s) - n \in 0..Len(s)
           /\ IsLastBreak(s, Len(s) - n)
           /\ LastSegment(s) = SubSeq(s, Len(s) - n + 1, Len(s))
<1>0. Len(s) \in 1..Len(s) /\ s[Len(s)] \in Line
  OBVIOUS
<1>1. Len(s) \in 1..Len(s) /\ n \in Nat
  BY <1>0 DEF Line
<1>2. Len(s) - n \in 0..Len(s) /\ IsLastBreak(s, Len(s) - n)
  BY <1>1 DEF Counted, IsLastBreak
<1>3. n >= 1
  BY <1>1, <1>2 DEF IsLastBreak
<1> QED
  BY <1>1, <1>2, <1>3, LastSegmentIs

(* A torn end of the file is an empty chain.                               *)
LEMMA TornEnd ==
    ASSUME TypeOK, Counted(log), unended => log # <<>>
    PROVE  Counted(Written(Torn)) /\ LastSegment(Written(Torn)) = <<>>
<1>1. Torn \in Line /\ ~IsRecord(Torn)
  BY DEF Torn, Line, NoHash, IsRecord
<1>2. log \in Seq(Line) /\ unended \in BOOLEAN /\ Len(log) \in Nat
  BY DEF TypeOK
<1> DEFINE s == Written(Torn)
<1>3. s \in Seq(Line) /\ s # <<>> /\ s[Len(s)] = Torn
  BY <1>1, <1>2, WrittenLines
<1>4. /\ Len(s) \in {Len(log), Len(log) + 1}
      /\ \A i \in 1..(Len(s) - 1) : i \in 1..Len(log) /\ s[i] = log[i]
  BY <1>1, <1>2, WrittenLines
<1>5. Counted(s)
  <2> SUFFICES ASSUME NEW i \in 1..Len(s), IsRecord(s[i])
               PROVE  /\ i - s[i].seq \in 0..i
                      /\ i - s[i].seq = 0 \/ ~IsRecord(s[i - s[i].seq])
                      /\ \A j \in (i - s[i].seq + 1)..i : IsRecord(s[j])
    BY DEF Counted
  <2>1. i \in 1..(Len(s) - 1) /\ i \in 1..Len(log) /\ s[i] = log[i]
    BY <1>1, <1>2, <1>3, <1>4
  <2>2. /\ i - log[i].seq \in 0..i
        /\ i - log[i].seq = 0 \/ ~IsRecord(log[i - log[i].seq])
        /\ \A j \in (i - log[i].seq + 1)..i : IsRecord(log[j])
    BY <2>1 DEF Counted
  <2>3. log[i] \in Line
    BY <1>2, <2>1
  <2>4. log[i].seq \in Nat
    BY <2>3 DEF Line
  <2> DEFINE b == i - log[i].seq
  <2>5. \A j \in 1..i : s[j] = log[j]
    BY <1>2, <1>4, <2>1
  <2>6. b = 0 \/ b \in 1..i
    BY <2>1, <2>2, <2>4
  <2>7. b = 0 \/ ~IsRecord(s[b])
    BY <2>2, <2>5, <2>6
  <2>8. \A j \in (b + 1)..i : j \in 1..i /\ IsRecord(s[j])
    BY <2>1, <2>2, <2>4, <2>5
  <2> QED
    BY <2>1, <2>2, <2>7, <2>8
<1> QED
  BY <1>1, <1>3, <1>5, BrokenEnd

(* The last k lines of a file are k lines and end as the file does.        *)
LEMMA LastOfSubSeq ==
    ASSUME NEW s \in Seq(Line), NEW k \in 1..Len(s)
    PROVE  LET t == SubSeq(s, Len(s) - k + 1, Len(s))
           IN  Len(t) = k /\ t[k] = s[Len(s)] /\ t # <<>>
<1> DEFINE a == Len(s) - k + 1
           t == SubSeq(s, a, Len(s))
<1>1. a \in 1..Len(s) /\ Len(s) \in Nat /\ a + k - 1 = Len(s) /\ k \in 1..(Len(s) - a + 1)
  OBVIOUS
<1>2. Len(t) = k /\ \A i \in 1..(Len(s) - a + 1) : t[i] = s[a + i - 1]
  <2>1. /\ a \in Int /\ Len(s) \in Int /\ a <= Len(s) /\ Len(s) - a + 1 = k
        /\ \A i \in a..Len(s) : s[i] \in Line
    OBVIOUS
  <2> HIDE DEF a
  <2>2. /\ Len(t) = IF a <= Len(s) THEN Len(s) - a + 1 ELSE 0
        /\ \A i \in 1..(Len(s) - a + 1) : t[i] = s[a + i - 1]
    BY ONLY <2>1, SubSeqProperties
  <2> QED
    BY <2>1, <2>2
<1> HIDE DEF a, t
<1>3. t[k] = s[Len(s)] /\ t # <<>>
  BY <1>1, <1>2
<1> QED
  BY <1>2, <1>3 DEF t, a

(* A record appended to a file makes its last segment longer.              *)
LEMMA SegmentGrows ==
    ASSUME NEW s \in Seq(Line), NEW b \in 0..Len(s), IsLastBreak(s, b),
           NEW line \in Line, IsRecord(line)
    PROVE  LastSegment(Append(s, line)) = Append(LastSegment(s), line)
<1> DEFINE t == Append(s, line)
<1>1. t \in Seq(Line) /\ Len(t) = Len(s) + 1 /\ Len(s) \in Nat
  OBVIOUS
<1>2. t[Len(s) + 1] = line /\ \A i \in 1..Len(s) : t[i] = s[i]
  OBVIOUS
<1>3. IsLastBreak(t, b) /\ b \in 0..Len(t)
  BY <1>1, <1>2 DEF IsLastBreak
<1>4. LastSegment(t) = SubSeq(t, b + 1, Len(s) + 1)
  BY <1>1, <1>3, LastSegmentIs
<1>5. LastSegment(s) = SubSeq(s, b + 1, Len(s))
  BY LastSegmentIs
<1>6. SubSeq(t, b + 1, Len(s) + 1) = Append(SubSeq(s, b + 1, Len(s)), line)
  <2> DEFINE u == SubSeq(t, b + 1, Len(s) + 1)
             v == Append(SubSeq(s, b + 1, Len(s)), line)
  <2>1. /\ u \in Seq(Line) /\ Len(u) = Len(s) - b + 1
        /\ \A i \in 1..(Len(s) - b + 1) : u[i] = t[b + i]
    BY <1>1
  <2>2. /\ v \in Seq(Line) /\ Len(v) = Len(s) - b + 1
        /\ \A i \in 1..(Len(s) - b) : v[i] = s[b + i]
        /\ v[Len(s) - b + 1] = line
    BY <1>1
  <2>3. \A i \in 1..(Len(s) - b + 1) : u[i] = v[i]
    BY <1>1, <1>2, <2>1, <2>2
  <2> HIDE DEF u, v
  <2>4. u = v
    BY ONLY <2>1, <2>2, <2>3, SeqEqual
  <2> QED
    BY <2>4 DEF u, v
<1> QED
  BY <1>4, <1>5, <1>6

(* ... and its number is the length of the segment.                        *)
LEMMA CountedGrows ==
    ASSUME NEW s \in Seq(Line), Counted(s), NEW b \in 0..Len(s), IsLastBreak(s, b),
           NEW line \in Line, IsRecord(line), line.seq = Len(s) - b + 1
    PROVE  Counted(Append(s, line))
<1> DEFINE t == Append(s, line)
<1>1. Len(t) = Len(s) + 1 /\ Len(s) \in Nat
  OBVIOUS
<1>2. t[Len(s) + 1] = line /\ \A i \in 1..Len(s) : t[i] = s[i]
  OBVIOUS
<1> HIDE DEF t
<1> SUFFICES ASSUME NEW i \in 1..Len(t), IsRecord(t[i])
             PROVE  /\ i - t[i].seq \in 0..i
                    /\ i - t[i].seq = 0 \/ ~IsRecord(t[i - t[i].seq])
                    /\ \A j \in (i - t[i].seq + 1)..i : IsRecord(t[j])
  BY DEF Counted, t
<1>3. CASE i = Len(s) + 1
  <2>1. i - t[i].seq = b
    BY <1>1, <1>2, <1>3
  <2> QED
    BY <1>1, <1>2, <1>3, <2>1 DEF IsLastBreak
<1>4. CASE i \in 1..Len(s)
  <2>1. s[i] \in Line /\ t[i] = s[i]
    BY <1>2, <1>4
  <2>2. s[i].seq \in Nat
    BY <2>1 DEF Line
  <2>3. /\ i - s[i].seq \in 0..i
        /\ i - s[i].seq = 0 \/ ~IsRecord(s[i - s[i].seq])
        /\ \A j \in (i - s[i].seq + 1)..i : IsRecord(s[j])
    BY <1>4, <2>1 DEF Counted
  <2> DEFINE d == i - s[i].seq
  <2>4. d = 0 \/ d \in 1..Len(s)
    BY <1>1, <1>4, <2>2, <2>3
  <2>5. d = 0 \/ ~IsRecord(t[d])
    BY <1>2, <2>3, <2>4
  <2>6. \A j \in (d + 1)..i : j \in 1..Len(s) /\ IsRecord(t[j])
    BY <1>1, <1>2, <1>4, <2>2, <2>3
  <2> QED
    BY <2>1, <2>3, <2>5, <2>6
<1> QED
  BY <1>1, <1>3, <1>4

(* A record appended to a current tail is linked to the chain.             *)
LEMMA RecordContinuesTheChain ==
    ASSUME ChainInv, Counted(log), NEW w \in Recorders, pc[w] = "tailed", ~unended
    PROVE  /\ Counted(Written(NewLine(w)))
           /\ LastSegment(Written(NewLine(w))) =
                Append(LastSegment(log), Log!Link(LastSegment(log), event[w]))
<1> DEFINE line == NewLine(w)
<1>1. log \in Seq(Line) /\ Len(log) \in Nat /\ line \in Line /\ IsRecord(line)
  BY NewLineType DEF ChainInv, TypeOK
<1>2. Written(line) = Append(log, line)
  BY DEF Written
<1>3. tail[w] = ChainState(log)
  BY DEF ChainInv, TailIsCurrent
<1>4. CASE log # <<>> /\ IsRecord(log[Len(log)])
  <2> DEFINE n == log[Len(log)].seq
             seg == LastSegment(log)
  <2>1. /\ n \in 1..Len(log) /\ Len(log) - n \in 0..Len(log)
        /\ IsLastBreak(log, Len(log) - n)
        /\ seg = SubSeq(log, Len(log) - n + 1, Len(log))
    BY <1>1, <1>4, UnbrokenEnd DEF ChainInv
  <2> HIDE DEF seg
  <2>2. Len(seg) = n /\ seg[n] = log[Len(log)] /\ seg # <<>>
    <3> HIDE DEF n
    <3> QED
      BY <1>1, <2>1, LastOfSubSeq
  <2>3. tail[w] = [seq |-> n, hash |-> log[Len(log)].id]
    BY <1>3, <1>4 DEF ChainState
  <2>4. line = Log!Link(seg, event[w])
    BY <2>2, <2>3 DEF NewLine, RecordLine, Log!Link, Log!LastHash
  <2>5. line.seq = Len(log) - (Len(log) - n) + 1
    BY <1>1, <2>1, <2>3 DEF NewLine, RecordLine
  <2>6. Counted(Append(log, line))
    BY <1>1, <2>1, <2>5, CountedGrows
  <2>7. LastSegment(Append(log, line)) = Append(seg, line)
    BY <1>1, <2>1, SegmentGrows DEF seg
  <2> QED
    BY <1>2, <2>4, <2>6, <2>7 DEF seg
<1>5. CASE ~(log # <<>> /\ IsRecord(log[Len(log)]))
  <2>1. LastSegment(log) = <<>>
    BY <1>1, <1>5, BrokenEnd
  <2>2. line = Log!Link(<<>>, event[w]) /\ line.seq = 1
    <3>1. tail[w] = NoTail
      BY <1>3, <1>5 DEF ChainState
    <3>2. line = RecordLine(1, NoHash, event[w])
      BY <3>1 DEF NewLine, NoTail
    <3> QED
      BY <3>2 DEF RecordLine, NoHash, Log!Link, Log!LastHash, Log!NoHash
  <2>3. Len(log) = 0 \/ ~IsRecord(log[Len(log)])
    BY <1>1, <1>5
  <2>4. IsLastBreak(log, Len(log)) /\ Len(log) \in 0..Len(log)
    BY <1>1, <2>3 DEF IsLastBreak
  <2>5. Counted(Append(log, line))
    BY <1>1, <2>2, <2>4, CountedGrows
  <2>6. LastSegment(Append(log, line)) = Append(<<>>, line)
    BY <1>1, <2>1, <2>4, SegmentGrows
  <2> QED
    BY <1>2, <2>1, <2>2, <2>5, <2>6
<1> QED
  BY <1>4, <1>5

(* Recorders that interleave, crash between their steps and tear their     *)
(* lines implement the abstract log, in which events are appended          *)
(* atomically to a chain and only a torn line restarts it.                 *)
THEOREM ImplementsActivityLog == Spec => OneChain
<1>1. ASSUME Init PROVE Counted(log) /\ TornOnly /\ Log!Init
  <2>1. /\ log \in Seq(Line) /\ Len(log) = LegacyLines
        /\ \A i \in 1..Len(log) : ~IsRecord(log[i])
    BY <1>1, BoundAssumption DEF Init, Legacy, Line, NoHash, IsRecord, BoundAssumption
  <2>2. Counted(log) /\ TornOnly
    BY <1>1, <2>1 DEF Init, Counted, TornOnly
  <2>3. log = <<>> \/ ~IsRecord(log[Len(log)])
    BY <2>1, BoundAssumption DEF BoundAssumption
  <2>4. LastSegment(log) = <<>>
    BY <2>1, <2>3, BrokenEnd
  <2> QED
    BY <2>2, <2>4 DEF Log!Init
<1>2. ASSUME ChainInv, Counted(log), TornOnly, [Next]_vars
      PROVE  Counted(log)' /\ TornOnly' /\ [Log!Next]_(LastSegment(log))
  <2>1. ASSUME NEW w \in Recorders, pc[w] = "tailed", ~unended,
               log' = Written(NewLine(w))
        PROVE  Counted(log)' /\ Log!Next
    <3>1. event[w] \in 1..MaxId
      BY <1>2, <2>1 DEF ChainInv, Numbered
    <3>2. /\ Counted(log')
          /\ LastSegment(log') =
               Append(LastSegment(log), Log!Link(LastSegment(log), event[w]))
      BY <1>2, <2>1, RecordContinuesTheChain
    <3> QED
      BY <3>1, <3>2 DEF Log!Next, Log!Record
  <2>2. ASSUME Tears, log' = Written(Torn) PROVE Counted(log)' /\ Log!Next
    <3>1. Counted(log') /\ LastSegment(log') = <<>>
      BY <1>2, <2>2, TornEnd DEF ChainInv, Numbered
    <3> QED
      BY <2>2, <3>1 DEF Log!Next, Log!Restart
  <2>3. unended => \A line \in Line : Written(line) = Written(Torn)
    BY DEF Written
  <2>4. ASSUME NEW w \in Recorders, AppendLine(w)
        PROVE  Counted(log)' /\ TornOnly' /\ Log!Next
    <3>1. NewLine(w) \in Line
      BY <1>2, NewLineType DEF ChainInv
    <3> QED
      BY <1>2, <2>1, <2>2, <2>3, <2>4, <3>1 DEF AppendLine, TornOnly
  <2>5. ASSUME NEW w \in Recorders, Tear(w)
        PROVE  Counted(log)' /\ TornOnly' /\ Log!Next
    <3>1. NewLine(w) \in Line
      BY <1>2, NewLineType DEF ChainInv
    <3> QED
      BY <1>2, <2>1, <2>2, <2>3, <2>5, <3>1 DEF Tear, TornOnly
  <2>6. ASSUME UNCHANGED <<log, unended>>
        PROVE  Counted(log)' /\ TornOnly' /\ UNCHANGED LastSegment(log)
    BY <1>2, <2>6 DEF TornOnly
  <2> QED
    BY <1>2, <2>4, <2>5, <2>6 DEF Next, Begin, Acquire, ReadTail, Crash, vars
<1> QED
  BY <1>1, <1>2, ChainInvHolds, PTL DEF Spec, OneChain, Log!Spec

-----------------------------------------------------------------------------
(* The verifier, which walks over the lines.                               *)

(* Lines of older versions come before all others.                         *)
LegacyFirst ==
    \A i \in 1..Len(log) : log[i].kind = "legacy" =>
        log[i] = Legacy /\ \A j \in 1..i : log[j].kind = "legacy"

TornAlike == \A i \in 1..Len(log) : log[i].kind = "torn" => log[i] = Torn

LinesAlike == ChainInv /\ LegacyFirst /\ TornAlike

(* A set of natural numbers that holds 0 and the successor of each of its  *)
(* numbers up to n holds all of them.                                      *)
LEMMA UpTo ==
    ASSUME NEW n \in Nat, NEW P, 0 \in P,
           \A i \in 0..(n - 1) : i \in P => i + 1 \in P
    PROVE  \A i \in 0..n : i \in P
<1> DEFINE missing == {i \in 0..n : i \notin P}
           less == OpToRel(<, Nat)
<1>1. SUFFICES ASSUME missing # {} PROVE FALSE
  OBVIOUS
<1>2. PICK m \in missing : \A k \in missing : <<k, m>> \notin less
  <2>1. missing \subseteq Nat
    OBVIOUS
  <2>2. IsWellFoundedOn(less, Nat)
    BY NatLessThanWellFounded DEF less
  <2> HIDE DEF missing, less
  <2> QED BY <1>1, <2>1, <2>2, WFMin
<1>3. m \in 0..n /\ m \notin P /\ m # 0
  BY <1>2
<1>4. m - 1 \in 0..(n - 1) /\ (m - 1) + 1 = m
  BY <1>3
<1>5. m - 1 \notin P
  BY <1>3, <1>4
<1>6. m - 1 \in missing
  BY <1>4, <1>5
<1>7. <<m - 1, m>> \in less
  BY <1>3 DEF OpToRel
<1> QED BY <1>2, <1>6, <1>7

(* f is the walk over the first n lines of s.                              *)
IsWalk(f, n, s, fromSeq, strict) ==
    f = [i \in 0..n |-> IF i = 0 THEN Start ELSE Visit(f[i - 1], s[i], i, fromSeq, strict)]

(* There is a walk over any number of lines.                               *)
LEMMA WalkExists ==
    ASSUME NEW n \in Nat, NEW s, NEW fromSeq, NEW strict
    PROVE  \E f : IsWalk(f, n, s, fromSeq, strict)
<1> DEFINE P == {i \in 0..n : \E f : IsWalk(f, i, s, fromSeq, strict)}
<1>1. 0 \in P
  <2>1. IsWalk([i \in 0..0 |-> Start], 0, s, fromSeq, strict)
    BY DEF IsWalk
  <2> QED BY <2>1
<1>2. ASSUME NEW i \in 0..(n - 1), i \in P PROVE i + 1 \in P
  <2>1. PICK f : IsWalk(f, i, s, fromSeq, strict)
    BY <1>2
  <2> DEFINE g == [k \in 0..(i + 1) |->
                     IF k = i + 1 THEN Visit(f[i], s[i + 1], i + 1, fromSeq, strict) ELSE f[k]]
  <2>2. \A k \in 0..i :
          /\ g[k] = f[k]
          /\ f[k] = IF k = 0 THEN Start ELSE Visit(f[k - 1], s[k], k, fromSeq, strict)
    BY <2>1 DEF IsWalk
  <2>3. g[i + 1] = Visit(g[i], s[i + 1], i + 1, fromSeq, strict)
    BY <2>2
  <2>4. \A k \in 0..(i + 1) :
          g[k] = IF k = 0 THEN Start ELSE Visit(g[k - 1], s[k], k, fromSeq, strict)
    <3> TAKE k \in 0..(i + 1)
    <3>1. CASE k = i + 1
      BY <3>1, <2>3
    <3>2. CASE k = 0
      <4>1. 0 \in 0..i /\ 0 # i + 1
        OBVIOUS
      <4>2. g[0] = Start
        BY <2>2, <4>1
      <4> QED BY <3>2, <4>2
    <3>3. CASE k # 0 /\ k # i + 1
      <4>1. k \in 0..i /\ k - 1 \in 0..i
        BY <3>3
      <4> HIDE DEF g
      <4> QED BY <3>3, <4>1, <2>2
    <3> QED BY <3>1, <3>2, <3>3
  <2>5. IsWalk(g, i + 1, s, fromSeq, strict)
    <3>1. g = [k \in 0..(i + 1) |-> g[k]]
      OBVIOUS
    <3> HIDE DEF g
    <3> QED BY <2>4, <3>1 DEF IsWalk
  <2> HIDE DEF g
  <2>6. i + 1 \in 0..n
    OBVIOUS
  <2> QED BY <2>5, <2>6
<1> HIDE DEF P
<1>3. n \in P
  BY <1>1, <1>2, UpTo
<1> QED BY <1>3 DEF P

(* What verify_chain reports is what a walk over all lines has found.      *)
LEMMA BreaksOfWalk ==
    ASSUME NEW s, Len(s) \in Nat, NEW fromSeq, NEW strict
    PROVE  \E f : /\ IsWalk(f, Len(s), s, fromSeq, strict)
                  /\ Breaks(s, fromSeq, strict) = f[Len(s)].breaks
<1> DEFINE w == CHOOSE f : IsWalk(f, Len(s), s, fromSeq, strict)
<1>1. IsWalk(w, Len(s), s, fromSeq, strict)
  BY WalkExists
<1>2. Breaks(s, fromSeq, strict) = w[Len(s)].breaks
  BY DEF Breaks, IsWalk
<1> QED BY <1>1, <1>2

WalkState == [seq : Nat, hash : Nat, started : BOOLEAN, breaks : SUBSET Nat]

(* What a visit makes of a line, by the line's kind.                       *)
Visited(v, st, l, i, fromSeq, strict) ==
    /\ v \in WalkState
    /\ l.kind # "record" => v.started = st.started /\ v.seq = st.seq /\ v.hash = st.hash
    /\ l.kind = "torn" \/ (l.kind = "legacy" /\ strict) => v.breaks = st.breaks \cup {i}
    /\ l.kind = "legacy" /\ ~strict => v.breaks = st.breaks
    /\ l.kind = "record" /\ l.seq < fromSeq => v = st
    /\ l.kind = "record" /\ l.seq >= fromSeq =>
         /\ v.started /\ v.seq = l.seq /\ v.hash = l.id
         /\ v.breaks = IF st.started /\ ~(l.seq = st.seq + 1 /\ l.prev = st.hash)
                       THEN st.breaks \cup {i} ELSE st.breaks

LEMMA VisitCases ==
    ASSUME NEW st \in WalkState, NEW l \in Line, NEW i \in Nat,
           NEW fromSeq \in Nat, NEW strict \in BOOLEAN
    PROVE  Visited(Visit(st, l, i, fromSeq, strict), st, l, i, fromSeq, strict)
<1> DEFINE v == Visit(st, l, i, fromSeq, strict)
<1> SUFFICES Visited(v, st, l, i, fromSeq, strict)
  OBVIOUS
<1> DEFINE broken == [st EXCEPT !.breaks = @ \cup {i}]
<1>1. /\ l.kind \in {"torn", "legacy", "record"} /\ l.seq \in Nat /\ l.id \in Nat
      /\ st.seq \in Nat /\ st.hash \in Nat /\ st.started \in BOOLEAN /\ st.breaks \in SUBSET Nat
  BY DEF Line, WalkState
<1>2. /\ broken \in WalkState /\ broken.breaks = st.breaks \cup {i}
      /\ broken.started = st.started /\ broken.seq = st.seq /\ broken.hash = st.hash
  BY DEF WalkState
<1>3. CASE l.kind = "torn"
  <2>1. v = broken
    BY <1>3 DEF Visit
  <2> HIDE DEF v
  <2> QED BY <1>2, <1>3, <2>1 DEF Visited
<1>4. CASE l.kind = "legacy"
  <2>1. v = IF strict THEN broken ELSE st
    BY <1>4 DEF Visit
  <2> HIDE DEF v
  <2> QED BY <1>2, <1>4, <2>1 DEF Visited
<1>5. CASE l.kind = "record" /\ l.seq < fromSeq
  <2>1. v = st /\ ~(l.seq >= fromSeq)
    BY <1>1, <1>5 DEF Visit
  <2> HIDE DEF v
  <2> QED BY <1>5, <2>1 DEF Visited
<1>6. CASE l.kind = "record" /\ l.seq >= fromSeq
  <2>1. ~(l.seq < fromSeq)
    BY <1>1, <1>6
  <2>2. v = IF ~st.started \/ (l.seq = st.seq + 1 /\ l.prev = st.hash)
            THEN Anchor(st, l) ELSE Anchor(broken, l)
    BY <1>6, <2>1 DEF Visit
  <2>3. \A q \in WalkState : /\ Anchor(q, l) \in WalkState
                             /\ Anchor(q, l).started /\ Anchor(q, l).seq = l.seq
                             /\ Anchor(q, l).hash = l.id /\ Anchor(q, l).breaks = q.breaks
    BY <1>1 DEF Anchor, WalkState
  <2> HIDE DEF broken, v
  <2> QED BY <1>1, <1>2, <1>6, <2>1, <2>2, <2>3 DEF Visited
<1> QED BY <1>1, <1>3, <1>4, <1>5, <1>6

(* Where the plain walk f and the strict walk g stand after i lines.       *)
PlainWalk(f, g, i) ==
    /\ f[i] \in WalkState /\ g[i] \in WalkState
    /\ f[i].started => \E j \in 1..i : IsRecord(log[j])
    /\ i > 0 /\ IsRecord(log[i]) =>
         f[i].started /\ f[i].seq = log[i].seq /\ f[i].hash = log[i].id
    /\ \A t \in 1..i : log[t] = Torn => t \in f[i].breaks
    /\ \A b \in f[i].breaks :
         /\ b \in 1..i
         /\ log[b] = Torn \/ (b > 1 /\ log[b - 1] = Torn)
    /\ g[i].seq = f[i].seq /\ g[i].hash = f[i].hash /\ g[i].started = f[i].started
    /\ g[i].breaks = f[i].breaks \cup {j \in 1..i : log[j] = Legacy}

(* A walk starts with nothing found and no line anchored.                  *)
LEMMA StartWalk == Start \in WalkState /\ ~Start.started /\ Start.breaks = {}
BY DEF Start, WalkState, NoHash

(* Torn and old lines are told apart, and neither is a record.             *)
LEMMA KindsDiffer ==
    /\ Torn.kind = "torn" /\ Legacy.kind = "legacy" /\ Torn # Legacy
    /\ \A l : IsRecord(l) <=> l.kind = "record"
<1>1. Torn.kind = "torn" /\ Legacy.kind = "legacy"
  BY DEF Torn, Legacy
<1>2. Torn # Legacy
  BY <1>1
<1> QED BY <1>1, <1>2 DEF IsRecord

(* One more line keeps the two walks together: a record that does not      *)
(* follow the anchor comes right after a torn line.                        *)
LEMMA PlainStep ==
    ASSUME LinesAlike, NEW f, NEW g, NEW i \in 0..(Len(log) - 1), PlainWalk(f, g, i),
           f[i + 1] = Visit(f[i], log[i + 1], i + 1, 0, FALSE),
           g[i + 1] = Visit(g[i], log[i + 1], i + 1, 0, TRUE)
    PROVE  PlainWalk(f, g, i + 1)
<1> DEFINE n == i + 1
           l == log[n]
<1>1. n \in 1..Len(log) /\ log \in Seq(Line) /\ Len(log) \in Nat /\ i \in Nat /\ n \in Nat
  BY DEF LinesAlike, ChainInv, TypeOK
<1>0. SUFFICES PlainWalk(f, g, n)
  OBVIOUS
<1>10. log[n] \in Line
  <2> HIDE DEF n
  <2> QED BY <1>1
<1>2. l \in Line /\ l.kind \in {"torn", "legacy", "record"} /\ l.seq \in Nat
  BY <1>10 DEF Line
<1>3. f[i] \in WalkState /\ g[i] \in WalkState
  BY DEF PlainWalk
<1>4. /\ f[n] \in WalkState /\ g[n] \in WalkState
      /\ l.kind # "record" =>
           /\ f[n].started = f[i].started /\ f[n].seq = f[i].seq /\ f[n].hash = f[i].hash
           /\ g[n].started = g[i].started /\ g[n].seq = g[i].seq /\ g[n].hash = g[i].hash
      /\ l.kind = "torn" => f[n].breaks = f[i].breaks \cup {n}
      /\ l.kind = "legacy" => f[n].breaks = f[i].breaks
      /\ l.kind # "record" => g[n].breaks = g[i].breaks \cup {n}
      /\ l.kind = "record" =>
           /\ f[n].started /\ f[n].seq = l.seq /\ f[n].hash = l.id
           /\ f[n].breaks = IF f[i].started /\ ~(l.seq = f[i].seq + 1 /\ l.prev = f[i].hash)
                            THEN f[i].breaks \cup {n} ELSE f[i].breaks
           /\ g[n].started /\ g[n].seq = l.seq /\ g[n].hash = l.id
           /\ g[n].breaks = IF g[i].started /\ ~(l.seq = g[i].seq + 1 /\ l.prev = g[i].hash)
                            THEN g[i].breaks \cup {n} ELSE g[i].breaks
  <2>1. l.seq >= 0 /\ 0 \in Nat /\ TRUE \in BOOLEAN /\ FALSE \in BOOLEAN
    BY <1>2
  <2> HIDE DEF l, n
  <2>2. f[n] = Visit(f[i], l, n, 0, FALSE) /\ g[n] = Visit(g[i], l, n, 0, TRUE)
    BY DEF l, n
  <2>3. Visited(f[n], f[i], l, n, 0, FALSE)
    BY <1>1, <1>2, <1>3, <2>1, <2>2, VisitCases
  <2>4. Visited(g[n], g[i], l, n, 0, TRUE)
    BY <1>1, <1>2, <1>3, <2>1, <2>2, VisitCases
  <2>5. /\ f[n] \in WalkState
        /\ l.kind # "record" =>
             f[n].started = f[i].started /\ f[n].seq = f[i].seq /\ f[n].hash = f[i].hash
        /\ l.kind = "torn" => f[n].breaks = f[i].breaks \cup {n}
        /\ l.kind = "legacy" => f[n].breaks = f[i].breaks
        /\ l.kind = "record" =>
             /\ f[n].started /\ f[n].seq = l.seq /\ f[n].hash = l.id
             /\ f[n].breaks = IF f[i].started /\ ~(l.seq = f[i].seq + 1 /\ l.prev = f[i].hash)
                              THEN f[i].breaks \cup {n} ELSE f[i].breaks
    BY <2>1, <2>3 DEF Visited
  <2>6. /\ g[n] \in WalkState
        /\ l.kind # "record" =>
             g[n].started = g[i].started /\ g[n].seq = g[i].seq /\ g[n].hash = g[i].hash
        /\ l.kind # "record" => g[n].breaks = g[i].breaks \cup {n}
        /\ l.kind = "record" =>
             /\ g[n].started /\ g[n].seq = l.seq /\ g[n].hash = l.id
             /\ g[n].breaks = IF g[i].started /\ ~(l.seq = g[i].seq + 1 /\ l.prev = g[i].hash)
                              THEN g[i].breaks \cup {n} ELSE g[i].breaks
    BY <1>2, <2>1, <2>4 DEF Visited
  <2> QED BY <2>5, <2>6
<1>5. \A j \in 1..n : j \in 1..i \/ j = n
  BY <1>1
<1>6. \A j \in 1..i : j \in 1..n /\ j \in 1..Len(log)
  BY <1>1
<1> HIDE DEF n
<1>7. CASE l.kind = "torn"
  <2>1. l = Torn /\ l # Legacy /\ ~IsRecord(l)
    BY <1>1, <1>7, KindsDiffer DEF LinesAlike, TornAlike
  <2>3. {j \in 1..n : log[j] = Legacy} = {j \in 1..i : log[j] = Legacy}
    BY <1>5, <1>6, <2>1
  <2>4. n \in 1..n
    BY <1>1
  <2> QED BY <1>4, <1>5, <1>6, <1>7, <2>1, <2>3, <2>4 DEF PlainWalk
<1>8. CASE l.kind = "legacy"
  <2>1. l = Legacy /\ l # Torn /\ ~IsRecord(l)
    BY <1>1, <1>8, KindsDiffer DEF LinesAlike, LegacyFirst
  <2>4. n \in 1..n
    BY <1>1
  <2>3. {j \in 1..n : log[j] = Legacy} = {j \in 1..i : log[j] = Legacy} \cup {n}
    BY <1>5, <1>6, <2>1, <2>4
  <2> QED BY <1>4, <1>5, <1>6, <1>8, <2>1, <2>3, <2>4 DEF PlainWalk
<1>9. CASE l.kind = "record"
  <2>1. IsRecord(l) /\ l # Legacy /\ l # Torn
    BY <1>9, KindsDiffer
  <2>2. n \in 1..n
    BY <1>1
  <2>3. {j \in 1..n : log[j] = Legacy} = {j \in 1..i : log[j] = Legacy}
    BY <1>5, <1>6, <2>1
  <2>4. ASSUME f[i].started, ~(l.seq = f[i].seq + 1 /\ l.prev = f[i].hash)
        PROVE  n > 1 /\ log[n - 1] = Torn
    <3>1. PICK j \in 1..i : IsRecord(log[j])
      BY <2>4 DEF PlainWalk
    <3>2. i \in 1..Len(log) /\ n > 1 /\ n - 1 = i /\ i > 0
      BY <1>1, <3>1 DEF n
    <3>3. ~IsRecord(log[i])
      <4>1. SUFFICES ASSUME IsRecord(log[i]) PROVE FALSE
        OBVIOUS
      <4>2. Follows(log[i], l)
        BY <1>1, <2>1, <3>2, <4>1 DEF LinesAlike, ChainInv, SegmentsChained
      <4> QED BY <2>4, <3>2, <4>1, <4>2 DEF PlainWalk, Follows
    <3>4. log[i].kind # "legacy"
      BY <3>1, <3>2, KindsDiffer DEF LinesAlike, LegacyFirst
    <3>5. log[i] \in Line
      BY <1>1, <3>2
    <3>6. log[i].kind = "torn"
      BY <3>3, <3>4, <3>5, KindsDiffer DEF Line
    <3> QED BY <3>2, <3>6 DEF LinesAlike, TornAlike
  <2>5. /\ f[n].started /\ f[n].seq = l.seq /\ f[n].hash = l.id
        /\ g[n].started /\ g[n].seq = l.seq /\ g[n].hash = l.id
        /\ g[n].breaks = f[n].breaks \cup {j \in 1..n : log[j] = Legacy}
        /\ f[i].breaks \subseteq f[n].breaks
        /\ \A b \in f[n].breaks : b \in f[i].breaks \/ (b = n /\ n > 1 /\ log[n - 1] = Torn)
    <3>1. g[i].seq = f[i].seq /\ g[i].hash = f[i].hash /\ g[i].started = f[i].started
          /\ g[i].breaks = f[i].breaks \cup {j \in 1..i : log[j] = Legacy}
      BY DEF PlainWalk
    <3> HIDE DEF l
    <3>2. CASE f[i].started /\ ~(l.seq = f[i].seq + 1 /\ l.prev = f[i].hash)
      BY <1>4, <1>9, <2>3, <2>4, <3>1, <3>2
    <3>3. CASE ~(f[i].started /\ ~(l.seq = f[i].seq + 1 /\ l.prev = f[i].hash))
      BY <1>4, <1>9, <2>3, <3>1, <3>3
    <3> QED BY <3>2, <3>3
  <2>6. \E j \in 1..n : IsRecord(log[j])
    BY <2>1, <2>2
  <2>7. \A t \in 1..n : log[t] = Torn => t \in f[n].breaks
    BY <1>5, <2>1, <2>5 DEF PlainWalk
  <2>8. \A b \in f[n].breaks : b \in 1..n /\ (log[b] = Torn \/ (b > 1 /\ log[b - 1] = Torn))
    BY <1>6, <2>2, <2>5 DEF PlainWalk
  <2> QED BY <1>4, <2>5, <2>6, <2>7, <2>8 DEF PlainWalk
<1> QED BY <1>2, <1>7, <1>8, <1>9

(* So they stand together after all lines.                                 *)
LEMMA PlainWalkHolds ==
    ASSUME LinesAlike, NEW f, NEW g,
           IsWalk(f, Len(log), log, 0, FALSE), IsWalk(g, Len(log), log, 0, TRUE)
    PROVE  PlainWalk(f, g, Len(log))
<1> DEFINE P == {i \in 0..Len(log) : PlainWalk(f, g, i)}
<1>1. Len(log) \in Nat
  BY DEF LinesAlike, ChainInv, TypeOK
<1>2. 0 \in P
  <2>1. f[0] = Start /\ g[0] = Start
    BY <1>1 DEF IsWalk
  <2> QED BY <1>1, <2>1, StartWalk DEF PlainWalk
<1>3. ASSUME NEW i \in 0..(Len(log) - 1), i \in P PROVE i + 1 \in P
  <2>1. /\ f[i + 1] = Visit(f[i], log[i + 1], i + 1, 0, FALSE)
        /\ g[i + 1] = Visit(g[i], log[i + 1], i + 1, 0, TRUE)
    <3>1. i + 1 \in 0..Len(log) /\ i + 1 # 0 /\ (i + 1) - 1 = i
      BY <1>1
    <3> QED BY <3>1 DEF IsWalk
  <2>2. PlainWalk(f, g, i + 1)
    BY <1>3, <2>1, PlainStep
  <2> QED BY <1>1, <2>2
<1> HIDE DEF P
<1>4. Len(log) \in P
  <2> DEFINE n == Len(log)
  <2>1. n \in Nat /\ \A i \in 0..(n - 1) : i \in P => i + 1 \in P
    BY <1>1, <1>3
  <2>2. n \in 0..n
    BY <2>1
  <2> HIDE DEF n
  <2>3. n \in P
    BY <1>2, <2>1, <2>2, UpTo
  <2> QED BY <2>3 DEF n
<1> QED BY <1>4 DEF P

(* In a log without a torn line the walk over a window, once started, is   *)
(* anchored at the line before.                                            *)
WindowWalk(f, fromSeq, i) ==
    /\ f[i] \in WalkState
    /\ f[i].breaks = {}
    /\ f[i].started =>
         /\ i > 0 /\ IsRecord(log[i]) /\ log[i].seq >= fromSeq
         /\ f[i].seq = log[i].seq /\ f[i].hash = log[i].id

(* A window that has started never leaves the chain again.                 *)
LEMMA WindowStep ==
    ASSUME LinesAlike, NEW f, NEW fromSeq \in Nat, NEW i \in 0..(Len(log) - 1),
           \A t \in 1..Len(log) : log[t] # Torn, WindowWalk(f, fromSeq, i),
           f[i + 1] = Visit(f[i], log[i + 1], i + 1, fromSeq, FALSE)
    PROVE  WindowWalk(f, fromSeq, i + 1)
<1> DEFINE n == i + 1
           l == log[n]
<1>1. n \in 1..Len(log) /\ log \in Seq(Line) /\ Len(log) \in Nat /\ i \in Nat /\ n \in Nat /\ n > 0
  BY DEF LinesAlike, ChainInv, TypeOK
<1>2. SUFFICES WindowWalk(f, fromSeq, n)
  OBVIOUS
<1>3. i > 0 => i = n - 1 /\ i \in 1..Len(log) /\ n > 1
  BY <1>1
<1>4. f[n] = Visit(f[i], l, n, fromSeq, FALSE) /\ f[i] \in WalkState /\ f[i].breaks = {}
  BY DEF WindowWalk
<1> HIDE DEF n
<1>5. l \in Line /\ l.kind # "torn"
  BY <1>1 DEF LinesAlike, TornAlike
<1>6. l.seq \in Nat /\ l.kind \in {"legacy", "record"}
  BY <1>5 DEF Line
<1>7. f[i].started => Follows(log[i], l) \/ l.kind = "legacy"
  BY <1>1, <1>3, <1>6 DEF WindowWalk, LinesAlike, ChainInv, SegmentsChained, IsRecord
<1>8. f[i].started => l.kind # "legacy"
  <2>1. SUFFICES ASSUME f[i].started, l.kind = "legacy" PROVE FALSE
    OBVIOUS
  <2>2. i \in 1..n /\ log[i].kind = "record"
    BY <1>1, <1>3, <2>1 DEF WindowWalk, IsRecord
  <2>3. log[i].kind = "legacy"
    BY <1>1, <2>1, <2>2 DEF LinesAlike, LegacyFirst
  <2> QED BY <2>2, <2>3
<1>9. Visited(f[n], f[i], l, n, fromSeq, FALSE)
  <2> HIDE DEF l
  <2> QED BY <1>1, <1>4, <1>5, VisitCases
<1>10. CASE l.kind = "legacy"
  <2>1. ~f[n].started
    BY <1>8, <1>9, <1>10 DEF Visited, WalkState
  <2>2. f[n].breaks = {} /\ f[n] \in WalkState
    BY <1>4, <1>9, <1>10 DEF Visited
  <2> QED BY <2>1, <2>2 DEF WindowWalk
<1>11. CASE l.kind = "record" /\ l.seq < fromSeq
  <2>1. f[n] = f[i]
    BY <1>9, <1>11 DEF Visited
  <2>2. ~f[i].started
    <3>1. SUFFICES ASSUME f[i].started PROVE FALSE
      OBVIOUS
    <3>2. l.seq = log[i].seq + 1 /\ log[i].seq >= fromSeq
      BY <1>7, <1>8, <3>1 DEF Follows, WindowWalk
    <3>3. log[i] \in Line
      BY <1>1, <1>3, <3>1 DEF WindowWalk
    <3>4. log[i].seq \in Nat
      BY <3>3 DEF Line
    <3> HIDE DEF l
    <3> QED BY <1>6, <1>11, <3>2, <3>4
  <2> QED BY <1>4, <2>1, <2>2 DEF WindowWalk
<1>12. CASE l.kind = "record" /\ l.seq >= fromSeq
  <2>1. f[i].started => l.seq = f[i].seq + 1 /\ l.prev = f[i].hash
    BY <1>7, <1>8 DEF Follows, WindowWalk
  <2>2. /\ f[n].started /\ f[n].seq = l.seq /\ f[n].hash = l.id
        /\ f[n].breaks = f[i].breaks /\ f[n] \in WalkState
    BY <1>9, <1>12, <2>1 DEF Visited
  <2>3. IsRecord(l)
    BY <1>12 DEF IsRecord
  <2> QED BY <1>1, <1>4, <1>12, <2>2, <2>3 DEF WindowWalk
<1>13. ~(l.seq < fromSeq) => l.seq >= fromSeq
  BY <1>6
<1> QED BY <1>6, <1>10, <1>11, <1>12, <1>13

(* Without a torn line no window shows a break.                            *)
LEMMA WindowIsWhole ==
    ASSUME LinesAlike, NEW fromSeq \in Nat, \A t \in 1..Len(log) : log[t] # Torn
    PROVE  Breaks(log, fromSeq, FALSE) = {}
<1>1. Len(log) \in Nat
  BY DEF LinesAlike, ChainInv, TypeOK
<1>2. PICK f : /\ IsWalk(f, Len(log), log, fromSeq, FALSE)
               /\ Breaks(log, fromSeq, FALSE) = f[Len(log)].breaks
  BY <1>1, BreaksOfWalk
<1> DEFINE P == {i \in 0..Len(log) : WindowWalk(f, fromSeq, i)}
<1>3. 0 \in P
  <2>1. f[0] = Start
    BY <1>1, <1>2 DEF IsWalk
  <2> QED BY <1>1, <2>1, StartWalk DEF WindowWalk
<1>4. ASSUME NEW i \in 0..(Len(log) - 1), i \in P PROVE i + 1 \in P
  <2>1. f[i + 1] = Visit(f[i], log[i + 1], i + 1, fromSeq, FALSE)
    <3>1. i + 1 \in 0..Len(log) /\ i + 1 # 0 /\ (i + 1) - 1 = i
      BY <1>1
    <3> QED BY <1>2, <3>1 DEF IsWalk
  <2>2. WindowWalk(f, fromSeq, i + 1)
    BY <1>4, <2>1, WindowStep
  <2> QED BY <1>1, <2>2
<1> HIDE DEF P
<1>5. Len(log) \in P
  <2> DEFINE n == Len(log)
  <2>1. n \in Nat /\ \A i \in 0..(n - 1) : i \in P => i + 1 \in P
    BY <1>1, <1>4
  <2>2. n \in 0..n
    BY <2>1
  <2> HIDE DEF n
  <2>3. n \in P
    BY <1>3, <2>1, <2>2, UpTo
  <2> QED BY <2>3 DEF n
<1> QED BY <1>2, <1>5 DEF P, WindowWalk

(* The walks after the last line are what VerifierExact says.              *)
LEMMA AlikeIsExact ==
    ASSUME LinesAlike PROVE VerifierExact
<1> DEFINE n == Len(log)
           breaks == Breaks(log, 0, FALSE)
           torn == {i \in 1..Len(log) : log[i] = Torn}
           legacy == {i \in 1..Len(log) : log[i] = Legacy}
<1>1. n \in Nat
  BY DEF LinesAlike, ChainInv, TypeOK
<1>2. PICK f : IsWalk(f, n, log, 0, FALSE) /\ breaks = f[n].breaks
  BY <1>1, BreaksOfWalk
<1>3. PICK g : IsWalk(g, n, log, 0, TRUE) /\ Breaks(log, 0, TRUE) = g[n].breaks
  BY <1>1, BreaksOfWalk
<1>4. PlainWalk(f, g, n)
  BY <1>2, <1>3, PlainWalkHolds
<1>5. torn \subseteq breaks
  BY <1>2, <1>4 DEF PlainWalk
<1>6. breaks \subseteq torn \cup {i + 1 : i \in torn}
  <2> SUFFICES ASSUME NEW b \in breaks, b \notin torn PROVE b \in {i + 1 : i \in torn}
    OBVIOUS
  <2>1. b \in 1..n /\ (log[b] = Torn \/ (b > 1 /\ log[b - 1] = Torn))
    BY <1>2, <1>4 DEF PlainWalk
  <2>2. b - 1 \in torn /\ b = (b - 1) + 1
    BY <1>1, <2>1
  <2> QED BY <2>2
<1>7. Breaks(log, 0, TRUE) = breaks \cup legacy
  BY <1>2, <1>3, <1>4 DEF PlainWalk
<1>8. ASSUME torn = {}, NEW k \in 1..MaxId PROVE Breaks(log, k, FALSE) = {}
  <2>1. k \in Nat /\ \A t \in 1..Len(log) : log[t] # Torn
    BY <1>8
  <2> QED BY <2>1, WindowIsWhole
<1> HIDE DEF breaks, torn, legacy, n
<1>9. /\ torn \subseteq breaks
      /\ breaks \subseteq torn \cup {i + 1 : i \in torn}
      /\ Breaks(log, 0, TRUE) = breaks \cup legacy
      /\ torn = {} => \A k \in 1..MaxId : Breaks(log, k, FALSE) = {}
  BY <1>5, <1>6, <1>7, <1>8
<1> QED BY <1>9 DEF VerifierExact, breaks, torn, legacy

(* Recorders write records and torn lines, never a line of an old version. *)
LEMMA WriteKeepsAlike ==
    ASSUME LinesAlike, NEW line \in Line, line = Torn \/ IsRecord(line), log' = Written(line)
    PROVE  (LegacyFirst)' /\ (TornAlike)'
<1>1. /\ Len(log) \in Nat /\ unended \in BOOLEAN
      /\ unended => log # <<>>
      /\ TypeOK
  BY DEF LinesAlike, ChainInv, TypeOK, Numbered
<1>2. /\ line.kind # "legacy" /\ (line.kind = "torn" => line = Torn)
      /\ Torn.kind = "torn"
  BY KindsDiffer
<1>3. CASE unended
  <2>1. /\ Len(log) > 0 /\ Len(log') = Len(log) /\ log'[Len(log)] = Torn
        /\ \A i \in 1..Len(log) : i # Len(log) => log'[i] = log[i]
    BY <1>1, <1>3, WrittenLines
  <2>2. (LegacyFirst)'
    <3> SUFFICES ASSUME NEW i \in 1..Len(log'), log'[i].kind = "legacy"
                 PROVE  log'[i] = Legacy /\ \A j \in 1..i : log'[j].kind = "legacy"
      BY DEF LegacyFirst
    <3>1. i \in 1..Len(log) /\ i # Len(log) /\ log'[i] = log[i]
      BY <1>2, <2>1
    <3>2. \A j \in 1..i : j \in 1..Len(log) /\ j # Len(log) /\ log'[j] = log[j]
      BY <1>1, <2>1, <3>1
    <3> QED BY <3>1, <3>2 DEF LinesAlike, LegacyFirst
  <2>3. (TornAlike)'
    BY <1>2, <2>1 DEF LinesAlike, TornAlike
  <2> QED BY <2>2, <2>3
<1>4. CASE ~unended
  <2>1. /\ Len(log') = Len(log) + 1 /\ log'[Len(log) + 1] = line
        /\ \A i \in 1..Len(log) : log'[i] = log[i]
    BY <1>1, <1>4, WrittenLines
  <2>2. (LegacyFirst)'
    <3> SUFFICES ASSUME NEW i \in 1..Len(log'), log'[i].kind = "legacy"
                 PROVE  log'[i] = Legacy /\ \A j \in 1..i : log'[j].kind = "legacy"
      BY DEF LegacyFirst
    <3>1. i \in 1..Len(log) /\ log'[i] = log[i]
      BY <1>1, <1>2, <2>1
    <3>2. \A j \in 1..i : j \in 1..Len(log) /\ log'[j] = log[j]
      BY <1>1, <2>1, <3>1
    <3> QED BY <3>1, <3>2 DEF LinesAlike, LegacyFirst
  <2>3. (TornAlike)'
    <3> SUFFICES ASSUME NEW i \in 1..Len(log'), log'[i].kind = "torn" PROVE log'[i] = Torn
      BY DEF TornAlike
    <3>1. i \in 1..Len(log) \/ i = Len(log) + 1
      BY <1>1, <2>1
    <3> QED BY <1>2, <2>1, <3>1 DEF LinesAlike, TornAlike
  <2> QED BY <2>2, <2>3
<1> QED BY <1>1, <1>3, <1>4

(* Lines stay alike in every behaviour.                                    *)
LEMMA AlikeHolds == Spec => []LinesAlike
<1>1. Init => LinesAlike
  <2> SUFFICES ASSUME Init PROVE LinesAlike
    OBVIOUS
  <2>1. ChainInv
    BY InitChainInv, BoundAssumption, NobodyAssumption
  <2>2. Len(log) = LegacyLines /\ \A i \in 1..LegacyLines : log[i] = Legacy
    BY BoundAssumption DEF Init, BoundAssumption
  <2>3. LegacyFirst
    BY <2>2, KindsDiffer, BoundAssumption DEF LegacyFirst, BoundAssumption
  <2>4. TornAlike
    BY <2>2, KindsDiffer DEF TornAlike
  <2> QED BY <2>1, <2>3, <2>4 DEF LinesAlike
<1>2. LinesAlike /\ [Next]_vars => LinesAlike'
  <2> SUFFICES ASSUME LinesAlike, [Next]_vars PROVE LinesAlike'
    OBVIOUS
  <2>1. ChainInv'
    BY NextChainInv, BoundAssumption, NobodyAssumption DEF LinesAlike
  <2>2. \A w \in Recorders : NewLine(w) \in Line /\ IsRecord(NewLine(w))
    BY NewLineType DEF LinesAlike, ChainInv
  <2>3. Torn \in Line
    BY DEF Torn, Line, NoHash
  <2>4. CASE log' = log
    BY <2>1, <2>4 DEF LinesAlike, LegacyFirst, TornAlike
  <2>5. CASE log' # log
    <3>1. PICK line \in Line : (line = Torn \/ IsRecord(line)) /\ log' = Written(line)
      <4>1. PICK w \in Recorders : AppendLine(w) \/ Tear(w)
        BY <2>5 DEF Next, Begin, Acquire, ReadTail, Crash, Leave, vars
      <4> QED BY <2>2, <2>3, <4>1 DEF AppendLine, Tear
    <3>2. (LegacyFirst)' /\ (TornAlike)'
      BY <3>1, WriteKeepsAlike
    <3> QED BY <2>1, <3>2 DEF LinesAlike
  <2> QED BY <2>4, <2>5
<1> QED BY <1>1, <1>2, PTL DEF Spec

(* However many lines there are, and wherever recorders died: the verifier *)
(* reports the torn lines and the restarts after them and nothing else,    *)
(* with --strict the lines of older versions too, and in a log without a   *)
(* torn line no window that starts at any number shows a break.            *)
THEOREM VerifierIsExact == Spec => []VerifierExact
<1>1. LinesAlike => VerifierExact
  BY AlikeIsExact
<1> QED BY <1>1, AlikeHolds, PTL

-----------------------------------------------------------------------------
(* GatewayProcesses                                                        *)

ProcessInv ==
    /\ ProcessesTypeOK
    /\ OneDaemon
    /\ FileNeverMisleads

LEMMA InitProcessInv ==
    ASSUME ProcessesInit PROVE ProcessInv
BY FileAssumption, NowhereAssumption
DEF ProcessesInit, ProcessInv, ProcessesTypeOK, OneDaemon, FileNeverMisleads, Daemon, Starting

LEMMA RunKeepsTypes ==
    ASSUME ProcessInv, NEW p \in Pids, Run(p) \/ Foreign(p)
    PROVE  (ProcessesTypeOK)'
<1> USE DEF ProcessInv, ProcessesTypeOK, Reaches, Starting, Daemon, stopVars
<1>1. CASE \E e \in Environments : Spawn(p, e)
  BY <1>1 DEF Spawn
<1>2. CASE Refused(p) \/ Look(p) \/ Scan(p)
  BY <1>2 DEF Refused, Look, Scan
<1>3. CASE Truncate(p)
  BY <1>3 DEF Truncate
<1>4. CASE WritePid(p)
  BY <1>4 DEF WritePid
<1>5. CASE WindsUp(p) \/ Killed(p) \/ Foreign(p)
  BY <1>5 DEF WindsUp, Killed, Foreign
<1>6. CASE Exit(p)
  BY <1>6 DEF Exit
<1> QED
  BY <1>1, <1>2, <1>3, <1>4, <1>5, <1>6 DEF Run

(* Only a process that scans becomes a daemon, and it finds itself alone.  *)
LEMMA RunKeepsOneDaemon ==
    ASSUME ProcessInv, NEW p \in Pids, Run(p) \/ Foreign(p)
    PROVE  (OneDaemon)'
<1> USE DEF ProcessInv, ProcessesTypeOK, OneDaemon, Reaches, Starting, Daemon
<1>1. CASE Scan(p)
  <2>1. \A q \in Pids \ {p} : proc[q] \notin Daemon
    BY <1>1 DEF Scan, Scanned, IsGateway
  <2> QED
    BY <1>1, <2>1 DEF Scan
<1>2. CASE \E e \in Environments : Spawn(p, e)
  BY <1>2 DEF Spawn
<1>3. CASE Refused(p) \/ Look(p) \/ Foreign(p) \/ Killed(p)
  BY <1>3 DEF Refused, Look, Foreign, Killed
<1>4. CASE Truncate(p) \/ WritePid(p) \/ WindsUp(p) \/ Exit(p)
  BY <1>4 DEF Truncate, WritePid, WindsUp, Exit
<1> QED
  BY <1>1, <1>2, <1>3, <1>4 DEF Run

(* Only a daemon writes the file, and while another one serves there is    *)
(* none to write it.                                                       *)
LEMMA RunKeepsFile ==
    ASSUME ProcessInv, NEW p \in Pids, Run(p) \/ Foreign(p)
    PROVE  (FileNeverMisleads)'
<1> USE DEF ProcessInv, ProcessesTypeOK, OneDaemon, FileNeverMisleads, Reaches, Starting, Daemon
<1>1. CASE Scan(p) \/ (\E e \in Environments : Spawn(p, e))
  BY <1>1 DEF Scan, Spawn
<1>2. CASE Refused(p) \/ Look(p) \/ Foreign(p) \/ Killed(p) \/ WindsUp(p)
  BY <1>2 DEF Refused, Look, Foreign, Killed, WindsUp
<1>3. CASE Truncate(p)
  BY <1>3 DEF Truncate
<1>4. CASE WritePid(p)
  BY <1>4 DEF WritePid
<1>5. CASE Exit(p)
  BY <1>5 DEF Exit
<1> QED
  BY <1>1, <1>2, <1>3, <1>4, <1>5 DEF Run

(* A stop command ends processes and removes a file; it starts nothing.    *)
LEMMA StopKeepsProcessInv ==
    ASSUME ProcessInv, StopCommand
    PROVE  ProcessInv'
<1> USE DEF ProcessInv, ProcessesTypeOK, OneDaemon, FileNeverMisleads, Starting, Daemon
<1>1. CASE \E e \in Environments : StopFind(e)
  BY <1>1 DEF StopFind, Recorded
<1>2. CASE StopTerminate
  <2>1. \A q \in Pids : /\ proc'[q] \in Daemon => proc[q] \in Daemon
                        /\ proc'[q] = "serving" => proc[q] = "serving"
    BY <1>2 DEF StopTerminate
  <2> QED
    BY <1>2, <2>1 DEF StopTerminate
<1>3. CASE StopKill
  BY <1>3 DEF StopKill
<1>4. CASE StopClear
  BY <1>4 DEF StopClear, Cleared
<1> QED
  BY <1>1, <1>2, <1>3, <1>4 DEF StopCommand

LEMMA NextProcessInv ==
    ASSUME ProcessInv, [ProcessesNext]_processes
    PROVE  ProcessInv'
<1>1. ASSUME NEW p \in Pids, Run(p) \/ Foreign(p) PROVE ProcessInv'
  BY <1>1, RunKeepsTypes, RunKeepsOneDaemon, RunKeepsFile DEF ProcessInv
<1>2. CASE UNCHANGED processes
  BY <1>2 DEF processes, stopVars, ProcessInv, ProcessesTypeOK, OneDaemon, FileNeverMisleads
<1> QED
  BY <1>1, <1>2, StopKeepsProcessInv DEF ProcessesNext

LEMMA ProcessInvHolds == ProcessesSpec => []ProcessInv
<1>1. ProcessesInit => ProcessInv
  BY InitProcessInv
<1>2. ProcessInv /\ [ProcessesNext]_processes => ProcessInv'
  BY NextProcessInv
<1> QED
  BY <1>1, <1>2, PTL DEF ProcessesSpec

(* However many gateways are started, stopped and killed at once, in       *)
(* whatever environments, at most one of them gets past the checks of      *)
(* run() and is alive.                                                     *)
THEOREM AtMostOneDaemon == ProcessesSpec => []OneDaemon
<1>1. ProcessInv => OneDaemon
  BY DEF ProcessInv
<1> QED
  BY <1>1, ProcessInvHolds, PTL

(* While a daemon serves, its pid file names it or is missing.             *)
THEOREM PidFileNeverMisleads == ProcessesSpec => []FileNeverMisleads
<1>1. ProcessInv => FileNeverMisleads
  BY DEF ProcessInv
<1> QED
  BY <1>1, ProcessInvHolds, PTL

(* Processes, pid files and the stop command are always well typed.        *)
THEOREM ProcessesTypeCorrect == ProcessesSpec => []ProcessesTypeOK
<1>1. ProcessInv => ProcessesTypeOK
  BY DEF ProcessInv
<1> QED
  BY <1>1, ProcessInvHolds, PTL

-----------------------------------------------------------------------------
(* PluginAgent                                                             *)

PollRecord == [desired : Desired, copy : Row, step : {"loaded", "waiting", "done"}]

(* A poll's copy keeps the desired state it loaded, and the poll waits     *)
(* only for a plugin that the daemon runs.                                 *)
PollSound ==
    poll # NoPoll => /\ poll.copy.desired = poll.desired
                     /\ poll.step = "waiting" => supervised /\ object # NoObject

PluginInv == PluginTypeOK /\ StopIsKept /\ PluginIsHeld /\ PollSound

LEMMA RowEdits ==
    ASSUME NEW r \in Row
    PROVE  /\ Annotated(r) \in Row /\ Annotated(r).desired = r.desired
           /\ Aged(r) \in Row /\ Aged(r).desired = r.desired
           /\ \A s \in {"connected", "offline"} :
                /\ Announced(r, s) \in Row
                /\ Announced(r, s).desired \in {"stopped", r.desired}
           /\ \A s \in {"running", "stale", "stopped"} :
                [r EXCEPT !.shown = s] \in Row /\ [r EXCEPT !.shown = s].desired = r.desired
           /\ \A o \in PluginObject :
                LET q == [r EXCEPT !.shown = o.shown, !.fresh = o.fresh]
                IN  q \in Row /\ q.desired = r.desired
           /\ \A d \in Desired : [r EXCEPT !.desired = d] \in Row
<1>1. Annotated(r) \in Row /\ Annotated(r).desired = r.desired
  BY DEF Annotated, Row
<1>2. Aged(r) \in Row /\ Aged(r).desired = r.desired
  BY DEF Aged, Row
<1>3. \A s \in {"connected", "offline"} :
        /\ Announced(r, s) \in Row
        /\ Announced(r, s).desired \in {"stopped", r.desired}
  BY DEF Announced, Row, Desired
<1>4. \A s \in {"running", "stale", "stopped"} :
        [r EXCEPT !.shown = s] \in Row /\ [r EXCEPT !.shown = s].desired = r.desired
  BY DEF Row
<1>5. \A o \in PluginObject :
        LET q == [r EXCEPT !.shown = o.shown, !.fresh = o.fresh]
        IN  q \in Row /\ q.desired = r.desired
  BY DEF Row, PluginObject
<1>6. \A d \in Desired : [r EXCEPT !.desired = d] \in Row
  BY DEF Row
<1> QED BY <1>1, <1>2, <1>3, <1>4, <1>5, <1>6

(* A save of a row that was loaded with that desired state: nobody but the *)
(* row itself makes the agent wanted again.                                *)
LEMMA SavedOverKeeps ==
    ASSUME row \in Row, StopIsKept, NEW r \in Row, NEW d \in Desired,
           r.desired \in {"stopped", d}, SavedOver(r, d), UNCHANGED order
    PROVE  row' \in Row /\ StopIsKept'
<1>1. row.desired \in Desired
  BY DEF Row
<1>2. row' \in Row /\ row'.desired = IF row.desired # d THEN row.desired ELSE r.desired
  BY <1>1 DEF SavedOver, Row
<1> QED BY <1>2 DEF StopIsKept

(* The poll, until its save: what reconciling makes of its copy.           *)
LEMMA ReconciledKeeps ==
    ASSUME PluginInv, Reconciling, NEW r \in Row, r.desired = poll.copy.desired, ReconciledTo(r)
    PROVE  /\ poll' \in PollRecord
           /\ poll'.copy.desired = poll'.desired
           /\ poll'.step = "done"
<1>1. poll \in PollRecord
  BY DEF PluginInv, PluginTypeOK, Reconciling, PollRecord
<1>2. Annotated(r) \in Row /\ Annotated(r).desired = poll.copy.desired
  BY RowEdits
<1>3. poll.copy.desired = poll.desired
  BY DEF PluginInv, PollSound, Reconciling
<1> QED BY <1>1, <1>2, <1>3 DEF ReconciledTo, PollRecord

LEMMA PollKeeps == PluginInv /\ Poll => PluginInv'
<1> SUFFICES ASSUME PluginInv, Poll PROVE PluginInv'
  OBVIOUS
<1>1. /\ row \in Row /\ object \in PluginObject \cup {NoObject}
      /\ poll \in PollRecord \cup {NoPoll} /\ row.desired \in Desired
  BY DEF PluginInv, PluginTypeOK, PollRecord, Row
<1>2. poll # NoPoll => /\ poll.copy \in Row /\ poll.copy.desired = poll.desired
                       /\ poll.desired \in Desired
  BY <1>1 DEF PollRecord, PluginInv, PollSound
<1>3. CASE PollLoads
  <2>1. poll' \in PollRecord /\ poll'.copy.desired = poll'.desired /\ poll'.step = "loaded"
    BY <1>1, <1>3 DEF PollLoads, PollRecord
  <2> QED
    BY <1>3, <2>1 DEF PollLoads, PluginInv, PluginTypeOK, StopIsKept, PluginIsHeld, PollSound, PollRecord
<1>4. CASE PollLooks
  <2> DEFINE s == IF poll.copy.desired = "running" /\ Connected(poll.copy) THEN "running"
                  ELSE IF poll.copy.desired = "stopped" \/ poll.copy.ext = "offline" THEN "stopped"
                  ELSE "stale"
  <2>1. poll # NoPoll /\ s \in {"running", "stale", "stopped"}
    BY <1>4 DEF PollLooks, Reconciling
  <2>2. ReconciledTo([poll.copy EXCEPT !.shown = s]) /\ Reconciling
    BY <1>4 DEF PollLooks
  <2> HIDE DEF s
  <2>3. poll' \in PollRecord /\ poll'.copy.desired = poll'.desired /\ poll'.step = "done"
    BY <1>2, <2>1, <2>2, RowEdits, ReconciledKeeps
  <2> QED
    BY <1>4, <2>3 DEF PollLooks, PluginInv, PluginTypeOK, StopIsKept, PluginIsHeld, PollSound, PollRecord
<1>5. CASE PollSignals
  <2>1. /\ poll' \in PollRecord /\ poll'.copy.desired = poll'.desired
        /\ supervised /\ object # NoObject
    BY <1>1, <1>2, <1>5 DEF PollSignals, Reconciling, PollRecord, Unwanted
  <2>2. plugin' \in {"none", "up", "ending"}
    BY <1>5 DEF PollSignals, PluginInv, PluginTypeOK
  <2> QED
    BY <1>5, <2>1, <2>2 DEF PollSignals, PluginInv, PluginTypeOK, StopIsKept, PluginIsHeld, PollSound,
                            PollRecord
<1>6. CASE PollWaited
  <2>1. poll' \in PollRecord /\ poll'.copy.desired = poll'.desired /\ poll'.step = "loaded"
    BY <1>1, <1>2, <1>6 DEF PollWaited, PollRecord
  <2> QED
    BY <1>6, <2>1 DEF PollWaited, PluginInv, PluginTypeOK, StopIsKept, PluginIsHeld, PollSound, PollRecord
<1>7. CASE PollStops
  <2>1. poll' \in PollRecord /\ poll'.copy.desired = poll'.desired /\ poll'.step = "done"
    BY <1>2, <1>7, RowEdits, ReconciledKeeps DEF PollStops, Reconciling
  <2> QED
    BY <1>7, <2>1 DEF PollStops, PluginInv, PluginTypeOK, StopIsKept, PluginIsHeld, PollSound, PollRecord
<1>8. CASE PollSpawns
  <2>1. poll.copy.request \in Nat
    BY <1>2, <1>8 DEF PollSpawns, Reconciling, Row
  <2>2. object' \in PluginObject /\ object' # NoObject
    <3>1. object' = [request |-> poll.copy.request, shown |-> "running", fresh |-> TRUE]
      BY <1>8 DEF PollSpawns
    <3>2. object' \in PluginObject
      BY <2>1, <3>1 DEF PluginObject
    <3> QED BY <3>2, NoObjectHere DEF NoObjectHere
  <2>3. poll' \in PollRecord /\ poll'.copy.desired = poll'.desired /\ poll'.step = "done"
    BY <1>2, <1>8, <2>2, RowEdits, ReconciledKeeps DEF PollSpawns, Running, Reconciling
  <2> QED
    BY <1>8, <2>2, <2>3 DEF PollSpawns, PluginInv, PluginTypeOK, StopIsKept, PluginIsHeld, PollSound,
                            PollRecord
<1>9. CASE PollLeaves
  <2>1. object \in PluginObject
    BY <1>1, <1>9 DEF PollLeaves, PluginInv, PluginIsHeld
  <2>2. poll' \in PollRecord /\ poll'.copy.desired = poll'.desired /\ poll'.step = "done"
    BY <1>2, <1>9, <2>1, RowEdits, ReconciledKeeps DEF PollLeaves, Running, Reconciling
  <2> QED
    BY <1>9, <2>2 DEF PollLeaves, PluginInv, PluginTypeOK, StopIsKept, PluginIsHeld, PollSound, PollRecord
<1>10. CASE PollSaves
  <2>1. row' \in Row /\ StopIsKept'
    BY <1>1, <1>2, <1>10, SavedOverKeeps DEF PollSaves, PluginInv
  <2> QED
    BY <1>10, <2>1 DEF PollSaves, PluginInv, PluginTypeOK, PluginIsHeld, PollSound
<1> QED BY <1>3, <1>4, <1>5, <1>6, <1>7, <1>8, <1>9, <1>10 DEF Poll

(* Announcements, and the threads of the UI server that save them.         *)
LEMMA HandlerKeeps == PluginInv /\ Handler => PluginInv'
<1> SUFFICES ASSUME PluginInv, NEW p \in posts, HandlerLoads(p) \/ HandlerSaves(p)
             PROVE  PluginInv'
  BY DEF Handler
<1>1. p \in Announcement /\ row \in Row /\ row.desired \in Desired /\ posts \subseteq Announcement
  BY DEF PluginInv, PluginTypeOK, Row
<1>2. CASE HandlerLoads(p)
  <2>1. [p EXCEPT !.loaded = row] \in Announcement
    BY <1>1 DEF Announcement
  <2>2. posts' \subseteq Announcement
    BY <1>1, <1>2, <2>1 DEF HandlerLoads
  <2> QED
    BY <1>2, <2>2 DEF HandlerLoads, PluginInv, PluginTypeOK, StopIsKept, PluginIsHeld, PollSound
<1>3. CASE HandlerSaves(p)
  <2>1. p.loaded \in Row /\ p.status \in {"connected", "offline"} /\ p.loaded.desired \in Desired
    BY <1>1, <1>3 DEF HandlerSaves, Announcement, Row
  <2>2. /\ Announced(p.loaded, p.status) \in Row
        /\ Announced(p.loaded, p.status).desired \in {"stopped", p.loaded.desired}
    BY <2>1, RowEdits
  <2>3. row' \in Row /\ StopIsKept'
    BY <1>1, <1>3, <2>1, <2>2, SavedOverKeeps DEF HandlerSaves, PluginInv
  <2>4. posts' \subseteq Announcement
    BY <1>1, <1>3 DEF HandlerSaves
  <2> QED
    BY <1>3, <2>3, <2>4 DEF HandlerSaves, PluginInv, PluginTypeOK, PluginIsHeld, PollSound
<1> QED BY <1>2, <1>3

(* The plugin's process and its monitor.                                   *)
LEMMA PluginKeeps ==
    ASSUME PluginInv,
           MonitorLooks \/ PluginStarts \/ PluginEnds \/ PluginDies \/ PluginLeaves \/ PluginAnnounces
    PROVE  PluginInv'
<1>1. CASE MonitorLooks
  <2>1. object \in PluginObject
    BY <1>1 DEF MonitorLooks, PluginInv, PluginTypeOK
  <2>2. object' \in PluginObject /\ object' # NoObject
    BY <1>1, <2>1, NoObjectHere DEF MonitorLooks, PluginObject, NoObjectHere
  <2> QED
    BY <1>1, <2>2 DEF MonitorLooks, PluginInv, PluginTypeOK, StopIsKept, PluginIsHeld, PollSound
<1>2. CASE PluginStarts \/ PluginLeaves
  BY <1>2 DEF PluginStarts, PluginLeaves, PluginInv, PluginTypeOK, StopIsKept, PluginIsHeld, PollSound
<1>3. CASE PluginEnds \/ PluginDies
  <2>1. exits' \in Nat
    BY <1>3 DEF PluginEnds, PluginDies, PluginInv, PluginTypeOK
  <2> QED
    BY <1>3, <2>1 DEF PluginEnds, PluginDies, PluginInv, PluginTypeOK, StopIsKept, PluginIsHeld, PollSound
<1>4. CASE PluginAnnounces
  <2>1. posts' \subseteq Announcement
    BY <1>4 DEF PluginAnnounces, PluginInv, PluginTypeOK, Announcement
  <2> QED
    BY <1>4, <2>1 DEF PluginAnnounces, PluginInv, PluginTypeOK, StopIsKept, PluginIsHeld, PollSound
<1> QED BY <1>1, <1>2, <1>3, <1>4

(* Operators and time.                                                     *)
LEMMA OperatorKeeps ==
    ASSUME PluginInv, OperatorStarts \/ OperatorRestarts \/ OperatorStops
    PROVE  PluginInv'
<1>1. row \in Row /\ commands \in Nat
  BY DEF PluginInv, PluginTypeOK
<1>2. commands' \in Nat
  BY <1>1 DEF OperatorStarts, OperatorRestarts, OperatorStops, OperatorCommands
<1>3. row' \in Row
  BY <1>1, <1>2 DEF OperatorStarts, OperatorRestarts, OperatorStops, OperatorCommands, Row, Desired
<1>4. order' \in {"start", "stop"} /\ StopIsKept'
  BY <1>1 DEF OperatorStarts, OperatorRestarts, OperatorStops, OperatorCommands, StopIsKept, Row
<1>5. UNCHANGED <<supervised, poll, object, plugin, posts, exits>>
  BY DEF OperatorStarts, OperatorRestarts, OperatorStops, OperatorCommands
<1> QED
  BY <1>2, <1>3, <1>4, <1>5 DEF PluginInv, PluginTypeOK, PluginIsHeld, PollSound

LEMMA TimeKeeps == PluginInv /\ TimePasses => PluginInv'
<1> SUFFICES ASSUME PluginInv, TimePasses PROVE PluginInv'
  OBVIOUS
<1>1. /\ row \in Row /\ object \in PluginObject \cup {NoObject}
      /\ poll \in PollRecord \cup {NoPoll} /\ posts \subseteq Announcement
  BY DEF PluginInv, PluginTypeOK, PollRecord
<1>2. row' \in Row /\ row'.desired = row.desired
  BY <1>1, RowEdits DEF TimePasses
<1>3. object' \in PluginObject \cup {NoObject} /\ (object # NoObject => object' # NoObject)
  BY <1>1, NoObjectHere DEF TimePasses, Aged, PluginObject, NoObjectHere
<1>4. /\ poll' \in PollRecord \cup {NoPoll}
      /\ poll' # NoPoll => /\ poll # NoPoll /\ poll'.desired = poll.desired
                           /\ poll'.step = poll.step /\ poll'.copy.desired = poll.copy.desired
  <2>1. CASE poll = NoPoll
    BY <2>1 DEF TimePasses
  <2>2. CASE poll # NoPoll
    <3>1. poll \in PollRecord /\ Aged(poll.copy) \in Row /\ Aged(poll.copy).desired = poll.copy.desired
      BY <1>1, <2>2, RowEdits DEF PollRecord
    <3>2. poll' = [poll EXCEPT !.copy = Aged(poll.copy)]
      BY <2>2, <3>1 DEF TimePasses, PollRecord
    <3> QED BY <2>2, <3>1, <3>2 DEF PollRecord
  <2> QED BY <2>1, <2>2
<1>5. posts' \subseteq Announcement
  <2>1. \A p \in posts : p.loaded # Unread => [p EXCEPT !.loaded = Aged(p.loaded)] \in Announcement
    BY <1>1, RowEdits DEF Announcement
  <2> QED BY <1>1, <2>1 DEF TimePasses, Announcement
<1>6. UNCHANGED <<supervised, plugin, order, commands, exits>>
  BY DEF TimePasses
<1> QED
  BY <1>2, <1>3, <1>4, <1>5, <1>6
  DEF PluginInv, PluginTypeOK, StopIsKept, PluginIsHeld, PollSound, PollRecord

LEMMA PluginInvHolds == PluginSpec => []PluginInv
<1>1. PluginInit => PluginInv
  BY DEF PluginInit, PluginInv, PluginTypeOK, StopIsKept, PluginIsHeld, PollSound, Row, Desired
<1>2. PluginInv /\ [PluginNext]_pluginAgent => PluginInv'
  <2> SUFFICES ASSUME PluginInv, [PluginNext]_pluginAgent PROVE PluginInv'
    OBVIOUS
  <2>1. CASE PluginNext
    BY <2>1, PollKeeps, HandlerKeeps, PluginKeeps, OperatorKeeps, TimeKeeps DEF PluginNext
  <2>2. CASE UNCHANGED pluginAgent
    BY <2>2 DEF pluginAgent, PluginInv, PluginTypeOK, StopIsKept, PluginIsHeld, PollSound
  <2> QED BY <2>1, <2>2
<1> QED BY <1>1, <1>2, PTL DEF PluginSpec

(* The row, the copies that polls and threads of the UI server hold of it, *)
(* the daemon's object and the plugin's process are well typed.            *)
THEOREM PluginTypeCorrect == PluginSpec => []PluginTypeOK
<1>1. PluginInv => PluginTypeOK
  BY DEF PluginInv
<1> QED BY <1>1, PluginInvHolds, PTL

(* However many announcements and polls save rows they loaded before, an   *)
(* agent that the operator stopped is wanted stopped until the operator    *)
(* starts it: the merge of desired_state in save_gateway_registry, and     *)
(* announcements that never ask for more than the row they loaded did.     *)
THEOREM NoSaveUndoesAStop == PluginSpec => []StopIsKept
<1>1. PluginInv => StopIsKept
  BY DEF PluginInv
<1> QED BY <1>1, PluginInvHolds, PTL

(* A plugin that the daemon has started has an object by which a poll can  *)
(* stop it, as long as the process lives.                                  *)
THEOREM PluginsAreHeld == PluginSpec => []PluginIsHeld
<1>1. PluginInv => PluginIsHeld
  BY DEF PluginInv
<1> QED BY <1>1, PluginInvHolds, PTL
=============================================================================
