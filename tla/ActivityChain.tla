---------------------------- MODULE ActivityChain ----------------------------
(***************************************************************************)
(* ~/.ax/gateway/activity.jsonl: record_gateway_activity of                *)
(* ax_cli/gateway_storage.py, run by the daemon, its threads, the UI server *)
(* and every CLI process, and verify_chain of ax_cli/audit/verify.py.      *)
(*                                                                         *)
(* A recorder takes an exclusive lock, reads the last line for the         *)
(* sequence number and the hash to chain from, and appends its line.  The  *)
(* lock is an flock, which the kernel drops when its holder dies.  A line  *)
(* is hashed to its id: recorded lines differ, and their hashes with them. *)
(***************************************************************************)
EXTENDS Naturals, Sequences, FiniteSets

CONSTANTS
    Recorders,      \* processes and threads that record events
    Nobody,         \* the lock is free
    Tears,          \* may a crash (or a full disk) cut a line short?
    LegacyLines,    \* lines an older version wrote, without a seq
    MaxId           \* bound: events recorded

ASSUME NobodyAssumption == Nobody \notin Recorders
ASSUME TearsAssumption == Tears \in BOOLEAN
ASSUME BoundAssumption == MaxId \in Nat /\ LegacyLines \in Nat

NoHash == 0

Line == [kind : {"record", "legacy", "torn"}, seq : Nat, prev : Nat, id : Nat]

RecordLine(s, p, i) == [kind |-> "record", seq |-> s, prev |-> p, id |-> i]

(* Text no JSON parser accepts.                                            *)
Torn == [kind |-> "torn", seq |-> 0, prev |-> NoHash, id |-> 0]

Legacy == [kind |-> "legacy", seq |-> 0, prev |-> NoHash, id |-> 0]

IsRecord(l) == l.kind = "record"

VARIABLES
    log,        \* the lines of the file
    unended,    \* does the last line lack its newline?
    lock,       \* who holds the flock
    pc,         \* idle, waiting, locked, tailed
    event,      \* the event a recorder is recording
    tail,       \* the chain state it read
    nextId

vars == <<log, unended, lock, pc, event, tail, nextId>>

NoTail == [seq |-> 0, hash |-> NoHash]

Init ==
    /\ log = [i \in 1..LegacyLines |-> Legacy]
    /\ unended = FALSE
    /\ lock = Nobody
    /\ pc = [w \in Recorders |-> "idle"]
    /\ event = [w \in Recorders |-> 0]
    /\ tail = [w \in Recorders |-> NoTail]
    /\ nextId = 1

-----------------------------------------------------------------------------
(* _read_last_chain_state: the chain starts afresh after anything that is  *)
(* not a record with a seq.                                                *)
ChainState(s) ==
    IF s # <<>> /\ IsRecord(s[Len(s)])
    THEN [seq |-> s[Len(s)].seq, hash |-> s[Len(s)].id]
    ELSE NoTail

Goto(w, l) == pc' = [pc EXCEPT ![w] = l]

(* The record is built before the lock is asked for.                       *)
Begin(w) ==
    /\ pc[w] = "idle"
    /\ nextId <= MaxId
    /\ event' = [event EXCEPT ![w] = nextId]
    /\ nextId' = nextId + 1
    /\ Goto(w, "waiting")
    /\ UNCHANGED <<log, unended, lock, tail>>

(* MUTATION of Acquire: no lock, as where flock is a silent no-op (NFS).   *)
AcquireUnlocked(w) ==
    /\ pc[w] = "waiting"
    /\ lock' = w
    /\ Goto(w, "locked")
    /\ UNCHANGED <<log, unended, event, tail, nextId>>

Acquire(w) ==
    /\ pc[w] = "waiting"
    /\ lock = Nobody
    /\ lock' = w
    /\ Goto(w, "locked")
    /\ UNCHANGED <<log, unended, event, tail, nextId>>

ReadTail(w) ==
    /\ pc[w] = "locked"
    /\ tail' = [tail EXCEPT ![w] = ChainState(log)]
    /\ Goto(w, "tailed")
    /\ UNCHANGED <<log, unended, lock, event, nextId>>

(* MUTATION of Written: the file is opened to write, not to append.        *)
WrittenAfresh(line) == <<line>>

(* Bytes appended to an unended line run into it: neither survives.        *)
Written(line) ==
    IF unended THEN [log EXCEPT ![Len(log)] = Torn] ELSE Append(log, line)

(* MUTATION of NewLine: the record chains from itself as first.            *)
NewLineUnchained(w) == RecordLine(tail[w].seq + 1, NoHash, event[w])

NewLine(w) == RecordLine(tail[w].seq + 1, tail[w].hash, event[w])

(* The end of the with-block, or of the process.                           *)
Leave(w) ==
    /\ lock' = IF lock = w THEN Nobody ELSE lock
    /\ event' = [event EXCEPT ![w] = 0]
    /\ tail' = [tail EXCEPT ![w] = NoTail]
    /\ Goto(w, "idle")
    /\ UNCHANGED nextId

AppendLine(w) ==
    /\ pc[w] = "tailed"
    /\ log' = Written(NewLine(w))
    /\ unended' = FALSE
    /\ Leave(w)

(* The process dies outside its write.                                     *)
Crash(w) ==
    /\ pc[w] # "idle"
    /\ Leave(w)
    /\ UNCHANGED <<log, unended>>

(* The process dies, or the disk fills up, within its write: a part of the *)
(* line is on disk, possibly all of it but the newline.                    *)
Tear(w) ==
    /\ Tears
    /\ pc[w] = "tailed"
    /\ \E line \in {Torn, NewLine(w)} : log' = Written(line)
    /\ unended' = TRUE
    /\ Leave(w)

Next ==
    \E w \in Recorders :
        \/ Begin(w)
        \/ Acquire(w)
        \/ ReadTail(w)
        \/ AppendLine(w)
        \/ Crash(w)
        \/ Tear(w)

Spec == Init /\ [][Next]_vars

-----------------------------------------------------------------------------
(* verify_chain: a walk over the lines, re-anchored at every break.        *)

Start == [seq |-> 0, hash |-> NoHash, started |-> FALSE, breaks |-> {}]

Anchor(st, l) == [st EXCEPT !.seq = l.seq, !.hash = l.id, !.started = TRUE]

(* MUTATION of Visit: the walk does not re-anchor after a gap.             *)
VisitNoAnchor(st, l, i, fromSeq, strict) ==
    LET broken == [st EXCEPT !.breaks = @ \cup {i}]
    IN  CASE l.kind = "torn" -> broken
          [] l.kind = "legacy" -> IF strict THEN broken ELSE st
          [] l.kind = "record" /\ l.seq < fromSeq -> st
          [] OTHER ->
                IF ~st.started THEN Anchor(st, l)
                ELSE IF l.seq = st.seq + 1 /\ l.prev = st.hash THEN Anchor(st, l)
                ELSE broken

Visit(st, l, i, fromSeq, strict) ==
    LET broken == [st EXCEPT !.breaks = @ \cup {i}]
    IN  CASE l.kind = "torn" -> broken
          [] l.kind = "legacy" -> IF strict THEN broken ELSE st
          [] l.kind = "record" /\ l.seq < fromSeq -> st
          [] OTHER ->
                IF ~st.started \/ (l.seq = st.seq + 1 /\ l.prev = st.hash)
                THEN Anchor(st, l)
                ELSE Anchor(broken, l)

Breaks(s, fromSeq, strict) ==
    LET walk[i \in 0..Len(s)] ==
            IF i = 0 THEN Start ELSE Visit(walk[i - 1], s[i], i, fromSeq, strict)
    IN  walk[Len(s)].breaks

-----------------------------------------------------------------------------
(* Properties                                                              *)

TypeOK ==
    /\ log \in Seq(Line)
    /\ unended \in BOOLEAN
    /\ lock \in Recorders \cup {Nobody}
    /\ pc \in [Recorders -> {"idle", "waiting", "locked", "tailed"}]
    /\ event \in [Recorders -> Nat]
    /\ tail \in [Recorders -> [seq : Nat, hash : Nat]]
    /\ nextId \in Nat

(* Two processes never interleave their read-modify-append.                *)
OneRecorder ==
    \A w \in Recorders : pc[w] \in {"locked", "tailed"} => lock = w

(* What a recorder read is still the end of the file when it appends.      *)
TailIsCurrent ==
    \A w \in Recorders : pc[w] = "tailed" => tail[w] = ChainState(log)

Follows(l, m) == m.seq = l.seq + 1 /\ m.prev = l.id

(* Adjacent records are chained whatever processes wrote them, and a chain *)
(* starts, with seq 1 and no hash, only at the top of the file or after a  *)
(* line that is no record: no fork and no gap, crashes and torn lines      *)
(* included.                                                               *)
SegmentsChained ==
    \A i \in 1..Len(log) : IsRecord(log[i]) =>
        IF i > 1 /\ IsRecord(log[i - 1])
        THEN Follows(log[i - 1], log[i])
        ELSE log[i].seq = 1 /\ log[i].prev = NoHash

(* The verifier accuses nobody but the crash: a break is a torn line or    *)
(* the restart right after one, every torn line is a break, and --strict   *)
(* adds the lines of older versions and nothing else.  In a log without a  *)
(* torn line no --from-seq window shows a break.                           *)
VerifierExact ==
    LET breaks == Breaks(log, 0, FALSE)
        torn == {i \in 1..Len(log) : log[i] = Torn}
        legacy == {i \in 1..Len(log) : log[i] = Legacy}
    IN  /\ torn \subseteq breaks
        /\ breaks \subseteq torn \cup {i + 1 : i \in torn}
        /\ Breaks(log, 0, TRUE) = breaks \cup legacy
        /\ torn = {} => \A f \in 1..MaxId : Breaks(log, f, FALSE) = {}

(* A line, once ended, is never touched again.                             *)
AppendOnlyStep ==
    /\ Len(log') >= Len(log)
    /\ \A i \in 1..Len(log) :
         (i < Len(log) \/ ~unended) => log'[i] = log[i]

AppendOnly == [][AppendOnlyStep]_vars

(* verify.py's header: seq is "monotonic per gateway_dir".                 *)
SeqNeverRestarts ==
    \A i, j \in 1..Len(log) :
        i < j /\ IsRecord(log[i]) /\ IsRecord(log[j]) => log[i].seq < log[j].seq

(* The records since the last line that is none.                           *)
IsLastBreak(s, b) ==
    /\ b = 0 \/ ~IsRecord(s[b])
    /\ \A i \in (b + 1)..Len(s) : IsRecord(s[i])

LastSegment(s) ==
    LET b == CHOOSE b \in 0..Len(s) : IsLastBreak(s, b)
    IN  SubSeq(s, b + 1, Len(s))

(* The end of the file is the chain of ActivityLog: an append is one step  *)
(* of it, a torn line starts it afresh, all else is invisible.             *)
Log == INSTANCE ActivityLog
       WITH Ids <- 1..MaxId, MayBreak <- Tears, chain <- LastSegment(log)

OneChain == Log!Spec
=============================================================================
