---------------------------- MODULE MailboxProofs ----------------------------
(***************************************************************************)
(* Proofs about Mailbox for any messages, callers, limits and number of    *)
(* restarts, with loads and saves of the file overlapping at will.         *)
(***************************************************************************)
EXTENDS Mailbox, TLAPS

(* A file without repetitions.                                             *)
Simple == [Messages -> 0..1]

(* Every copy of the file that may be written back is without repetitions. *)
CopiesSimple ==
    /\ pending \in Simple
    /\ listener.copy \in Simple
    /\ DOMAIN job = Callers
    /\ \A c \in Callers : job[c].step \in {"ack", "send"} => job[c].copy \in Simple

(* What the listener is appending is new to it, and a listener that is     *)
(* appending is not stopped.                                               *)
ListenerFresh ==
    /\ appended \subseteq seen
    /\ listener.msg # NoMessage =>
         running /\ listener.msg \in seen \ appended

-----------------------------------------------------------------------------

LEMMA EmptyFileSimple == EmptyFile \in Simple
  BY DEF EmptyFile, Simple

LEMMA SetItemSimple ==
  ASSUME NEW file \in Simple, NEW m, NEW n \in 0..1
  PROVE  [file EXCEPT ![m] = n] \in Simple
  <1> DEFINE new == [file EXCEPT ![m] = n]
  <1>1. new = [k \in Messages |-> IF k = m THEN n ELSE file[k]]
    BY DEF Simple
  <1>2. \A k \in Messages : file[k] \in 0..1
    BY DEF Simple
  <1> HIDE DEF new
  <1> QED BY <1>1, <1>2 DEF Simple

LEMMA WithItemSimple ==
  ASSUME NEW file \in Simple, NEW m
  PROVE  WithItem(file, m) \in Simple
  <1>1. 1 \in 0..1
    OBVIOUS
  <1>2. [file EXCEPT ![m] = 1] \in Simple
    BY <1>1, SetItemSimple, Zenon
  <1> QED BY <1>2 DEF WithItem

LEMMA WithoutSimple ==
  ASSUME NEW file \in Simple, NEW m
  PROVE  Without(file, m) \in Simple
  <1>1. 0 \in 0..1
    OBVIOUS
  <1> QED BY <1>1, SetItemSimple, Zenon DEF Without

LEMMA CopiesInit == Init => CopiesSimple
  BY EmptyFileSimple DEF Init, CopiesSimple, NotAppending, Idle

LEMMA CopiesStep == CopiesSimple /\ [Next]_vars => CopiesSimple'
  <1> SUFFICES ASSUME CopiesSimple, [Next]_vars PROVE CopiesSimple'
    OBVIOUS
  <1> USE DEF CopiesSimple
  <1>1. ASSUME NEW m \in Messages, Post(m) PROVE CopiesSimple'
    BY <1>1 DEF Post
  <1>2. ASSUME NEW m \in Messages, Receive(m) PROVE CopiesSimple'
    BY <1>2 DEF Receive
  <1>3. CASE Append
    <2>1. WithItem(listener.copy, listener.msg) \in Simple
      BY WithItemSimple
    <2>2. pending' \in Simple
      BY <1>3, <2>1 DEF Append
    <2> QED BY <1>3, <2>2, EmptyFileSimple DEF Append, NotAppending
  <1>4. CASE TickLoad
    BY <1>4 DEF TickLoad, operatorVars, upstreamVars
  <1>5. CASE TickSave
    BY <1>5 DEF TickSave
  <1>6. CASE OperatorSwitches
    BY <1>6 DEF OperatorSwitches
  <1>7. ASSUME NEW c \in Callers, Caller(c) PROVE CopiesSimple'
    <2> USE DEF Become
    <2>1. ASSUME NEW m \in Messages, AckLoad(c, m) PROVE CopiesSimple'
      BY <2>1 DEF AckLoad
    <2>2. ASSUME NEW m \in Messages \cup {NoMessage}, SendLoad(c, m) PROVE CopiesSimple'
      BY <2>2 DEF SendLoad
    <2>3. CASE AckSave(c)
      <3>1. Without(job[c].copy, job[c].msg) \in Simple
        BY <2>3, WithoutSimple DEF AckSave
      <3> QED BY <2>3, <3>1 DEF AckSave
    <2>4. CASE SendSave(c)
      <3>1. Without(job[c].copy, job[c].msg) \in Simple
        BY <2>4, WithoutSimple DEF SendSave
      <3> QED BY <2>4, <3>1 DEF SendSave
    <2>5. CASE SaveRow(c)
      BY <2>5 DEF SaveRow, Idle
    <2>6. ASSUME NEW u \in BOOLEAN, NEW k \in BOOLEAN, ManagedPoll(c, u, k)
          PROVE  CopiesSimple'
      BY <2>6 DEF ManagedPoll
    <2>7. ASSUME NEW u \in BOOLEAN, NEW k \in BOOLEAN, LocalPoll(c, u, k)
          PROVE  CopiesSimple'
      BY <2>7 DEF LocalPoll
    <2>8. CASE ManagedPollLoad(c)
      BY <2>8 DEF ManagedPollLoad
    <2>9. CASE List(c)
      BY <2>9 DEF List, Idle
    <2>10. CASE ListFails(c)
      BY <2>10 DEF ListFails, Idle
    <2>11. CASE Clear(c)
      BY <2>11, EmptyFileSimple DEF Clear
    <2> QED
      BY <1>7, <2>1, <2>2, <2>3, <2>4, <2>5, <2>6, <2>7, <2>8, <2>9, <2>10, <2>11
      DEF Caller
  <1>8. CASE UNCHANGED vars
    BY <1>8 DEF vars
  <1> QED
    BY <1>1, <1>2, <1>3, <1>4, <1>5, <1>6, <1>7, <1>8 DEF Next, Listener, Daemon

(* The mailbox never holds a message twice, however the loads and saves of *)
(* listener, acks, replies and polls overlap.                              *)
THEOREM NoMessageTwice == Spec => []NoDuplicates
  <1>1. CopiesSimple => NoDuplicates
    BY DEF CopiesSimple, NoDuplicates, Simple
  <1> QED BY CopiesInit, CopiesStep, <1>1, PTL DEF Spec

-----------------------------------------------------------------------------

LEMMA FreshInit == Init => ListenerFresh
  BY DEF Init, ListenerFresh, NotAppending

LEMMA FreshStep == ListenerFresh /\ [Next]_vars => ListenerFresh'
  <1> SUFFICES ASSUME ListenerFresh, [Next]_vars PROVE ListenerFresh'
    OBVIOUS
  <1> USE DEF ListenerFresh
  <1>1. ASSUME NEW m \in Messages, Post(m) PROVE ListenerFresh'
    BY <1>1 DEF Post, daemonVars
  <1>2. ASSUME NEW m \in Messages, Receive(m) PROVE ListenerFresh'
    BY <1>2 DEF Receive
  <1>3. CASE Append
    BY <1>3 DEF Append, NotAppending, daemonVars
  <1>4. CASE TickLoad
    BY <1>4 DEF TickLoad
  <1>5. CASE TickSave
    BY <1>5 DEF TickSave
  <1>6. CASE OperatorSwitches
    BY <1>6 DEF OperatorSwitches, daemonVars
  <1>7. ASSUME NEW c \in Callers, Caller(c) PROVE ListenerFresh'
    BY <1>7
    DEF Caller, AckLoad, AckSave, SendLoad, SendSave, SaveRow, ManagedPoll, LocalPoll,
        ManagedPollLoad, List, ListFails, Clear, daemonVars
  <1>8. CASE UNCHANGED vars
    BY <1>8 DEF vars, daemonVars
  <1> QED
    BY <1>1, <1>2, <1>3, <1>4, <1>5, <1>6, <1>7, <1>8 DEF Next, Listener, Daemon

(* One run of the listener puts a message into the mailbox at most once.   *)
THEOREM ListenerAppendsOnce == Spec => AppendedOnce
  <1>1. ListenerFresh /\ [Next]_vars =>
          [\A m \in appended : Append => ~(listener.msg = m /\ pending' # pending)]_vars
    <2> SUFFICES ASSUME ListenerFresh, NEW m \in appended, Append, listener.msg = m
                 PROVE  FALSE
      BY DEF Append
    <2> QED BY DEF ListenerFresh, Append
  <1> QED BY FreshInit, FreshStep, <1>1, PTL DEF Spec, AppendedOnce
-----------------------------------------------------------------------------

(* Whatever a caller acks or answers was posted.                           *)
JobsPosted ==
    \A c \in Callers :
        /\ job[c].step = "ack" => job[c].msg \in posted
        /\ job[c].step = "send" => job[c].msg \in posted \cup {NoMessage}

TypeInv == CopiesSimple /\ ListenerFresh /\ JobsPosted /\ TypeOK

LEMMA SimpleIsFile == Simple \subseteq Files
  <1>1. 0..1 \subseteq Nat
    OBVIOUS
  <1> QED BY <1>1 DEF Simple, Files

LEMMA JobsInit == Init => JobsPosted
  BY DEF Init, JobsPosted, Idle

LEMMA JobsStep == CopiesSimple /\ JobsPosted /\ [Next]_vars => JobsPosted'
  <1> SUFFICES ASSUME CopiesSimple, JobsPosted, [Next]_vars PROVE JobsPosted'
    OBVIOUS
  <1> USE DEF JobsPosted
  <1>0. DOMAIN job = Callers
    BY DEF CopiesSimple
  <1>1. ASSUME NEW m \in Messages, Post(m) PROVE JobsPosted'
    BY <1>1 DEF Post
  <1>2. CASE Listener
    BY <1>2 DEF Listener, Append, Receive, upstreamVars
  <1>3. CASE Daemon
    BY <1>3 DEF Daemon, TickLoad, TickSave, upstreamVars
  <1>4. CASE OperatorSwitches
    BY <1>4 DEF OperatorSwitches, upstreamVars
  <1>5. ASSUME NEW c \in Callers, Caller(c) PROVE JobsPosted'
    <2> USE <1>0 DEF Become, upstreamVars, Idle
    <2>1. ASSUME NEW m \in Messages, AckLoad(c, m) PROVE JobsPosted'
      BY <2>1 DEF AckLoad
    <2>2. ASSUME NEW m \in Messages \cup {NoMessage}, SendLoad(c, m) PROVE JobsPosted'
      BY <2>2 DEF SendLoad
    <2>3. CASE AckSave(c)
      BY <2>3 DEF AckSave
    <2>4. CASE SendSave(c)
      BY <2>4 DEF SendSave
    <2>5. CASE SaveRow(c)
      BY <2>5 DEF SaveRow
    <2>6. ASSUME NEW u \in BOOLEAN, NEW k \in BOOLEAN,
                 ManagedPoll(c, u, k) \/ LocalPoll(c, u, k)
          PROVE  JobsPosted'
      BY <2>6 DEF ManagedPoll, LocalPoll
    <2>7. CASE ManagedPollLoad(c)
      BY <2>7 DEF ManagedPollLoad
    <2>8. CASE List(c)
      BY <2>8 DEF List
    <2>9. CASE ListFails(c)
      BY <2>9 DEF ListFails
    <2>10. CASE Clear(c)
      BY <2>10 DEF Clear
    <2> QED
      BY <1>5, <2>1, <2>2, <2>3, <2>4, <2>5, <2>6, <2>7, <2>8, <2>9, <2>10 DEF Caller
  <1>6. CASE UNCHANGED vars
    BY <1>6 DEF vars, upstreamVars
  <1> QED BY <1>1, <1>2, <1>3, <1>4, <1>5, <1>6 DEF Next

LEMMA TypeInit == Init => TypeOK
  <1> SUFFICES ASSUME Init PROVE TypeOK
    OBVIOUS
  <1>1. EmptyFile \in Files
    BY EmptyFileSimple, SimpleIsFile
  <1>2. listener \in [msg : Messages \cup {NoMessage}, copy : Files]
    BY <1>1 DEF Init, NotAppending
  <1>3. switches \in 0..MaxSwitches
    BY LimitAssumption DEF Init
  <1>4. wanted \in BOOLEAN /\ running \in BOOLEAN
    BY Zenon DEF Init
  <1> QED BY <1>1, <1>2, <1>3, <1>4 DEF Init, TypeOK

LEMMA TypeStep ==
  ASSUME TypeInv, [Next]_vars, CopiesSimple'
  PROVE  TypeOK'
  <1> USE DEF TypeOK
  <1>0. pending' \in Files
    BY SimpleIsFile DEF CopiesSimple
  <1>1. ASSUME NEW m \in Messages, Post(m) PROVE TypeOK'
    BY <1>1, <1>0 DEF Post, TypeInv, operatorVars, daemonVars
  <1>2. ASSUME NEW m \in Messages, Receive(m) PROVE TypeOK'
    BY <1>2, <1>0 DEF Receive, TypeInv, operatorVars, upstreamVars
  <1>3. CASE Append
    BY <1>3, <1>0, EmptyFileSimple, SimpleIsFile
    DEF Append, TypeInv, ListenerFresh, NotAppending, operatorVars, daemonVars, upstreamVars
  <1>4. CASE Daemon
    BY <1>4, <1>0 DEF Daemon, TickLoad, TickSave, TypeInv, operatorVars, upstreamVars
  <1>5. CASE OperatorSwitches
    BY <1>5, <1>0, LimitAssumption DEF OperatorSwitches, TypeInv, daemonVars, upstreamVars
  <1>6. ASSUME NEW c \in Callers, Caller(c) PROVE TypeOK'
    <2>1. UNCHANGED <<operatorVars, daemonVars, listener, posted, appended>> /\ DOMAIN job' = Callers
      BY <1>6
      DEF Caller, AckLoad, AckSave, SendLoad, SendSave, SaveRow, ManagedPoll, LocalPoll,
          ManagedPollLoad, List, ListFails, Clear, upstreamVars, Become, TypeInv
    <2>2. unread' \subseteq posted
      BY <1>6
      DEF Caller, AckLoad, AckSave, SendLoad, SendSave, SaveRow, ManagedPoll, LocalPoll,
          ManagedPollLoad, List, ListFails, Clear, upstreamVars, TypeInv
    <2>3. reached' \subseteq posted
      <3>1. CASE AckSave(c)
        BY <3>1 DEF AckSave, TypeInv, JobsPosted
      <3>2. CASE SendSave(c)
        BY <3>2 DEF SendSave, TypeInv, JobsPosted
      <3>3. CASE List(c)
        <4>1. PICK l \in Listing(job[c].onlyUnread) :
                reached' = reached \cup (l \cap job[c].given)
          BY <3>3 DEF List
        <4>2. l \subseteq posted
          BY <4>1 DEF Listing, kSubset, TypeInv
        <4> QED BY <4>1, <4>2 DEF TypeInv
      <3> QED
        BY <1>6, <3>1, <3>2, <3>3
        DEF Caller, AckLoad, SendLoad, SaveRow, ManagedPoll, LocalPoll, ManagedPollLoad,
            ListFails, Clear, TypeInv
    <2> QED BY <1>0, <2>1, <2>2, <2>3 DEF TypeInv, operatorVars, daemonVars
  <1>7. CASE UNCHANGED vars
    BY <1>7 DEF vars, TypeInv, operatorVars, daemonVars, upstreamVars
  <1> QED BY <1>1, <1>2, <1>3, <1>4, <1>5, <1>6, <1>7 DEF Next, Listener

(* The file, the listener and the marks upstream are well typed; what is   *)
(* marked, seen or reached was posted.                                     *)
THEOREM MailboxTypeCorrect == Spec => []TypeOK
  <1>1. Init => TypeInv
    BY CopiesInit, FreshInit, JobsInit, TypeInit DEF TypeInv
  <1>2. TypeInv /\ [Next]_vars => TypeInv'
    BY CopiesStep, FreshStep, JobsStep, TypeStep DEF TypeInv
  <1>3. TypeInv => TypeOK
    BY DEF TypeInv
  <1> QED BY <1>1, <1>2, <1>3, PTL DEF Spec
=============================================================================
