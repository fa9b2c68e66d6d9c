--------------------------- MODULE BridgesProofs ----------------------------
(***************************************************************************)
(* Proofs about the components that stand between the platform and an      *)
(* agent that runs by itself: Channel, Sentinel, Handoff, ToolLoop,        *)
(* AdapterTasks and AdapterDispatch, each for any number of messages,      *)
(* mentions, threads and steps and any sizes of its queues. They share no  *)
(* state; each has an inductive invariant of its own, from which the       *)
(* property a run checks and the types follow.                             *)
(***************************************************************************)
EXTENDS Channel, Sentinel, Handoff, ToolLoop, AdapterTasks, AdapterDispatch,
        SequenceTheorems, FunctionTheorems, FiniteSetTheorems, WellFoundedInduction, TLAPS

-----------------------------------------------------------------------------
(* How often a value occurs in a sequence                                  *)

Places(s, m) == {i \in 1..Len(s) : s[i] = m}
Occurrences(s, m) == Cardinality(Places(s, m))
Bit(b) == IF b THEN 1 ELSE 0

LEMMA OccurrencesType ==
  ASSUME NEW S, NEW s \in Seq(S), NEW m
  PROVE  IsFiniteSet(Places(s, m)) /\ Occurrences(s, m) \in Nat
  <1>1. Len(s) \in Nat
    BY LenProperties
  <1>2. IsFiniteSet(1..Len(s))
    BY <1>1, FS_Interval
  <1>3. Places(s, m) \in SUBSET (1..Len(s))
    BY DEF Places
  <1> QED BY <1>2, <1>3, FS_Subset, FS_CardinalityType DEF Occurrences

LEMMA OccurrencesEmpty == ASSUME NEW m PROVE Occurrences(<<>>, m) = 0
  <1>1. Places(<<>>, m) = {}
    BY DEF Places
  <1> QED BY <1>1, FS_EmptySet DEF Occurrences

LEMMA OccurrencesAppend ==
  ASSUME NEW S, NEW s \in Seq(S), NEW x \in S, NEW m
  PROVE  Occurrences(Append(s, x), m) = Occurrences(s, m) + Bit(x = m)
  <1> DEFINE a == Append(s, x)
             n == Len(s)
  <1>1. /\ n \in Nat /\ Len(a) = n + 1 /\ a[n + 1] = x
        /\ \A i \in 1..n : a[i] = s[i]
    BY AppendProperties, LenProperties
  <1> HIDE DEF a, n
  <1>2. n + 1 \notin Places(s, m)
    BY <1>1 DEF Places, n
  <1>3. CASE x = m
    <2>1. Places(a, m) = Places(s, m) \cup {n + 1}
      BY <1>1, <1>3 DEF Places, n
    <2>2. Cardinality(Places(s, m) \cup {n + 1}) = Cardinality(Places(s, m)) + 1
      BY <1>2, OccurrencesType, FS_AddElement
    <2> QED BY <1>3, <2>1, <2>2 DEF Occurrences, a, Bit
  <1>4. CASE x # m
    <2>1. Places(a, m) = Places(s, m)
      BY <1>1, <1>4 DEF Places, n
    <2>2. Occurrences(s, m) \in Nat
      BY OccurrencesType
    <2> QED BY <1>4, <2>1, <2>2 DEF Occurrences, a, Bit
  <1> QED BY <1>3, <1>4

LEMMA OccurrencesTail ==
  ASSUME NEW S, NEW s \in Seq(S), s # <<>>, NEW m
  PROVE  /\ Head(s) \in S /\ Tail(s) \in Seq(S) /\ Len(Tail(s)) = Len(s) - 1
         /\ Occurrences(s, m) = Occurrences(Tail(s), m) + Bit(Head(s) = m)
  <1> DEFINE t == Tail(s)
             n == Len(t)
             P == Places(t, m)
             Q == {i + 1 : i \in P}
  <1>1. /\ n \in Nat /\ Len(s) = n + 1 /\ s[1] = Head(s) /\ Head(s) \in S
        /\ t \in Seq(S) /\ \A i \in 1..n : t[i] = s[i + 1]
    BY HeadTailProperties, LenProperties
  <1>2. IsFiniteSet(P) /\ Cardinality(P) \in Nat
    BY <1>1, OccurrencesType DEF Occurrences
  <1>3. P \subseteq 1..n
    BY DEF Places
  <1> HIDE DEF t, n, P
  <1>4. IsFiniteSet(Q) /\ Cardinality(Q) = Cardinality(P)
    <2> DEFINE f == [i \in P |-> i + 1]
    <2>1. f \in Bijection(P, Q)
      <3>1. f \in [P -> Q] /\ \A j \in P : f[j] = j + 1
        OBVIOUS
      <3>2. \A q \in Q : \E j \in P : f[j] = q
        BY <3>1
      <3>3. \A j, k \in P : f[j] = f[k] => j = k
        <4>1. \A j, k \in Int : j + 1 = k + 1 => j = k
          OBVIOUS
        <4>2. \A j \in P : j \in Int
          BY <1>1, <1>3
        <4> QED BY <3>1, <4>1, <4>2
      <3> HIDE DEF f, Q
      <3> QED BY <3>1, <3>2, <3>3, Fun_IsBij
    <2>2. ExistsBijection(P, Q)
      BY <2>1 DEF ExistsBijection
    <2> QED BY <1>2, <2>2, FS_Bijection
  <1>5. 1 \notin Q
    BY <1>1, <1>3
  <1>6. CASE Head(s) = m
    <2>1. Places(s, m) = Q \cup {1}
      <3>1. ASSUME NEW i \in Places(s, m), i # 1 PROVE i \in Q
        <4>1. i \in 1..(n + 1) /\ s[i] = m
          BY <1>1 DEF Places
        <4>2. i - 1 \in 1..n /\ i = (i - 1) + 1
          BY <1>1, <3>1, <4>1
        <4>3. i - 1 \in P
          BY <1>1, <4>1, <4>2 DEF P, Places, n
        <4> QED BY <4>2, <4>3
      <3>2. ASSUME NEW j \in P PROVE j + 1 \in Places(s, m)
        BY <1>1, <1>3 DEF P, Places, n
      <3>3. 1 \in Places(s, m)
        BY <1>1, <1>6 DEF Places
      <3> QED BY <3>1, <3>2, <3>3
    <2>2. Cardinality(Q \cup {1}) = Cardinality(Q) + 1
      BY <1>4, <1>5, FS_AddElement
    <2> QED BY <1>1, <1>4, <1>6, <2>1, <2>2 DEF Occurrences, Bit, P, t, n
  <1>7. CASE Head(s) # m
    <2>1. Places(s, m) = Q
      <3>1. ASSUME NEW i \in Places(s, m) PROVE i \in Q
        <4>1. i \in 1..(n + 1) /\ s[i] = m /\ i # 1
          BY <1>1, <1>7 DEF Places
        <4>2. i - 1 \in 1..n /\ i = (i - 1) + 1
          BY <1>1, <3>1, <4>1
        <4>3. i - 1 \in P
          BY <1>1, <4>1, <4>2 DEF P, Places, n
        <4> QED BY <4>2, <4>3
      <3>2. ASSUME NEW j \in P PROVE j + 1 \in Places(s, m)
        BY <1>1, <1>3 DEF P, Places, n
      <3> QED BY <3>1, <3>2
    <2> QED BY <1>1, <1>2, <1>4, <1>7, <2>1 DEF Occurrences, Bit, P, t, n
  <1> QED BY <1>6, <1>7, <1>1 DEF t, n

-----------------------------------------------------------------------------
(* Channel                                                                 *)

(* The copies of a mention on their way to the client: each was paid for   *)
(* by its id, which is among the seen ones or was forgotten.               *)
Underway == {"wait", "touch", "notify"}

Copies(m) ==
    Bit(handing = m) + Occurrences(handed, m) + Occurrences(queue, m)
    + Bit(emitter.at \in Underway /\ emitter.message = m)

CopiesPaid == \A m \in Messages : notified[m] + Copies(m) <= forgotten[m] + Bit(m \in seen)

EmitterHolds == emitter.at \in Underway \cup {"report"} => emitter.message \in Messages

ChannelInv == ChannelTypeOK /\ EmitterHolds /\ CopiesPaid

LEMMA CopiesType ==
  ASSUME ChannelTypeOK, NEW m \in Messages
  PROVE  Occurrences(handed, m) \in Nat /\ Occurrences(queue, m) \in Nat /\ Copies(m) \in Nat
         /\ notified[m] \in Nat /\ forgotten[m] \in Nat
  <1>1. Occurrences(handed, m) \in Nat /\ Occurrences(queue, m) \in Nat
    BY OccurrencesType DEF ChannelTypeOK
  <1>2. \A b : Bit(b) \in Nat
    BY DEF Bit
  <1>3. Copies(m) \in Nat
    BY <1>1, <1>2 DEF Copies
  <1> QED BY <1>1, <1>3 DEF ChannelTypeOK

LEMMA ChannelInitInv == ChannelInit => ChannelInv
  <1> SUFFICES ASSUME ChannelInit PROVE ChannelInv
    OBVIOUS
  <1>1. /\ <<>> \in Seq(Messages) /\ Len(<<>>) = 0
    BY EmptySeq
  <1>2. ChannelTypeOK
    <2>1. ready \in BOOLEAN
      BY DEF ChannelInit
    <2> QED BY <1>1, <2>1, SeenAssumption DEF ChannelInit, ChannelTypeOK, At, SeenAssumption
  <1>3. CopiesPaid
    <2> SUFFICES ASSUME NEW m \in Messages
                 PROVE  notified[m] + Copies(m) <= forgotten[m] + Bit(m \in seen)
      BY DEF CopiesPaid
    <2>1. Occurrences(handed, m) = 0 /\ Occurrences(queue, m) = 0
      BY OccurrencesEmpty DEF ChannelInit
    <2>2. handing # m /\ emitter.at \notin Underway
      BY SeenAssumption DEF ChannelInit, At, Underway, SeenAssumption
    <2>3. Copies(m) = 0
      BY <2>1, <2>2 DEF Copies, Bit
    <2>4. notified[m] = 0 /\ forgotten[m] = 0 /\ Bit(m \in seen) \in Nat
      BY DEF ChannelInit, Bit
    <2> QED BY <2>3, <2>4
  <1> QED BY <1>2, <1>3 DEF ChannelInv, EmitterHolds, ChannelInit, At, Underway

(* The steps that move no copy.                                            *)
LEMMA QuietKeeps ==
  ASSUME ChannelInv, UNCHANGED <<handing, handed, queue, emitter, notified, forgotten>>,
         seen \subseteq seen', ChannelTypeOK'
  PROVE  ChannelInv'
  <1>1. CopiesPaid'
    <2> SUFFICES ASSUME NEW m \in Messages
                 PROVE  (notified[m] + Copies(m) <= forgotten[m] + Bit(m \in seen))'
      BY DEF CopiesPaid
    <2>1. Copies(m)' = Copies(m) /\ notified'[m] = notified[m] /\ forgotten'[m] = forgotten[m]
      BY DEF Copies
    <2>2. /\ Copies(m) \in Nat /\ notified[m] \in Nat /\ forgotten[m] \in Nat
          /\ notified[m] + Copies(m) <= forgotten[m] + Bit(m \in seen)
      BY CopiesType DEF ChannelInv, CopiesPaid
    <2>3. Bit(m \in seen) <= Bit(m \in seen') /\ Bit(m \in seen) \in Nat /\ Bit(m \in seen') \in Nat
      BY DEF Bit
    <2> QED BY <2>1, <2>2, <2>3
  <1> QED BY <1>1 DEF ChannelInv, EmitterHolds

LEMMA QuietTypes ==
  ASSUME ChannelInv,
         \/ \E m \in Messages : ThreadSeesOwn(m) \/ ReceiptPosted(m)
         \/ LoopStarts \/ ClientInitializes \/ GetMessages
         \/ ReplyStarts \/ ReplySends \/ ReplyCompletes \/ ClientGoes
  PROVE  ChannelInv'
  <1> USE DEF ChannelInv
  <1>1. CASE \E m \in Messages : ThreadSeesOwn(m)
    <2>1. ChannelTypeOK'
      BY <1>1 DEF ThreadSeesOwn, ChannelTypeOK
    <2> QED BY <1>1, <2>1, QuietKeeps DEF ThreadSeesOwn
  <1>2. CASE \E m \in Messages : ReceiptPosted(m)
    <2>1. ChannelTypeOK'
      BY <1>2 DEF ReceiptPosted, Reports, ChannelTypeOK
    <2> QED BY <1>2, <2>1, QuietKeeps DEF ReceiptPosted
  <1>3. CASE LoopStarts
    <2>1. ChannelTypeOK'
      BY <1>3 DEF LoopStarts, ChannelTypeOK
    <2> QED BY <1>3, <2>1, QuietKeeps DEF LoopStarts
  <1>4. CASE ClientInitializes
    <2>1. ready' \in BOOLEAN
      BY <1>4 DEF ClientInitializes
    <2>2. ChannelTypeOK'
      BY <1>4, <2>1 DEF ClientInitializes, ChannelTypeOK
    <2> QED BY <1>4, <2>2, QuietKeeps DEF ClientInitializes
  <1>5. CASE GetMessages
    <2>1. PICK limit \in 1..Len(pending), mark_read \in BOOLEAN :
            /\ fetched' = fetched \cup {pending[i] : i \in 1..limit}
            /\ pending' = IF mark_read THEN SubSeq(pending, limit + 1, Len(pending)) ELSE pending
      BY <1>5 DEF GetMessages
    <2>2. Len(pending) \in Nat /\ \A i \in 1..Len(pending) : pending[i] \in Messages
      BY LenProperties, ElementOfSeq DEF ChannelTypeOK
    <2>3. SubSeq(pending, limit + 1, Len(pending)) \in Seq(Messages)
      <3>1. \A i \in (limit + 1)..Len(pending) : pending[i] \in Messages
        BY <2>2
      <3>2. limit + 1 \in Int /\ Len(pending) \in Int
        BY <2>2
      <3> QED BY <3>1, <3>2, SubSeqProperties
    <2>4. fetched' \in SUBSET Messages /\ pending' \in Seq(Messages)
      <3>1. \A i \in 1..limit : pending[i] \in Messages
        <4>1. \A n \in Nat : \A k \in 1..n : \A i \in 1..k : i \in 1..n
          OBVIOUS
        <4> QED BY <2>2, <4>1
      <3> DEFINE read == {pending[i] : i \in 1..limit}
      <3>2. fetched' \in SUBSET Messages
        <4>1. read \subseteq Messages
          BY <3>1
        <4>2. fetched' = fetched \cup read /\ fetched \subseteq Messages
          BY <2>1 DEF ChannelTypeOK
        <4> HIDE DEF read
        <4> QED BY <4>1, <4>2
      <3>3. pending \in Seq(Messages)
        BY DEF ChannelTypeOK
      <3>4. pending' \in Seq(Messages)
        BY <2>1, <2>3, <3>3
      <3> QED BY <3>2, <3>4
    <2>5. ChannelTypeOK'
      BY <1>5, <2>4 DEF GetMessages, ChannelTypeOK
    <2> QED BY <1>5, <2>5, QuietKeeps DEF GetMessages
  <1>6. CASE ReplyStarts \/ ReplySends
    <2>1. handler' \in [at : {"idle", "send", "completing"}, message : Messages \cup {NoMessage}]
      BY <1>6 DEF ReplyStarts, ReplySends, ChannelTypeOK, At
    <2>2. ChannelTypeOK'
      BY <1>6, <2>1 DEF ReplyStarts, ReplySends, ChannelTypeOK
    <2> QED BY <1>6, <2>2, QuietKeeps DEF ReplyStarts, ReplySends
  <1>7. CASE ReplyCompletes
    <2>1. /\ status' \in [Messages -> {"none", "received", "working", "completed"}]
          /\ handler' \in [at : {"idle", "send", "completing"}, message : Messages \cup {NoMessage}]
      BY <1>7 DEF ReplyCompletes, Reports, ChannelTypeOK, At
    <2>2. ChannelTypeOK'
      BY <1>7, <2>1 DEF ReplyCompletes, ChannelTypeOK
    <2> QED BY <1>7, <2>2, QuietKeeps DEF ReplyCompletes
  <1>8. CASE ClientGoes
    <2>1. ChannelTypeOK'
      BY <1>8 DEF ClientGoes, ChannelTypeOK
    <2> QED BY <1>8, <2>1, QuietKeeps DEF ClientGoes
  <1> QED BY <1>1, <1>2, <1>3, <1>4, <1>5, <1>6, <1>7, <1>8

(* A mention is taken: its id is new, or was forgotten.                    *)
LEMMA MatchesKeep == ASSUME ChannelInv, NEW m \in Messages, ThreadMatches(m) PROVE ChannelInv'
  <1> USE DEF ChannelInv
  <1>1. /\ m \notin seen /\ handing = NoMessage /\ handing' = m
        /\ forgotten' = [n \in Messages |->
                            forgotten[n] + IF n \in (seen \cup {m}) \ seen' THEN 1 ELSE 0]
        /\ UNCHANGED <<own, handed, queue, loop, ready, emitter, pending, latest, handler,
                       receipts, client, status, notified, fetched, dropped>>
    BY DEF ThreadMatches, Listening
  <1>2. seen' \subseteq seen \cup {m} /\ matches' \in Nat
    BY DEF ThreadMatches, Trimmed, ChannelTypeOK
  <1>3. forgotten' \in [Messages -> Nat]
    BY <1>1 DEF ChannelTypeOK
  <1>4. ChannelTypeOK'
    BY <1>1, <1>2, <1>3 DEF ChannelTypeOK
  <1>5. CopiesPaid'
    <2> SUFFICES ASSUME NEW n \in Messages
                 PROVE  notified'[n] + Copies(n)' <= forgotten'[n] + Bit(n \in seen')
      BY DEF CopiesPaid
    <2>1. Copies(n)' = Copies(n) + Bit(n = m)
      <3>1. Bit(handing = n) = 0 /\ Bit(handing' = n) = Bit(n = m)
        BY <1>1, SeenAssumption DEF Bit, SeenAssumption
      <3>2. Occurrences(handed, n) \in Nat /\ Occurrences(queue, n) \in Nat
        BY CopiesType
      <3> DEFINE e == Bit(emitter.at \in Underway /\ emitter.message = n)
                 o == Occurrences(handed, n)
                 q == Occurrences(queue, n)
                 b == Bit(n = m)
      <3>3. Copies(n)' = b + o + q + e /\ Copies(n) = 0 + o + q + e
        BY <1>1, <3>1 DEF Copies
      <3>4. e \in Nat /\ b \in Nat
        BY DEF Bit
      <3> HIDE DEF e, o, q, b
      <3>5. o \in Nat /\ q \in Nat
        BY <3>2 DEF o, q
      <3>6. Copies(n)' = Copies(n) + b
        BY <3>3, <3>4, <3>5
      <3> QED BY <3>6 DEF b
    <2>2. /\ Copies(n) \in Nat /\ notified[n] \in Nat /\ forgotten[n] \in Nat
          /\ notified[n] + Copies(n) <= forgotten[n] + Bit(n \in seen)
      BY CopiesType DEF CopiesPaid
    <2>3. forgotten'[n] = forgotten[n] + IF n \in (seen \cup {m}) \ seen' THEN 1 ELSE 0
      BY <1>1
    <2>4. notified'[n] = notified[n]
      BY <1>1
    <2> QED BY <1>1, <1>2, <2>1, <2>2, <2>3, <2>4 DEF Bit
  <1> QED BY <1>1, <1>4, <1>5 DEF EmitterHolds

(* A copy goes on, becomes a notification or is lost.                      *)
LEMMA CopiesMove ==
  ASSUME ChannelInv, ChannelTypeOK', UNCHANGED <<seen, forgotten>>,
         \A m \in Messages : notified'[m] + Copies(m)' <= notified[m] + Copies(m)
  PROVE  CopiesPaid'
  <1> SUFFICES ASSUME NEW m \in Messages
               PROVE  notified'[m] + Copies(m)' <= forgotten'[m] + Bit(m \in seen')
    BY DEF CopiesPaid
  <1>1. notified[m] + Copies(m) <= forgotten[m] + Bit(m \in seen)
    BY DEF ChannelInv, CopiesPaid
  <1>2. Copies(m) \in Nat /\ notified[m] \in Nat /\ forgotten[m] \in Nat
    BY CopiesType DEF ChannelInv
  <1>3. (Copies(m) \in Nat /\ notified[m] \in Nat)'
    <2>0. handed' \in Seq(Messages) /\ queue' \in Seq(Messages)
      BY DEF ChannelTypeOK
    <2> DEFINE a == Bit(handing' = m)
               o == Occurrences(handed', m)
               q == Occurrences(queue', m)
               e == Bit(emitter'.at \in Underway /\ emitter'.message = m)
    <2>1. o \in Nat /\ q \in Nat
      BY <2>0, OccurrencesType
    <2>2. a \in Nat /\ e \in Nat
      BY DEF Bit
    <2>3. Copies(m)' = a + o + q + e
      BY DEF Copies
    <2>4. notified'[m] \in Nat
      BY DEF ChannelTypeOK
    <2> HIDE DEF a, o, q, e
    <2> QED BY <2>1, <2>2, <2>3, <2>4
  <1>4. Bit(m \in seen) \in Nat
    BY DEF Bit
  <1> QED BY <1>1, <1>2, <1>3, <1>4

LEMMA ThreadHandsKeeps == ASSUME ChannelInv, ThreadHands PROVE ChannelInv'
  <1> USE DEF ChannelInv
  <1>1. /\ handing \in Messages /\ handing' = NoMessage /\ handed \in Seq(Messages)
        /\ \/ handed' = Append(handed, handing) /\ UNCHANGED dropped
           \/ UNCHANGED handed /\ dropped' = dropped \cup {handing}
        /\ UNCHANGED <<own, seen, queue, loop, ready, emitter, pending, latest, handler,
                       receipts, client, status, matches, notified, fetched, forgotten>>
    BY DEF ThreadHands, ChannelTypeOK
  <1>2. handed' \in Seq(Messages)
    <2>1. Append(handed, handing) \in Seq(Messages)
      BY <1>1, AppendProperties
    <2> QED BY <1>1, <2>1
  <1>3. dropped' \in SUBSET Messages
    BY <1>1 DEF ChannelTypeOK
  <1>4. ChannelTypeOK'
    BY <1>1, <1>2, <1>3 DEF ChannelTypeOK
  <1>5. ASSUME NEW m \in Messages
        PROVE  notified'[m] + Copies(m)' <= notified[m] + Copies(m)
    <2> DEFINE a == Bit(handing = m)
               o == Occurrences(handed, m)
               q == Occurrences(queue, m)
               e == Bit(emitter.at \in Underway /\ emitter.message = m)
               o2 == Occurrences(handed', m)
    <2>1. a \in Nat /\ e \in Nat /\ o \in Nat /\ q \in Nat /\ notified[m] \in Nat
      BY CopiesType DEF Bit
    <2>2. Bit(handing' = m) = 0
      BY <1>1, SeenAssumption DEF Bit, SeenAssumption
    <2>3. o2 = o + a \/ o2 = o
      <3>1. Occurrences(Append(handed, handing), m) = o + a
        BY <1>1, OccurrencesAppend
      <3> QED BY <1>1, <3>1
    <2>4. Copies(m) = a + o + q + e /\ Copies(m)' = 0 + o2 + q + e
      BY <1>1, <2>2 DEF Copies
    <2> HIDE DEF a, o, q, e, o2
    <2> QED BY <1>1, <2>1, <2>3, <2>4
  <1>6. CopiesPaid'
    BY <1>1, <1>4, <1>5, CopiesMove
  <1> QED BY <1>1, <1>4, <1>6 DEF EmitterHolds

LEMMA PushKeeps == ASSUME ChannelInv, PushQueues PROVE ChannelInv'
  <1> USE DEF ChannelInv
  <1> DEFINE x == Head(handed)
  <1>1. /\ handed # <<>> /\ handed' = Tail(handed)
        /\ handed \in Seq(Messages) /\ queue \in Seq(Messages)
        /\ \/ /\ Len(queue) < QueueSize /\ queue' = Append(queue, x)
              /\ receipts' = receipts \cup {x} /\ UNCHANGED dropped
           \/ UNCHANGED <<queue, receipts>> /\ dropped' = dropped \cup {x}
        /\ UNCHANGED <<own, seen, handing, loop, ready, emitter, pending, latest, handler,
                       client, status, matches, notified, fetched, forgotten>>
    BY DEF PushQueues, ChannelTypeOK
  <1>2. x \in Messages /\ handed' \in Seq(Messages)
    BY <1>1, HeadTailProperties
  <1> HIDE DEF x
  <1>3. queue' \in Seq(Messages) /\ Len(queue') <= QueueSize
    <2>1. QueueSize \in Nat /\ Len(queue) \in Nat /\ Len(queue) <= QueueSize
      BY <1>1, SeenAssumption, LenProperties DEF SeenAssumption, ChannelTypeOK
    <2>2. Append(queue, x) \in Seq(Messages) /\ Len(Append(queue, x)) = Len(queue) + 1
      BY <1>1, <1>2, AppendProperties
    <2>3. CASE UNCHANGED queue
      BY <1>1, <2>1, <2>3
    <2>4. CASE Len(queue) < QueueSize /\ queue' = Append(queue, x)
      <3>1. Len(queue) + 1 <= QueueSize
        BY <2>1, <2>4
      <3> QED BY <2>2, <2>4, <3>1
    <2> QED BY <1>1, <2>3, <2>4
  <1>4. receipts' \in SUBSET Messages /\ dropped' \in SUBSET Messages
    BY <1>1, <1>2 DEF ChannelTypeOK
  <1>5. ChannelTypeOK'
    <2>1. UNCHANGED <<own, seen, handing, loop, ready, emitter, pending, latest, handler,
                      client, status, matches, notified, fetched, forgotten>>
      BY <1>1
    <2>2. handed' \in Seq(Messages)
      BY <1>2
    <2> QED BY <2>1, <2>2, <1>3, <1>4 DEF ChannelTypeOK
  <1>6. ASSUME NEW m \in Messages
        PROVE  notified'[m] + Copies(m)' <= notified[m] + Copies(m)
    <2> DEFINE a == Bit(handing = m)
               o == Occurrences(handed, m)
               q == Occurrences(queue, m)
               e == Bit(emitter.at \in Underway /\ emitter.message = m)
               o2 == Occurrences(handed', m)
               q2 == Occurrences(queue', m)
               b == Bit(x = m)
    <2>1. a \in Nat /\ e \in Nat /\ b \in Nat /\ o \in Nat /\ q \in Nat /\ notified[m] \in Nat
      BY CopiesType DEF Bit
    <2>2. o = o2 + b
      BY <1>1, OccurrencesTail DEF x
    <2>3. q2 = q + b \/ q2 = q
      <3>1. Occurrences(Append(queue, x), m) = q + b
        BY <1>1, <1>2, OccurrencesAppend
      <3> QED BY <1>1, <3>1
    <2>4. o2 \in Nat
      BY <1>2, OccurrencesType
    <2>5. Copies(m) = a + o + q + e /\ Copies(m)' = a + o2 + q2 + e
      BY <1>1 DEF Copies
    <2> HIDE DEF a, o, q, e, o2, q2, b
    <2> QED BY <1>1, <2>1, <2>2, <2>3, <2>4, <2>5
  <1>7. CopiesPaid'
    BY <1>1, <1>5, <1>6, CopiesMove
  <1> QED BY <1>1, <1>5, <1>7 DEF EmitterHolds

LEMMA TakesKeep == ASSUME ChannelInv, EmitterTakes PROVE ChannelInv'
  <1> USE DEF ChannelInv
  <1> DEFINE x == Head(queue)
  <1>1. /\ queue # <<>> /\ queue' = Tail(queue) /\ queue \in Seq(Messages)
        /\ emitter.at = "get" /\ emitter' = At("wait", x)
        /\ UNCHANGED <<own, seen, handing, handed, loop, ready, pending, latest, handler,
                       receipts, client, status, matches, notified, fetched, forgotten, dropped>>
    BY DEF EmitterTakes, ChannelTypeOK
  <1>2. x \in Messages /\ queue' \in Seq(Messages) /\ Len(queue') = Len(queue) - 1
    BY <1>1, HeadTailProperties
  <1>3. Len(queue') <= QueueSize
    <2>1. QueueSize \in Nat /\ Len(queue) \in Nat /\ Len(queue) <= QueueSize
      BY <1>1, SeenAssumption, LenProperties DEF SeenAssumption, ChannelTypeOK
    <2> QED BY <1>2, <2>1
  <1> HIDE DEF x
  <1>4. /\ emitter' \in [at : {"get", "wait", "touch", "notify", "report", "cancelled"},
                         message : Messages \cup {NoMessage}]
        /\ emitter'.at = "wait" /\ emitter'.message = x
    BY <1>1, <1>2 DEF At
  <1>5. ChannelTypeOK'
    BY <1>1, <1>2, <1>3, <1>4 DEF ChannelTypeOK
  <1>6. ASSUME NEW m \in Messages
        PROVE  notified'[m] + Copies(m)' <= notified[m] + Copies(m)
    <2> DEFINE a == Bit(handing = m)
               o == Occurrences(handed, m)
               q == Occurrences(queue, m)
               q2 == Occurrences(queue', m)
               b == Bit(x = m)
    <2>1. a \in Nat /\ b \in Nat /\ o \in Nat /\ q \in Nat /\ notified[m] \in Nat
      BY CopiesType DEF Bit
    <2>2. q = q2 + b
      BY <1>1, OccurrencesTail DEF x
    <2>3. q2 \in Nat
      BY <1>2, OccurrencesType
    <2>4. Bit(emitter.at \in Underway /\ emitter.message = m) = 0
      BY <1>1 DEF Bit, Underway
    <2>5. Bit(emitter'.at \in Underway /\ emitter'.message = m) = b
      BY <1>4 DEF Bit, Underway
    <2>6. Copies(m) = a + o + q + 0 /\ Copies(m)' = a + o + q2 + b
      BY <1>1, <2>4, <2>5 DEF Copies
    <2> HIDE DEF a, o, q, q2, b
    <2> QED BY <1>1, <2>1, <2>2, <2>3, <2>6
  <1>7. CopiesPaid'
    BY <1>1, <1>5, <1>6, CopiesMove
  <1> QED BY <1>2, <1>4, <1>5, <1>7 DEF EmitterHolds

(* The steps of the emitter that hold on to its message.                   *)
LEMMA HoldsKeep ==
  ASSUME ChannelInv, ChannelTypeOK',
         emitter.at \in Underway, emitter'.at \in Underway \cup {"report"},
         emitter'.message = emitter.message,
         UNCHANGED <<handing, handed, queue, seen, forgotten>>,
         \A m \in Messages :
            notified'[m] + Bit(emitter'.at \in Underway /\ emitter'.message = m)
              <= notified[m] + Bit(emitter.at \in Underway /\ emitter.message = m)
  PROVE  ChannelInv'
  <1> USE DEF ChannelInv
  <1>1. ASSUME NEW m \in Messages
        PROVE  notified'[m] + Copies(m)' <= notified[m] + Copies(m)
    <2> DEFINE a == Bit(handing = m)
               o == Occurrences(handed, m)
               q == Occurrences(queue, m)
               e == Bit(emitter.at \in Underway /\ emitter.message = m)
               e2 == Bit(emitter'.at \in Underway /\ emitter'.message = m)
    <2>1. a \in Nat /\ e \in Nat /\ e2 \in Nat /\ o \in Nat /\ q \in Nat /\ notified[m] \in Nat
      BY CopiesType DEF Bit
    <2>2. notified'[m] \in Nat
      BY DEF ChannelTypeOK
    <2>3. Copies(m) = a + o + q + e /\ Copies(m)' = a + o + q + e2
      BY DEF Copies
    <2>4. notified'[m] + e2 <= notified[m] + e
      OBVIOUS
    <2> HIDE DEF a, o, q, e, e2
    <2> QED BY <2>1, <2>2, <2>3, <2>4
  <1>2. CopiesPaid'
    BY <1>1, CopiesMove
  <1> QED BY <1>2 DEF EmitterHolds

LEMMA EmitterKeeps ==
  ASSUME ChannelInv, EmitterRecords \/ EmitterTouched
  PROVE  ChannelInv'
  <1> USE DEF ChannelInv
  <1>1. emitter.message \in Messages /\ pending \in Seq(Messages)
    BY DEF EmitterHolds, EmitterRecords, EmitterTouched, Underway, ChannelTypeOK
  <1>2. pending' \in Seq(Messages)
    <2>1. CASE EmitterRecords
      <3>1. Append(pending, emitter.message) \in Seq(Messages)
        BY <1>1, AppendProperties
      <3> QED BY <2>1, <3>1 DEF EmitterRecords
    <2>2. CASE EmitterTouched
      <3> DEFINE first == Len(pending) - Half + 1
      <3>1. Len(pending) \in Nat /\ Half \in Nat /\ Half <= SeenMax
        BY <1>1, LenProperties, SeenAssumption DEF Half, SeenAssumption
      <3>2. CASE Len(pending) > SeenMax
        <4>1. first \in 1..(Len(pending) + 1)
          BY <3>1, <3>2, SeenAssumption DEF SeenAssumption
        <4> HIDE DEF first
        <4>2. \A i \in first..Len(pending) : i \in 1..Len(pending)
          BY <3>1, <4>1
        <4>3. \A i \in first..Len(pending) : pending[i] \in Messages
          BY <1>1, <4>2, ElementOfSeq
        <4>4. first \in Int /\ Len(pending) \in Int
          BY <3>1, <4>1
        <4>5. SubSeq(pending, first, Len(pending)) \in Seq(Messages)
          BY <4>3, <4>4, SubSeqProperties
        <4> QED BY <2>2, <3>2, <4>5 DEF EmitterTouched, first
      <3>3. CASE ~(Len(pending) > SeenMax)
        BY <1>1, <2>2, <3>3 DEF EmitterTouched
      <3> QED BY <3>2, <3>3
    <2> QED BY <2>1, <2>2
  <1>3. /\ emitter.at \in Underway /\ emitter'.at \in Underway
        /\ emitter'.message = emitter.message
        /\ emitter' \in [at : {"get", "wait", "touch", "notify", "report", "cancelled"},
                         message : Messages \cup {NoMessage}]
        /\ latest' \in Messages \cup {NoMessage}
    BY <1>1 DEF EmitterRecords, EmitterTouched, At, Underway, ChannelTypeOK
  <1>4. UNCHANGED <<own, seen, handing, handed, queue, loop, ready, handler,
                    receipts, client, status, matches, notified, fetched, forgotten, dropped>>
    BY DEF EmitterRecords, EmitterTouched
  <1>5. ChannelTypeOK'
    BY <1>2, <1>3, <1>4 DEF ChannelTypeOK
  <1>6. ASSUME NEW m \in Messages
        PROVE  notified'[m] + Bit(emitter'.at \in Underway /\ emitter'.message = m)
                 <= notified[m] + Bit(emitter.at \in Underway /\ emitter.message = m)
    <2>1. notified[m] \in Nat
      BY CopiesType
    <2> QED BY <1>3, <1>4, <2>1 DEF Bit
  <1> QED BY <1>3, <1>4, <1>5, <1>6, HoldsKeep

(* The emitter lets its message go.                                        *)
LEMMA LetsGo ==
  ASSUME ChannelInv, ChannelTypeOK', emitter'.at \in {"get", "cancelled"},
         UNCHANGED <<handing, handed, queue, seen, forgotten, notified>>
  PROVE  ChannelInv'
  <1> USE DEF ChannelInv
  <1>1. ASSUME NEW m \in Messages
        PROVE  notified'[m] + Copies(m)' <= notified[m] + Copies(m)
    <2> DEFINE a == Bit(handing = m)
               o == Occurrences(handed, m)
               q == Occurrences(queue, m)
               e == Bit(emitter.at \in Underway /\ emitter.message = m)
    <2>1. a \in Nat /\ e \in Nat /\ o \in Nat /\ q \in Nat /\ notified[m] \in Nat
      BY CopiesType DEF Bit
    <2>2. Bit(emitter'.at \in Underway /\ emitter'.message = m) = 0
      BY DEF Bit, Underway
    <2>3. Copies(m) = a + o + q + e /\ Copies(m)' = a + o + q + 0
      BY <2>2 DEF Copies
    <2> HIDE DEF a, o, q, e
    <2> QED BY <2>1, <2>3
  <1>2. CopiesPaid'
    BY <1>1, CopiesMove
  <1> QED BY <1>2 DEF EmitterHolds, Underway

(* A notification written turns the emitter's copy into one notified.      *)
LEMMA NotifiesKeep == ASSUME ChannelInv, EmitterNotifies PROVE ChannelInv'
  <1> USE DEF ChannelInv
  <1> DEFINE x == emitter.message
             Emitters == [at : {"get", "wait", "touch", "notify", "report", "cancelled"},
                          message : Messages \cup {NoMessage}]
  <1>1. x \in Messages /\ emitter.at \in Underway
    BY DEF EmitterHolds, EmitterNotifies, Underway
  <1>2. UNCHANGED <<own, seen, handing, handed, queue, loop, ready, pending, latest, handler,
                    receipts, client, status, matches, fetched, forgotten, dropped>>
    BY DEF EmitterNotifies
  <1>3. CASE notified' = [notified EXCEPT ![x] = @ + 1] /\ emitter' = At("report", x)
    <2>1. /\ emitter' \in Emitters /\ emitter'.at = "report" /\ emitter'.message = x
      BY <1>1, <1>3 DEF At
    <2>2. notified' \in [Messages -> Nat]
      BY <1>1, <1>3 DEF ChannelTypeOK
    <2>3. ChannelTypeOK'
      BY <1>2, <2>1, <2>2 DEF ChannelTypeOK
    <2>4. ASSUME NEW m \in Messages
          PROVE  notified'[m] + Bit(emitter'.at \in Underway /\ emitter'.message = m)
                   <= notified[m] + Bit(emitter.at \in Underway /\ emitter.message = m)
      <3>1. Bit(emitter'.at \in Underway /\ emitter'.message = m) = 0
        BY <2>1 DEF Bit, Underway
      <3>2. notified[m] \in Nat /\ notified'[m] = notified[m] + Bit(x = m)
        BY <1>1, <1>3, CopiesType DEF Bit, ChannelTypeOK
      <3>3. Bit(emitter.at \in Underway /\ emitter.message = m) = Bit(x = m) /\ Bit(x = m) \in Nat
        BY <1>1 DEF Bit
      <3> QED BY <3>1, <3>2, <3>3
    <2>5. emitter'.at \in Underway \cup {"report"}
      BY <2>1
    <2> QED BY <1>1, <1>2, <2>1, <2>3, <2>4, <2>5, HoldsKeep
  <1>4. CASE emitter' = At("get", NoMessage) /\ UNCHANGED notified
    <2>1. emitter' \in Emitters /\ emitter'.at = "get"
      BY <1>4 DEF At
    <2>2. ChannelTypeOK'
      BY <1>2, <1>4, <2>1 DEF ChannelTypeOK
    <2> QED BY <1>2, <1>4, <2>1, <2>2, LetsGo
  <1> QED BY <1>3, <1>4 DEF EmitterNotifies

LEMMA EmitterGoesKeeps == ASSUME ChannelInv, EmitterReports \/ LoopEnds PROVE ChannelInv'
  <1> USE DEF ChannelInv
  <1>1. /\ emitter' \in [at : {"get", "wait", "touch", "notify", "report", "cancelled"},
                         message : Messages \cup {NoMessage}]
        /\ emitter'.at \in {"get", "cancelled"}
    BY DEF EmitterReports, LoopEnds, At
  <1>2. /\ status' \in [Messages -> {"none", "received", "working", "completed"}]
        /\ loop' \in {"starting", "serving", "closed"}
    BY DEF EmitterReports, LoopEnds, Reports, ChannelTypeOK
  <1>3. UNCHANGED <<own, seen, handing, handed, queue, ready, pending, latest, handler,
                    receipts, client, matches, notified, fetched, forgotten, dropped>>
    BY DEF EmitterReports, LoopEnds
  <1>4. ChannelTypeOK'
    BY <1>1, <1>2, <1>3 DEF ChannelTypeOK
  <1> QED BY <1>1, <1>3, <1>4, LetsGo

-----------------------------------------------------------------------------

LEMMA ChannelStepInv == ChannelInv /\ [ChannelNext]_channel => ChannelInv'
  <1> SUFFICES ASSUME ChannelInv, [ChannelNext]_channel PROVE ChannelInv'
    OBVIOUS
  <1>1. CASE UNCHANGED channel
    BY <1>1 DEF channel, ChannelInv, ChannelTypeOK, EmitterHolds, CopiesPaid, Copies
  <1>2. ASSUME NEW m \in Messages, ThreadSeesOwn(m) \/ ReceiptPosted(m) PROVE ChannelInv'
    BY <1>2, QuietTypes
  <1>3. ASSUME NEW m \in Messages, ThreadMatches(m) PROVE ChannelInv'
    BY <1>3, MatchesKeep
  <1>4. CASE \/ LoopStarts \/ ClientInitializes \/ GetMessages
             \/ ReplyStarts \/ ReplySends \/ ReplyCompletes \/ ClientGoes
    BY <1>4, QuietTypes
  <1>5. CASE ThreadHands \/ PushQueues \/ EmitterTakes
    BY <1>5, ThreadHandsKeeps, PushKeeps, TakesKeep
  <1>6. CASE EmitterRecords \/ EmitterTouched \/ EmitterNotifies \/ EmitterReports \/ LoopEnds
    BY <1>6, EmitterKeeps, NotifiesKeep, EmitterGoesKeeps
  <1> QED BY <1>1, <1>2, <1>3, <1>4, <1>5, <1>6 DEF ChannelNext

LEMMA ChannelInvHolds == ChannelSpec => []ChannelInv
  BY ChannelInitInv, ChannelStepInv, PTL DEF ChannelSpec

(* For every number of messages, length of the queue and limit on the seen *)
(* ids, and however the platform repeats events: the channel notifies its  *)
(* client of a message once, and once more each time the trimming of       *)
(* seen_ids forgot it.                                                     *)
THEOREM ChannelNotifiesOnce == ChannelSpec => []NotifiedOnce
  <1>1. ChannelInv => NotifiedOnce
    <2> SUFFICES ASSUME ChannelInv, NEW m \in Messages PROVE notified[m] <= 1 + forgotten[m]
      BY DEF NotifiedOnce
    <2>1. Copies(m) \in Nat /\ notified[m] \in Nat /\ forgotten[m] \in Nat
      BY CopiesType DEF ChannelInv
    <2>2. notified[m] + Copies(m) <= forgotten[m] + Bit(m \in seen)
      BY DEF ChannelInv, CopiesPaid
    <2>3. Bit(m \in seen) \in {0, 1}
      BY DEF Bit
    <2> QED BY <2>1, <2>2, <2>3
  <1> QED BY <1>1, ChannelInvHolds, PTL

(* Every variable of the channel keeps its type, and its queue never grows *)
(* past --queue-size.                                                      *)
THEOREM ChannelTypeCorrect == ChannelSpec => []ChannelTypeOK
  <1>1. ChannelInv => ChannelTypeOK
    BY DEF ChannelInv
  <1> QED BY <1>1, ChannelInvHolds, PTL

-----------------------------------------------------------------------------
(* Sentinel                                                                *)

Forms == {"working", "partial", "final"}
ReplyRuns == [client : Nat, reply : Nat, text : BOOLEAN, finished : BOOLEAN]
Updater == [at : {"off", "waits", "edits", "creates"}, content : {Nothing, "working", "partial"}]
Worker == [at : {"get", "gate", "announcing", "running", "over", "sending", "editing"},
           mention : Mentions \cup {NoMention}]

(* Each mention heard waits once, is with the worker, or is done with.     *)
WaitsOnce ==
    /\ \A i \in 1..Len(waiting) : waiting[i] \in heard \ settled /\ waiting[i] # worker.mention
    /\ \A i, j \in 1..Len(waiting) : waiting[i] = waiting[j] => i = j

WorkerHolds ==
    /\ worker.at = "get" <=> worker.mention = NoMention
    /\ worker.mention # NoMention => worker.mention \in heard \ settled
    /\ worker.at \in {"over", "sending", "editing"} => runs[worker.mention].finished

(* Of a mention that is settled no update is under way, and none begins.   *)
SettledStay ==
    /\ settled \subseteq heard
    /\ \A m \in settled : updaters[m].at \in {"off", "waits"} /\ runs[m].finished

(* At the limit the agent is paused, and no run that it began is left.     *)
LimitPauses ==
    /\ limitedSince <= limited /\ limitedSince <= MaxLimited
    /\ limitedSince = MaxLimited => paused /\ worker.at \in {"get", "gate"}

SentinelTypes ==
    /\ streamEdits \in BOOLEAN
    /\ heard \in SUBSET Mentions /\ completed \in SUBSET Mentions
    /\ waiting \in Seq(Mentions) /\ Len(waiting) <= MentionQueue
    /\ clientNow \in Nat /\ unanswered \in Nat /\ pauses \in Nat /\ Troubles <= MaxTroubles
    /\ worker \in Worker
    /\ runs \in [Mentions -> ReplyRuns]
    /\ updaters \in [Mentions -> Updater]
    /\ \A m \in Mentions : updaters[m].at \in {"edits", "creates"} => updaters[m].content # Nothing
    /\ chat \in [Mentions -> Seq(Forms)]
    /\ limited \in Nat /\ limitedSince \in Nat /\ paused \in BOOLEAN

SentinelInv == SentinelTypes /\ WaitsOnce /\ WorkerHolds /\ SettledStay /\ LimitPauses

LEMMA SentinelConstants ==
  /\ NoMention \notin Mentions /\ MaxLimited \in Nat \ {0}
  /\ MentionQueue \in Nat /\ MaxTroubles \in Nat
  BY SentinelAssumption DEF SentinelAssumption

LEMMA SentinelInitInv == SentinelInit => SentinelInv
  <1> SUFFICES ASSUME SentinelInit PROVE SentinelInv
    OBVIOUS
  <1>1. <<>> \in Seq(Mentions) /\ <<>> \in Seq(Forms) /\ Len(<<>>) = 0
    BY EmptySeq
  <1>2. worker \in Worker /\ worker.at = "get" /\ worker.mention = NoMention
    BY DEF SentinelInit, WorkerAt, Worker
  <1>3. runs \in [Mentions -> ReplyRuns]
    BY DEF SentinelInit, NewRun, ReplyRuns
  <1>4. updaters \in [Mentions -> Updater] /\ \A m \in Mentions : updaters[m].at = "off"
    BY DEF SentinelInit, UpdaterAt, Updater
  <1>5. chat \in [Mentions -> Seq(Forms)]
    BY <1>1 DEF SentinelInit
  <1>6. /\ clientNow = 0 /\ unanswered = 0 /\ pauses = 0 /\ paused \in BOOLEAN
        /\ streamEdits \in BOOLEAN /\ limited = 0 /\ limitedSince = 0
        /\ heard = {} /\ completed = {} /\ settled = {} /\ waiting = <<>>
    BY DEF SentinelInit
  <1>7. SentinelTypes
    BY <1>1, <1>2, <1>3, <1>4, <1>5, <1>6, SentinelConstants DEF SentinelTypes, Troubles
  <1> QED BY <1>1, <1>2, <1>6, <1>7, SentinelConstants
          DEF SentinelInv, WaitsOnce, WorkerHolds, SettledStay, LimitPauses

-----------------------------------------------------------------------------
(* Requests                                                                *)

LEMMA EditedIsSeq ==
  ASSUME NEW s \in Seq(Forms), NEW i, NEW x \in Forms
  PROVE  [s EXCEPT ![i] = x] \in Seq(Forms)
  <1> DEFINE e == [s EXCEPT ![i] = x]
  <1>1. Len(s) \in Nat /\ s \in [1..Len(s) -> Forms]
    BY LenProperties, SeqDef
  <1>2. e \in [1..Len(s) -> Forms]
    BY <1>1
  <1> QED BY <1>1, <1>2, SeqDef

(* What a request may do to the state, whatever becomes of it.             *)
LEMMA RequestTypes ==
  ASSUME SentinelInv, NEW m \in Mentions, NEW content \in Forms,
         SendsReply(m, content) \/ EditsReply(m, content)
  PROVE  /\ chat' \in [Mentions -> Seq(Forms)]
         /\ \A n \in Mentions \ {m} : chat'[n] = chat[n]
         /\ runs' \in [Mentions -> ReplyRuns]
         /\ \A n \in Mentions : runs'[n].finished = runs[n].finished
         /\ unanswered' \in Nat
         /\ clientNow + unanswered' + pauses <= MaxTroubles
  <1> USE DEF SentinelInv
  <1>0. chat \in [Mentions -> Seq(Forms)] /\ runs \in [Mentions -> ReplyRuns]
        /\ clientNow \in Nat /\ unanswered \in Nat /\ pauses \in Nat
        /\ clientNow + unanswered + pauses <= MaxTroubles /\ MaxTroubles \in Nat
    BY SentinelConstants DEF SentinelTypes, Troubles
  <1>1. CASE chat' = [chat EXCEPT ![m] = Append(@, content)]
             /\ \/ runs' = [runs EXCEPT ![m].reply = Len(chat[m]) + 1] /\ UNCHANGED unanswered
                \/ Troubles < MaxTroubles /\ unanswered' = unanswered + 1 /\ UNCHANGED runs
    <2>1. Append(chat[m], content) \in Seq(Forms) /\ Len(chat[m]) + 1 \in Nat
      BY <1>0, AppendProperties, LenProperties
    <2>2. chat' \in [Mentions -> Seq(Forms)] /\ \A n \in Mentions \ {m} : chat'[n] = chat[n]
      BY <1>0, <1>1, <2>1
    <2>3. /\ runs' \in [Mentions -> ReplyRuns]
          /\ \A n \in Mentions : runs'[n].finished = runs[n].finished
      <3>1. CASE UNCHANGED runs
        BY <1>0, <3>1
      <3>2. CASE runs' = [runs EXCEPT ![m].reply = Len(chat[m]) + 1]
        <4> DEFINE r == [runs[m] EXCEPT !.reply = Len(chat[m]) + 1]
        <4>1. r \in ReplyRuns /\ r.finished = runs[m].finished
          BY <1>0, <2>1 DEF ReplyRuns
        <4>2. runs' = [runs EXCEPT ![m] = r]
          BY <3>2
        <4> HIDE DEF r
        <4> QED BY <1>0, <4>1, <4>2
      <3> QED BY <1>1, <3>1, <3>2
    <2>4. unanswered' \in Nat /\ clientNow + unanswered' + pauses <= MaxTroubles
      BY <1>0, <1>1 DEF Troubles
    <2> QED BY <2>2, <2>3, <2>4
  <1>2. CASE UNCHANGED <<chat, runs, unanswered>>
    BY <1>0, <1>2
  <1>3. CASE chat' = [chat EXCEPT ![m][runs[m].reply] = content] /\ UNCHANGED <<runs, unanswered>>
    <2> DEFINE s == [chat[m] EXCEPT ![runs[m].reply] = content]
    <2>1. s \in Seq(Forms)
      BY <1>0, EditedIsSeq
    <2>2. chat' = [chat EXCEPT ![m] = s]
      BY <1>3
    <2> HIDE DEF s
    <2> QED BY <1>0, <1>3, <2>1, <2>2
  <1> QED BY <1>1, <1>2, <1>3 DEF SendsReply, EditsReply

-----------------------------------------------------------------------------
(* The main thread and the operator                                        *)

LEMMA HearsMentions == ASSUME SentinelInv, NEW m \in Mentions, Hears(m) PROVE SentinelInv'
  <1> USE DEF SentinelInv
  <1>1. /\ m \notin heard /\ heard' = heard \cup {m}
        /\ waiting' = waiting \/ (Len(waiting) < MentionQueue /\ waiting' = Append(waiting, m))
        /\ UNCHANGED <<streamEdits, clientNow, worker, runs, updaters, chat, completed, limited,
                       paused, pauses, unanswered, limitedSince, settled>>
    BY DEF Hears
  <1>2. waiting \in Seq(Mentions) /\ Len(waiting) \in Nat /\ Len(waiting) <= MentionQueue
    BY LenProperties DEF SentinelTypes
  <1>3. CASE waiting' = waiting
    <2>1. SentinelTypes'
      BY <1>1, <1>3 DEF SentinelTypes, Troubles
    <2> QED BY <1>1, <1>3, <2>1 DEF WaitsOnce, WorkerHolds, SettledStay, LimitPauses
  <1>4. CASE Len(waiting) < MentionQueue /\ waiting' = Append(waiting, m)
    <2> DEFINE l == Len(waiting)
    <2>1. /\ waiting' \in Seq(Mentions) /\ Len(waiting') = l + 1 /\ waiting'[l + 1] = m
          /\ \A i \in 1..l : waiting'[i] = waiting[i]
      BY <1>2, <1>4, AppendProperties
    <2>2. Len(waiting') <= MentionQueue
      BY <1>2, <1>4, <2>1, SentinelConstants
    <2>3. SentinelTypes'
      BY <1>1, <2>1, <2>2 DEF SentinelTypes, Troubles
    <2>4. \A i \in 1..l : waiting[i] \in heard \ settled /\ waiting[i] # worker.mention
      BY DEF WaitsOnce
    <2>5. \A i, j \in 1..l : waiting[i] = waiting[j] => i = j
      BY DEF WaitsOnce
    <2>6. m \notin settled /\ m # worker.mention
      BY <1>1, SentinelConstants DEF SettledStay, WorkerHolds
    <2>7. l \in Nat
      BY <1>2
    <2> HIDE DEF l
    <2>8. \A i \in 1..(l + 1) : i \in 1..l \/ i = l + 1
      BY <2>7
    <2>9. \A i \in 1..(l + 1) : waiting'[i] \in heard' \ settled /\ waiting'[i] # worker.mention
      BY <1>1, <2>1, <2>4, <2>6, <2>8
    <2>10. \A i, j \in 1..(l + 1) : waiting'[i] = waiting'[j] => i = j
      BY <1>1, <2>1, <2>4, <2>5, <2>8
    <2>11. WaitsOnce'
      BY <1>1, <2>1, <2>9, <2>10 DEF WaitsOnce
    <2> QED BY <1>1, <2>3, <2>11 DEF WorkerHolds, SettledStay, LimitPauses
  <1> QED BY <1>1, <1>3, <1>4

LEMMA OutsideKeeps ==
  ASSUME SentinelInv, Reconnects \/ OperatorPauses \/ OperatorResumes
  PROVE  SentinelInv'
  <1> USE DEF SentinelInv
  <1>1. CASE Reconnects
    <2>1. SentinelTypes'
      BY <1>1, SentinelConstants DEF Reconnects, SentinelTypes, Troubles
    <2> QED BY <1>1, <2>1 DEF Reconnects, WaitsOnce, WorkerHolds, SettledStay, LimitPauses
  <1>2. CASE OperatorPauses
    <2>0. paused' \in BOOLEAN
      BY <1>2 DEF OperatorPauses
    <2>1. SentinelTypes'
      BY <1>2, <2>0, SentinelConstants DEF OperatorPauses, SentinelTypes, Troubles
    <2> QED BY <1>2, <2>1 DEF OperatorPauses, WaitsOnce, WorkerHolds, SettledStay, LimitPauses
  <1>3. CASE OperatorResumes
    <2>0. paused' \in BOOLEAN /\ limitedSince' = 0
      BY <1>3 DEF OperatorResumes
    <2>1. SentinelTypes'
      BY <1>3, <2>0 DEF OperatorResumes, SentinelTypes, Troubles
    <2>2. LimitPauses'
      BY <1>3, <2>0, SentinelConstants DEF OperatorResumes, SentinelTypes, LimitPauses
    <2> QED BY <1>3, <2>1, <2>2 DEF OperatorResumes, WaitsOnce, WorkerHolds, SettledStay
  <1> QED BY <1>1, <1>2, <1>3

-----------------------------------------------------------------------------
(* The worker                                                              *)

(* Where the worker has a mention, it is one of them and not settled.      *)
LEMMA WorkerMention ==
  ASSUME SentinelInv, worker.at # "get"
  PROVE  worker.mention \in Mentions /\ worker.mention \in heard \ settled
  BY DEF SentinelInv, SentinelTypes, Worker, WorkerHolds

LEMMA GetsKeep == ASSUME SentinelInv, WorkerGets PROVE SentinelInv'
  <1> USE DEF SentinelInv
  <1> DEFINE m == Head(waiting)
             l == Len(waiting')
  <1>1. /\ worker.at = "get" /\ waiting # <<>> /\ waiting \in Seq(Mentions)
        /\ worker' = WorkerAt("gate", m) /\ waiting' = Tail(waiting)
        /\ UNCHANGED <<streamEdits, heard, clientNow, runs, updaters, chat, completed, limited,
                       paused, pauses, unanswered, limitedSince, settled>>
    BY DEF WorkerGets, SentinelTypes
  <1>2. /\ waiting' \in Seq(Mentions) /\ l \in Nat /\ Len(waiting) = l + 1 /\ m = waiting[1]
        /\ \A i \in 1..l : waiting'[i] = waiting[i + 1]
    BY <1>1, HeadTailProperties, LenProperties
  <1> HIDE DEF m, l
  <1>3. /\ \A i \in 1..(l + 1) : waiting[i] \in heard \ settled
        /\ \A i, j \in 1..(l + 1) : waiting[i] = waiting[j] => i = j
    BY <1>2 DEF WaitsOnce
  <1>4. m \in heard \ settled /\ m \in Mentions /\ m # NoMention
    BY <1>2, <1>3, SentinelConstants DEF SentinelTypes
  <1>5. worker' \in Worker /\ worker'.at = "gate" /\ worker'.mention = m
    BY <1>1, <1>4 DEF WorkerAt, Worker
  <1>6. Len(waiting') <= MentionQueue
    BY <1>2, SentinelConstants DEF SentinelTypes, l
  <1>7. SentinelTypes'
    BY <1>1, <1>2, <1>5, <1>6 DEF SentinelTypes, Troubles
  <1>8. WaitsOnce'
    <2>1. ASSUME NEW i \in 1..l PROVE waiting'[i] \in heard \ settled /\ waiting'[i] # m
      <3>1. i + 1 \in 1..(l + 1) /\ 1 \in 1..(l + 1) /\ i + 1 # 1
        BY <1>2
      <3> QED BY <1>2, <1>3, <3>1
    <2>2. ASSUME NEW i \in 1..l, NEW j \in 1..l, waiting'[i] = waiting'[j] PROVE i = j
      <3>1. i + 1 \in 1..(l + 1) /\ j + 1 \in 1..(l + 1) /\ (i + 1 = j + 1 => i = j)
        BY <1>2
      <3> QED BY <1>2, <1>3, <2>2, <3>1
    <2> QED BY <1>1, <1>5, <2>1, <2>2 DEF WaitsOnce, l
  <1> QED BY <1>1, <1>4, <1>5, <1>7, <1>8 DEF WorkerHolds, SettledStay, LimitPauses

(* The steps in which the worker keeps its mention.                        *)
LEMMA HoldsOn ==
  ASSUME SentinelInv, SentinelTypes', worker.at # "get", worker'.at # "get",
         worker'.mention = worker.mention,
         UNCHANGED <<heard, waiting, limited, paused, limitedSince, settled>>,
         worker.at = "gate" => ~paused,
         \A n \in Mentions \ {worker.mention} : updaters'[n] = updaters[n],
         \A n \in Mentions : runs[n].finished => runs'[n].finished,
         worker'.at \in {"over", "sending", "editing"} => runs'[worker.mention].finished
  PROVE  SentinelInv'
  <1> USE DEF SentinelInv
  <1>1. worker.mention \in Mentions /\ worker.mention \in heard \ settled
    BY WorkerMention
  <1>2. WaitsOnce'
    BY DEF WaitsOnce
  <1>3. WorkerHolds'
    BY <1>1, SentinelConstants DEF WorkerHolds
  <1>4. SettledStay'
    BY <1>1 DEF SettledStay, SentinelTypes
  <1>5. LimitPauses'
    BY DEF LimitPauses
  <1> QED BY <1>2, <1>3, <1>4, <1>5

LEMMA RunKeeps ==
  ASSUME SentinelInv,
         RunBegins \/ Announces \/ TextArrives \/ ToolStarts \/ RunReturns \/ FinalIsPlaced
  PROVE  SentinelInv'
  <1> USE DEF SentinelInv
  <1> DEFINE m == worker.mention
  <1>0. worker.at # "get"
    BY DEF RunBegins, Announces, TextArrives, ToolStarts, RunReturns, FinalIsPlaced
  <1>1. m \in Mentions
    BY <1>0, WorkerMention
  <1>2. /\ runs \in [Mentions -> ReplyRuns] /\ worker \in Worker /\ clientNow \in Nat
        /\ updaters \in [Mentions -> Updater]
    BY DEF SentinelTypes
  <1>3. CASE RunBegins
    <2>1. /\ runs' \in [Mentions -> ReplyRuns]
          /\ \A n \in Mentions : runs'[n].finished = runs[n].finished
      <3> DEFINE r == [runs[m] EXCEPT !.client = clientNow]
      <3>1. r \in ReplyRuns /\ r.finished = runs[m].finished /\ runs' = [runs EXCEPT ![m] = r]
        BY <1>1, <1>2, <1>3 DEF RunBegins, ReplyRuns
      <3> HIDE DEF r
      <3> QED BY <1>1, <1>2, <3>1
    <2>2. worker' \in Worker /\ worker'.at \in {"announcing", "running"} /\ worker'.mention = m
      BY <1>2, <1>3 DEF RunBegins, Worker
    <2>3. SentinelTypes'
      BY <1>3, <2>1, <2>2 DEF RunBegins, SentinelTypes, Troubles
    <2> QED BY <1>0, <1>3, <2>1, <2>2, <2>3, HoldsOn DEF RunBegins
  <1>4. CASE Announces
    <2>1. /\ chat' \in [Mentions -> Seq(Forms)]
          /\ runs' \in [Mentions -> ReplyRuns]
          /\ \A n \in Mentions : runs'[n].finished = runs[n].finished
          /\ unanswered' \in Nat /\ clientNow + unanswered' + pauses <= MaxTroubles
      BY <1>1, <1>4, RequestTypes DEF Announces, Forms
    <2>2. worker' \in Worker /\ worker'.at = "running" /\ worker'.mention = m
      BY <1>2, <1>4 DEF Announces, Worker
    <2>3. /\ updaters' \in [Mentions -> Updater]
          /\ \A n \in Mentions \ {m} : updaters'[n] = updaters[n]
          /\ updaters'[m].at = "waits"
      BY <1>1, <1>2, <1>4 DEF Announces, UpdaterAt, Updater
    <2>4. SentinelTypes'
      BY <1>4, <2>1, <2>2, <2>3 DEF Announces, SentinelTypes, Troubles
    <2> QED BY <1>0, <1>4, <2>1, <2>2, <2>3, <2>4, HoldsOn DEF Announces
  <1>5. CASE TextArrives
    <2>1. /\ runs' \in [Mentions -> ReplyRuns]
          /\ \A n \in Mentions : runs'[n].finished = runs[n].finished
      <3> DEFINE r == [runs[m] EXCEPT !.text = TRUE]
      <3>1. r \in ReplyRuns /\ r.finished = runs[m].finished /\ runs' = [runs EXCEPT ![m] = r]
        BY <1>1, <1>2, <1>5 DEF TextArrives, ReplyRuns
      <3> HIDE DEF r
      <3> QED BY <1>1, <1>2, <3>1
    <2>2. SentinelTypes'
      BY <1>5, <2>1 DEF TextArrives, SentinelTypes, Troubles
    <2> QED BY <1>0, <1>5, <2>1, <2>2, HoldsOn DEF TextArrives
  <1>6. CASE ToolStarts
    <2>1. /\ chat' \in [Mentions -> Seq(Forms)]
          /\ UNCHANGED <<runs, unanswered>>
      BY <1>1, <1>6, RequestTypes DEF ToolStarts, Forms, EditsReply
    <2>2. SentinelTypes'
      BY <1>6, <2>1 DEF ToolStarts, SentinelTypes, Troubles
    <2> QED BY <1>0, <1>6, <2>1, <2>2, HoldsOn DEF ToolStarts
  <1>7. CASE RunReturns
    <2>1. /\ runs' \in [Mentions -> ReplyRuns] /\ runs'[m].finished
          /\ \A n \in Mentions : runs[n].finished => runs'[n].finished
      <3> DEFINE r == [runs[m] EXCEPT !.finished = TRUE]
      <3>1. r \in ReplyRuns /\ r.finished /\ runs' = [runs EXCEPT ![m] = r]
        BY <1>1, <1>2, <1>7 DEF RunReturns, ReplyRuns
      <3> HIDE DEF r
      <3> QED BY <1>1, <1>2, <3>1
    <2>2. worker' \in Worker /\ worker'.at = "over" /\ worker'.mention = m
      BY <1>2, <1>7 DEF RunReturns, Worker
    <2>3. SentinelTypes'
      BY <1>7, <2>1, <2>2 DEF RunReturns, SentinelTypes, Troubles
    <2> QED BY <1>0, <1>7, <2>1, <2>2, <2>3, HoldsOn DEF RunReturns
  <1>8. CASE FinalIsPlaced
    <2>1. worker' \in Worker /\ worker'.at \in {"sending", "editing"} /\ worker'.mention = m
      BY <1>2, <1>8 DEF FinalIsPlaced, Worker
    <2>2. runs[m].finished
      BY <1>8 DEF FinalIsPlaced, WorkerHolds
    <2>3. SentinelTypes'
      BY <1>8, <2>1 DEF FinalIsPlaced, SentinelTypes, Troubles
    <2> QED BY <1>0, <1>8, <2>1, <2>2, <2>3, HoldsOn DEF FinalIsPlaced
  <1> QED BY <1>3, <1>4, <1>5, <1>6, <1>7, <1>8

(* The worker is done with its mention, and may have settled it.           *)
LEMMA LetsGoOn ==
  ASSUME SentinelInv, SentinelTypes', worker.at # "get",
         worker' = WorkerAt("get", NoMention), UNCHANGED heard,
         waiting' = waiting \/ waiting' = <<>>,
         settled' \subseteq settled \cup {worker.mention},
         worker.mention \in settled' =>
            updaters'[worker.mention].at \in {"off", "waits"} /\ runs'[worker.mention].finished,
         UNCHANGED updaters,
         \A n \in Mentions : runs[n].finished => runs'[n].finished
  PROVE  WaitsOnce' /\ WorkerHolds' /\ SettledStay'
  <1> USE DEF SentinelInv
  <1>1. worker.mention \in Mentions /\ worker.mention \in heard \ settled
    BY WorkerMention
  <1>2. worker'.at = "get" /\ worker'.mention = NoMention
    BY DEF WorkerAt
  <1>3. WorkerHolds'
    BY <1>2 DEF WorkerHolds
  <1>4. SettledStay'
    BY <1>1 DEF SettledStay, SentinelTypes
  <1>5. WaitsOnce'
    <2>1. CASE waiting' = <<>>
      <3>1. Len(waiting') = 0
        BY <2>1, EmptySeq
      <3> QED BY <3>1 DEF WaitsOnce
    <2>2. CASE waiting' = waiting
      <3>1. \A i \in 1..Len(waiting) : waiting[i] \in heard \ settled
                                        /\ waiting[i] # worker.mention /\ waiting[i] \in Mentions
        BY ElementOfSeq DEF WaitsOnce, SentinelTypes
      <3>2. \A i \in 1..Len(waiting) : waiting[i] \in heard' \ settled'
                                        /\ waiting[i] # worker'.mention
        BY <1>2, <3>1, SentinelConstants
      <3> QED BY <2>2, <3>2 DEF WaitsOnce
    <2> QED BY <2>1, <2>2
  <1> QED BY <1>3, <1>4, <1>5

LEMMA DoneKeeps ==
  ASSUME SentinelInv, FinalIsPosted \/ RunIsLimited \/ RunRaises
  PROVE SentinelInv'
  <1> USE DEF SentinelInv
  <1> DEFINE m == worker.mention
  <1>0. worker.at # "get"
    BY DEF FinalIsPosted, RunIsLimited, RunRaises
  <1>1. m \in Mentions
    BY <1>0, WorkerMention
  <1>2. /\ runs \in [Mentions -> ReplyRuns] /\ worker \in Worker
        /\ limited \in Nat /\ limitedSince \in Nat
        /\ heard \in SUBSET Mentions /\ completed \in SUBSET Mentions
    BY DEF SentinelTypes
  <1>3. worker' = WorkerAt("get", NoMention)
    BY DEF FinalIsPosted, RunIsLimited, RunRaises
  <1>4. worker' \in Worker /\ worker'.at = "get"
    BY <1>3 DEF WorkerAt, Worker
  <1>5. CASE FinalIsPosted
    <2>1. /\ chat' \in [Mentions -> Seq(Forms)]
          /\ runs' \in [Mentions -> ReplyRuns]
          /\ \A n \in Mentions : runs'[n].finished = runs[n].finished
          /\ unanswered' \in Nat /\ clientNow + unanswered' + pauses <= MaxTroubles
      BY <1>1, <1>5, RequestTypes DEF FinalIsPosted, Forms
    <2>2. /\ completed' \in SUBSET Mentions /\ limited' = 0 /\ limitedSince' = 0
          /\ UNCHANGED <<streamEdits, heard, waiting, clientNow, updaters, paused, pauses>>
      BY <1>1, <1>2, <1>5 DEF FinalIsPosted
    <2>3. SentinelTypes'
      BY <1>4, <2>1, <2>2 DEF SentinelTypes, Troubles
    <2>4. settled' \subseteq settled \cup {m} /\ (settled' = settled \/ updaters[m].at \in {"off", "waits"})
      BY <1>5 DEF FinalIsPosted
    <2>5. m \in settled' => updaters'[m].at \in {"off", "waits"} /\ runs'[m].finished
      <3>1. m \notin settled /\ runs[m].finished
        BY <1>0, <1>5, WorkerMention DEF FinalIsPosted, WorkerHolds
      <3> QED BY <1>1, <2>1, <2>2, <2>4, <3>1
    <2>6. WaitsOnce' /\ WorkerHolds' /\ SettledStay'
      BY <1>0, <1>3, <2>1, <2>2, <2>3, <2>4, <2>5, LetsGoOn
    <2>7. LimitPauses'
      BY <2>2, SentinelConstants DEF LimitPauses
    <2> QED BY <2>3, <2>6, <2>7
  <1>6. CASE RunIsLimited
    <2>1. /\ runs' \in [Mentions -> ReplyRuns]
          /\ \A n \in Mentions : runs[n].finished => runs'[n].finished
      <3> DEFINE r == [runs[m] EXCEPT !.finished = TRUE]
      <3>1. r \in ReplyRuns /\ r.finished /\ runs' = [runs EXCEPT ![m] = r]
        BY <1>1, <1>2, <1>6 DEF RunIsLimited, ReplyRuns
      <3> HIDE DEF r
      <3> QED BY <1>1, <1>2, <3>1
    <2>2. /\ completed' \in SUBSET Mentions
          /\ limited' = limited + 1 /\ limitedSince' = limitedSince + 1
          /\ IF limited' >= MaxLimited THEN paused' = TRUE /\ waiting' = <<>>
             ELSE UNCHANGED <<paused, waiting>>
          /\ UNCHANGED <<streamEdits, heard, clientNow, updaters, chat, pauses, unanswered, settled>>
      BY <1>1, <1>2, <1>6 DEF RunIsLimited
    <2>3. paused' \in BOOLEAN
      <3>1. paused' = TRUE \/ paused' = paused
        BY <2>2
      <3> QED BY <3>1 DEF SentinelTypes
    <2>4. waiting' \in Seq(Mentions) /\ Len(waiting') <= MentionQueue
      <3>1. <<>> \in Seq(Mentions) /\ Len(<<>>) = 0
        BY EmptySeq
      <3>2. waiting' = <<>> \/ waiting' = waiting
        BY <2>2
      <3>3. waiting \in Seq(Mentions) /\ Len(waiting) <= MentionQueue
        BY DEF SentinelTypes
      <3>4. 0 <= MentionQueue
        BY SentinelConstants
      <3>5. CASE waiting' = <<>>
        BY <3>1, <3>4, <3>5
      <3>6. CASE waiting' = waiting
        BY <3>3, <3>6
      <3> QED BY <3>2, <3>5, <3>6
    <2>5. limited' \in Nat /\ limitedSince' \in Nat
      BY <1>2, <2>2
    <2>6. SentinelTypes'
      BY <1>4, <2>1, <2>2, <2>3, <2>4, <2>5 DEF SentinelTypes, Troubles
    <2>7. WaitsOnce' /\ WorkerHolds' /\ SettledStay'
      <3>1. m \notin settled'
        BY <1>0, <2>2, WorkerMention
      <3>2. waiting' = <<>> \/ waiting' = waiting
        BY <2>2
      <3> QED BY <1>0, <1>3, <2>1, <2>2, <2>6, <3>1, <3>2, LetsGoOn
    <2>8. LimitPauses'
      <3>1. limitedSince < MaxLimited /\ limitedSince <= limited
        <4>1. worker.at = "running"
          BY <1>6 DEF RunIsLimited
        <4>2. limitedSince # MaxLimited
          BY <4>1 DEF LimitPauses
        <4> QED BY <1>2, <4>2, SentinelConstants DEF LimitPauses
      <3>2. limitedSince' <= limited' /\ limitedSince' <= MaxLimited
        BY <1>2, <2>2, <3>1, SentinelConstants
      <3>3. limitedSince' = MaxLimited => paused'
        BY <1>2, <2>2, <3>1, <3>2, SentinelConstants
      <3> QED BY <1>4, <3>2, <3>3 DEF LimitPauses
    <2> QED BY <2>6, <2>7, <2>8
  <1>7. CASE RunRaises
    <2>1. UNCHANGED <<streamEdits, heard, waiting, clientNow, runs, updaters, chat, completed,
                      limited, paused, pauses, unanswered, limitedSince, settled>>
      BY <1>7 DEF RunRaises
    <2>2. SentinelTypes'
      BY <1>4, <2>1 DEF SentinelTypes, Troubles
    <2>3. m \notin settled'
      BY <1>0, <2>1, WorkerMention
    <2>4. WaitsOnce' /\ WorkerHolds' /\ SettledStay'
      BY <1>0, <1>3, <2>1, <2>2, <2>3, LetsGoOn
    <2>5. LimitPauses'
      BY <1>4, <2>1 DEF LimitPauses
    <2> QED BY <2>2, <2>4, <2>5
  <1> QED BY <1>5, <1>6, <1>7

-----------------------------------------------------------------------------
(* The updaters                                                            *)

LEMMA UpdatersKeep ==
  ASSUME SentinelInv, NEW m \in Mentions, UpdaterLooks(m) \/ UpdaterPosts(m) \/ UpdaterEnds(m)
  PROVE  SentinelInv' /\ \A n \in settled : chat'[n] = chat[n]
  <1> USE DEF SentinelInv
  <1>1. /\ updaters \in [Mentions -> Updater] /\ runs \in [Mentions -> ReplyRuns]
        /\ settled \subseteq heard /\ heard \in SUBSET Mentions
    BY DEF SentinelTypes, SettledStay
  <1>2. ASSUME UNCHANGED <<streamEdits, heard, waiting, clientNow, worker, completed, limited,
                           paused, pauses, limitedSince, settled>>,
               chat' \in [Mentions -> Seq(Forms)], runs' \in [Mentions -> ReplyRuns],
               \A n \in Mentions : runs'[n].finished = runs[n].finished,
               unanswered' \in Nat, clientNow + unanswered' + pauses <= MaxTroubles,
               NEW u \in Updater, updaters' = [updaters EXCEPT ![m] = u],
               u.at \in {"edits", "creates"} => u.content # Nothing /\ m \notin settled
        PROVE  SentinelInv'
    <2>1. /\ updaters' \in [Mentions -> Updater] /\ updaters'[m] = u
          /\ \A n \in Mentions \ {m} : updaters'[n] = updaters[n]
      BY <1>1, <1>2
    <2>2. SentinelTypes'
      BY <1>2, <2>1 DEF SentinelTypes, Troubles
    <2>3. WorkerHolds'
      <3>1. worker.at # "get" => worker.mention \in Mentions
        BY WorkerMention
      <3> QED BY <1>2, <3>1 DEF WorkerHolds
    <2>4. SettledStay'
      <3>1. ASSUME NEW n \in settled PROVE updaters'[n].at \in {"off", "waits"} /\ runs'[n].finished
        <4>1. n \in Mentions /\ updaters[n].at \in {"off", "waits"} /\ runs[n].finished
          BY <1>1 DEF SettledStay
        <4>2. CASE n = m
          BY <1>2, <2>1, <4>1, <4>2 DEF Updater
        <4>3. CASE n # m
          BY <1>2, <2>1, <4>1, <4>3
        <4> QED BY <4>2, <4>3
      <3> QED BY <1>1, <1>2, <3>1 DEF SettledStay
    <2> QED BY <1>2, <2>2, <2>3, <2>4 DEF WaitsOnce, LimitPauses
  <1>3. CASE UpdaterLooks(m)
    <2>1. PICK u \in Updater : updaters' = [updaters EXCEPT ![m] = u] /\ u.content # Nothing
      <3>1. /\ UpdaterAt("creates", "partial") \in Updater /\ UpdaterAt("edits", "partial") \in Updater
            /\ UpdaterAt("edits", "working") \in Updater
        BY DEF UpdaterAt, Updater
      <3>2. \A place \in {"creates", "edits"}, content \in {"partial", "working"} :
              UpdaterAt(place, content).content # Nothing
        BY DEF UpdaterAt, Nothing
      <3>3. \E place \in {"creates", "edits"} :
              \/ updaters' = [updaters EXCEPT ![m] = UpdaterAt(place, "partial")]
              \/ place = "edits" /\ updaters' = [updaters EXCEPT ![m] = UpdaterAt(place, "working")]
        BY <1>3 DEF UpdaterLooks
      <3> QED BY <3>1, <3>2, <3>3
    <2>2. m \notin settled
      BY <1>3 DEF UpdaterLooks, SettledStay
    <2>3. UNCHANGED <<streamEdits, heard, waiting, clientNow, worker, runs, chat, completed, limited,
                      paused, pauses, unanswered, limitedSince, settled>>
      BY <1>3 DEF UpdaterLooks
    <2>4. chat' \in [Mentions -> Seq(Forms)] /\ unanswered' \in Nat
          /\ clientNow + unanswered' + pauses <= MaxTroubles
      BY <2>3 DEF SentinelTypes, Troubles
    <2> QED BY <1>1, <1>2, <2>1, <2>2, <2>3, <2>4
  <1>4. CASE UpdaterPosts(m)
    <2> DEFINE u == UpdaterAt("waits", Nothing)
    <2>1. u \in Updater /\ u.at = "waits"
      BY DEF UpdaterAt, Updater
    <2>2. updaters[m].at \in {"creates", "edits"} /\ updaters' = [updaters EXCEPT ![m] = u]
          /\ UNCHANGED <<streamEdits, heard, waiting, clientNow, worker, completed, limited, paused,
                         pauses, limitedSince, settled>>
      BY <1>4 DEF UpdaterPosts
    <2>3. updaters[m].content \in Forms
      BY <1>1, <2>2 DEF SentinelTypes, Updater, Forms
    <2>4. /\ chat' \in [Mentions -> Seq(Forms)]
          /\ \A n \in Mentions \ {m} : chat'[n] = chat[n]
          /\ runs' \in [Mentions -> ReplyRuns]
          /\ \A n \in Mentions : runs'[n].finished = runs[n].finished
          /\ unanswered' \in Nat /\ clientNow + unanswered' + pauses <= MaxTroubles
      BY <1>4, <2>3, RequestTypes DEF UpdaterPosts
    <2>5. m \notin settled
      BY <2>2 DEF SettledStay
    <2> HIDE DEF u
    <2>6. SentinelInv'
      BY <1>2, <2>1, <2>2, <2>4
    <2> QED BY <1>1, <2>4, <2>5, <2>6
  <1>5. CASE UpdaterEnds(m)
    <2> DEFINE u == UpdaterAt("off", Nothing)
    <2>1. u \in Updater /\ u.at = "off"
      BY DEF UpdaterAt, Updater
    <2>2. updaters' = [updaters EXCEPT ![m] = u]
      BY <1>5 DEF UpdaterEnds
    <2>3. UNCHANGED <<streamEdits, heard, waiting, clientNow, worker, runs, chat, completed, limited,
                      paused, pauses, unanswered, limitedSince, settled>>
      BY <1>5 DEF UpdaterEnds
    <2>4. chat' \in [Mentions -> Seq(Forms)] /\ unanswered' \in Nat
          /\ clientNow + unanswered' + pauses <= MaxTroubles
      BY <2>3 DEF SentinelTypes, Troubles
    <2> HIDE DEF u
    <2> QED BY <1>1, <1>2, <2>1, <2>2, <2>3, <2>4
  <1> QED BY <1>3, <1>4, <1>5

-----------------------------------------------------------------------------

LEMMA SentinelStepInv == SentinelInv /\ [SentinelNext]_sentinel => SentinelInv'
  <1> SUFFICES ASSUME SentinelInv, [SentinelNext]_sentinel PROVE SentinelInv'
    OBVIOUS
  <1>1. CASE UNCHANGED sentinel
    BY <1>1 DEF sentinel, SentinelInv, SentinelTypes, WaitsOnce, WorkerHolds, SettledStay,
                LimitPauses, Troubles
  <1>2. ASSUME NEW m \in Mentions, Hears(m) PROVE SentinelInv'
    BY <1>2, HearsMentions
  <1>3. ASSUME NEW m \in Mentions, UpdaterLooks(m) \/ UpdaterPosts(m) \/ UpdaterEnds(m)
        PROVE  SentinelInv'
    BY <1>3, UpdatersKeep
  <1>4. CASE Reconnects \/ OperatorPauses \/ OperatorResumes
    BY <1>4, OutsideKeeps
  <1>5. CASE WorkerGets
    BY <1>5, GetsKeep
  <1>6. CASE RunBegins \/ Announces \/ TextArrives \/ ToolStarts \/ RunReturns \/ FinalIsPlaced
    BY <1>6, RunKeeps
  <1>7. CASE FinalIsPosted \/ RunIsLimited \/ RunRaises
    BY <1>7, DoneKeeps
  <1> QED BY <1>1, <1>2, <1>3, <1>4, <1>5, <1>6, <1>7 DEF SentinelNext, MentionWorker

LEMMA SentinelInvHolds == SentinelSpec => []SentinelInv
  BY SentinelInitInv, SentinelStepInv, PTL DEF SentinelSpec

LEMMA SettledIsShown ==
  SentinelInv /\ [SentinelNext]_sentinel => \A m \in settled : chat'[m] = chat[m]
  <1> SUFFICES ASSUME SentinelInv, [SentinelNext]_sentinel, NEW m \in settled
               PROVE  chat'[m] = chat[m]
    OBVIOUS
  <1>1. m \in Mentions
    BY DEF SentinelInv, SettledStay, SentinelTypes
  <1>2. CASE UNCHANGED chat
    BY <1>2
  <1>3. ASSUME NEW n \in Mentions, UpdaterPosts(n) PROVE chat'[m] = chat[m]
    BY <1>3, UpdatersKeep
  <1>4. ASSUME worker.at # "get", NEW content \in Forms,
               SendsReply(worker.mention, content) \/ EditsReply(worker.mention, content)
        PROVE  chat'[m] = chat[m]
    <2>1. worker.mention \in Mentions \ {m}
      BY <1>4, WorkerMention
    <2> QED BY <1>1, <1>4, <2>1, RequestTypes
  <1>5. CASE Announces \/ ToolStarts
    <2>1. worker.at # "get" /\ "working" \in Forms
      BY <1>5 DEF Announces, ToolStarts, Forms
    <2>2. SendsReply(worker.mention, "working") \/ EditsReply(worker.mention, "working")
      BY <1>5 DEF Announces, ToolStarts
    <2> QED BY <1>4, <2>1, <2>2
  <1>6. CASE FinalIsPosted
    <2>1. worker.at # "get" /\ "final" \in Forms
      BY <1>6 DEF FinalIsPosted, Forms
    <2>2. SendsReply(worker.mention, "final") \/ EditsReply(worker.mention, "final")
      BY <1>6 DEF FinalIsPosted
    <2> QED BY <1>4, <2>1, <2>2
  <1>7. UNCHANGED chat \/ (\E n \in Mentions : UpdaterPosts(n))
        \/ Announces \/ ToolStarts \/ FinalIsPosted
    BY DEF SentinelNext, MentionWorker, sentinel, Hears, UpdaterLooks, UpdaterEnds, Reconnects,
           WorkerGets, RunBegins, TextArrives, RunReturns, FinalIsPlaced, RunIsLimited, RunRaises,
           OperatorPauses, OperatorResumes
  <1> QED BY <1>2, <1>3, <1>5, <1>6, <1>7

(* For every number of mentions, length of the queue and limit, and        *)
(* whatever threads, reconnects and lost confirmations there are: a final  *)
(* text that arrived while no update was under way stays as it is.         *)
THEOREM SettledTextStands == SentinelSpec => FinalStands
  <1>1. SentinelInv /\ [SentinelNext]_sentinel
          => [\A m \in settled : chat'[m] = chat[m]]_sentinel
    BY SettledIsShown
  <1> QED BY <1>1, SentinelInvHolds, PTL DEF SentinelSpec, FinalStands

LEMMA SentinelTyped == SentinelInv => SentinelTypeOK
  <1> SUFFICES ASSUME SentinelInv PROVE SentinelTypeOK
    OBVIOUS
  <1>1. clientNow \in 0..MaxTroubles
    BY SentinelConstants DEF SentinelInv, SentinelTypes, Troubles
  <1>2. limitedSince \in 0..MaxLimited
    BY SentinelConstants DEF SentinelInv, SentinelTypes, LimitPauses
  <1>3. settled \subseteq Mentions
    BY DEF SentinelInv, SentinelTypes, SettledStay
  <1> QED BY <1>1, <1>2, <1>3 DEF SentinelInv, SentinelTypes, SentinelTypeOK, Worker, ReplyRuns,
                                  Updater, Forms

(* Every variable of the sentinel keeps its type; its queue stays within   *)
(* its size, and no more runs are limited than pause the agent.            *)
THEOREM SentinelTypeCorrect == SentinelSpec => []SentinelTypeOK
  BY SentinelTyped, SentinelInvHolds, PTL

-----------------------------------------------------------------------------
(* Handoff                                                                 *)

Stages == {"begin", "send", "look", "check", "listen", "again", "last", "found", "none", "end"}
Waits == [at : Stages, for : {"probe", "task", "nudge", "round"}, sent : Nat, since : Nat,
          round : Nat, watch : BOOLEAN]
ReplyRecord == [number : Nat, to : Nat, names : Names, text : Texts]
Event == [id : Replies, reply : ReplyRecord]
Taken == [reply : Replies, text : Texts]

(* A wait for the answers to a message looks at all that was posted since. *)
Waiting == {"look", "check", "listen", "again", "last", "found", "none"}

HandoffInv ==
    /\ options \in [probe : BOOLEAN, nudge : BOOLEAN, loop : BOOLEAN, requires : BOOLEAN]
    /\ wait \in Waits /\ wait.round <= MaxRounds /\ wait.round >= 1
    /\ wait.sent <= posted /\ wait.since <= posted
    /\ wait.at \in Waiting => wait.since <= wait.sent
    /\ wait.at = "send" /\ wait.for = "nudge" => wait.since <= wait.sent
    /\ wait.at = "begin" => wait.for # "nudge"
    /\ wait.at = "found" => taken # <<>>
    /\ expired \in BOOLEAN /\ blind \in BOOLEAN
    /\ taken \in Seq(Taken)
    /\ events \in Seq(Event)
    /\ outcome \in {"open", "queued", "failed", "timeout", "loop_timeout", "replied"}
    /\ posted \in Nat
    /\ replies \in [Replies -> ReplyRecord]
    /\ \A m \in Replies : replies[m].number <= posted /\ replies[m].to <= posted

LEMMA HandoffInitInv == HandoffInit => HandoffInv
  <1> SUFFICES ASSUME HandoffInit PROVE HandoffInv
    OBVIOUS
  <1>1. <<>> \in Seq(Taken) /\ <<>> \in Seq(Event)
    BY EmptySeq
  <1>2. wait \in Waits /\ wait.at = "begin" /\ wait.sent = 0 /\ wait.since = 0 /\ wait.round = 1
        /\ wait.for # "nudge"
    BY DEF HandoffInit, Waits, Stages
  <1>3. replies \in [Replies -> ReplyRecord]
    BY DEF HandoffInit, Unposted, ReplyRecord, Names, Texts
  <1>4. \A m \in Replies : replies[m].number = 0 /\ replies[m].to = 0
    BY DEF HandoffInit, Unposted
  <1>5. MaxRounds \in Nat \ {0}
    BY HandoffAssumption DEF HandoffAssumption
  <1>6. posted = 0 /\ expired \in BOOLEAN /\ blind \in BOOLEAN
    BY DEF HandoffInit
  <1> QED BY <1>1, <1>2, <1>3, <1>4, <1>5, <1>6 DEF HandoffInit, HandoffInv, Waiting

(* A step of the command that only goes from place to place.               *)
LEMMA GoesToPlace ==
  ASSUME HandoffInv, NEW place \in Stages, MovesTo(place)
  PROVE  /\ wait' \in Waits /\ wait'.at = place
         /\ wait'.sent = wait.sent /\ wait'.since = wait.since
         /\ wait'.round = wait.round /\ wait'.for = wait.for
  BY DEF HandoffInv, MovesTo, Waits

LEMMA TakesTypes ==
  ASSUME HandoffInv, NEW m \in Replies, NEW reply \in ReplyRecord, Takes(m, reply)
  PROVE  taken' \in Seq(Taken) /\ taken' # <<>> /\ MovesTo("found")
  <1>1. [reply |-> m, text |-> reply.text] \in Taken
    BY DEF Taken, ReplyRecord
  <1>2. taken \in Seq(Taken)
    BY DEF HandoffInv
  <1> QED BY <1>1, <1>2, AppendProperties DEF Takes

LEMMA CommandKeeps ==
  ASSUME HandoffInv,
         \/ Begins \/ Sends \/ SendIsRefused \/ AfterProbe \/ NoAnswer \/ GoesOn
  PROVE  HandoffInv'
  <1>1. CASE Begins
    <2> DEFINE s == IF posted > ClockBehind THEN posted - ClockBehind ELSE 0
    <2>1. s \in Nat /\ s <= posted
      BY HandoffAssumption DEF HandoffInv, HandoffAssumption
    <2> HIDE DEF s
    <2>2. wait' = [wait EXCEPT !.at = "send", !.since = s] /\ wait.at = "begin"
      BY <1>1 DEF Begins, s
    <2>3. wait' \in Waits /\ wait'.at = "send" /\ wait'.since = s /\ wait'.sent = wait.sent
          /\ wait'.round = wait.round /\ wait'.for = wait.for
      BY <2>1, <2>2 DEF HandoffInv, Waits, Stages
    <2> QED BY <1>1, <2>1, <2>2, <2>3 DEF Begins, HandoffInv, Waiting
  <1>2. CASE Sends
    <2>0. /\ posted' \in Nat /\ wait.sent <= posted' /\ wait.since <= posted'
          /\ \A m \in Replies : replies[m].number <= posted' /\ replies[m].to <= posted'
      <3>1. posted' = posted + 1 /\ posted \in Nat /\ wait.sent \in Nat /\ wait.since \in Nat
        BY <1>2 DEF Sends, HandoffInv, Waits
      <3>2. \A m \in Replies : replies[m].number \in Nat /\ replies[m].to \in Nat
        BY DEF HandoffInv, ReplyRecord
      <3> QED BY <3>1, <3>2 DEF HandoffInv
    <2>1. CASE Ends("queued") /\ posted' = posted + 1
      <3>1. MovesTo("end")
        BY <2>1 DEF Ends
      <3>2. wait' \in Waits /\ wait'.at = "end" /\ wait'.sent = wait.sent
            /\ wait'.since = wait.since /\ wait'.round = wait.round
        BY <3>1, GoesToPlace DEF Stages
      <3> QED BY <1>2, <2>0, <2>1, <3>2 DEF Sends, Ends, HandoffInv, Waiting
    <2>2. CASE wait' = [wait EXCEPT !.at = "look",
                                    !.sent = IF wait.for = "nudge" THEN @ ELSE posted + 1]
               /\ UNCHANGED outcome
      <3> DEFINE s == IF wait.for = "nudge" THEN wait.sent ELSE posted + 1
      <3>1. s \in Nat /\ s <= posted + 1 /\ wait.since <= s
        BY <1>2 DEF HandoffInv, Waits, Sends
      <3> HIDE DEF s
      <3>2. wait' = [wait EXCEPT !.at = "look", !.sent = s]
        BY <2>2 DEF s
      <3>3. wait' \in Waits /\ wait'.at = "look" /\ wait'.sent = s /\ wait'.since = wait.since
            /\ wait'.round = wait.round
        BY <3>1, <3>2 DEF HandoffInv, Waits, Stages
      <3>4. s <= posted'
        BY <1>2, <3>1 DEF Sends
      <3> QED BY <1>2, <2>0, <2>2, <3>1, <3>3, <3>4 DEF Sends, HandoffInv
    <2> QED BY <1>2, <2>1, <2>2 DEF Sends
  <1>3. CASE SendIsRefused
    <2>1. MovesTo("end")
      BY <1>3 DEF SendIsRefused, Ends
    <2>2. wait' \in Waits /\ wait'.at = "end" /\ wait'.sent = wait.sent
          /\ wait'.since = wait.since /\ wait'.round = wait.round
      BY <2>1, GoesToPlace DEF Stages
    <2> QED BY <1>3, <2>2 DEF SendIsRefused, Ends, HandoffInv, Waiting
  <1>4. CASE AfterProbe
    <2>1. wait' \in Waits /\ wait'.at = "begin" /\ wait'.for = "task" /\ wait'.sent = wait.sent
          /\ wait'.since = wait.since /\ wait'.round = wait.round
      BY <1>4 DEF AfterProbe, HandoffInv, Waits, Stages
    <2> QED BY <1>4, <2>1 DEF AfterProbe, HandoffInv, Waiting
  <1>5. CASE NoAnswer
    <2>1. CASE wait' = [wait EXCEPT !.at = "send", !.for = "nudge"] /\ UNCHANGED outcome
      <3>1. wait' \in Waits /\ wait'.at = "send" /\ wait'.sent = wait.sent
            /\ wait'.since = wait.since /\ wait'.round = wait.round
        BY <2>1 DEF HandoffInv, Waits, Stages
      <3>2. wait.since <= wait.sent
        BY <1>5 DEF NoAnswer, HandoffInv, Waiting
      <3> QED BY <1>5, <2>1, <3>1, <3>2 DEF NoAnswer, HandoffInv, Waiting
    <2>2. CASE Ends(IF wait.for = "round" THEN "loop_timeout" ELSE "timeout")
      <3>1. MovesTo("end")
        BY <2>2 DEF Ends
      <3>2. wait' \in Waits /\ wait'.at = "end" /\ wait'.sent = wait.sent
            /\ wait'.since = wait.since /\ wait'.round = wait.round
        BY <3>1, GoesToPlace DEF Stages
      <3> QED BY <1>5, <2>2, <3>2 DEF NoAnswer, Ends, HandoffInv, Waiting
    <2> QED BY <1>5, <2>1, <2>2 DEF NoAnswer
  <1>6. CASE GoesOn
    <2>1. CASE /\ wait.round < MaxRounds /\ UNCHANGED outcome
               /\ wait' = [wait EXCEPT !.at = "begin", !.for = "round", !.round = @ + 1]
      <3> DEFINE r == wait.round + 1
      <3>1. r \in Nat /\ r >= 1 /\ r <= MaxRounds
        BY <2>1, HandoffAssumption DEF HandoffInv, Waits, HandoffAssumption
      <3> HIDE DEF r
      <3>2. wait' = [wait EXCEPT !.at = "begin", !.for = "round", !.round = r]
        BY <2>1 DEF r
      <3>3. wait' \in Waits /\ wait'.at = "begin" /\ wait'.for = "round" /\ wait'.sent = wait.sent
            /\ wait'.since = wait.since /\ wait'.round = r
        BY <3>1, <3>2 DEF HandoffInv, Waits, Stages
      <3> QED BY <1>6, <2>1, <3>1, <3>3 DEF GoesOn, HandoffInv, Waiting
    <2>2. CASE Ends("replied")
      <3>1. MovesTo("end")
        BY <2>2 DEF Ends
      <3>2. wait' \in Waits /\ wait'.at = "end" /\ wait'.sent = wait.sent
            /\ wait'.since = wait.since /\ wait'.round = wait.round
        BY <3>1, GoesToPlace DEF Stages
      <3> QED BY <1>6, <2>2, <3>2 DEF GoesOn, Ends, HandoffInv, Waiting
    <2> QED BY <1>6, <2>1, <2>2 DEF GoesOn
  <1> QED BY <1>1, <1>2, <1>3, <1>4, <1>5, <1>6

LEMMA LooksKeeps == ASSUME HandoffInv, Looks PROVE HandoffInv'
  <1>1. blind' \in BOOLEAN
    BY DEF Looks
  <1>2. expired' \in BOOLEAN
    BY DEF Looks
  <1>3. UNCHANGED <<options, events, outcome, posted, replies>>
    BY DEF Looks
  <1>4. wait.at \in Waiting /\ wait.since <= wait.sent
    BY DEF Looks, HandoffInv, Waiting
  <1>5. CASE MovesTo(AfterLook) /\ UNCHANGED taken
    <2>1. AfterLook \in Stages /\ AfterLook \in {"none", "check"}
      BY DEF AfterLook, Stages
    <2>2. wait' \in Waits /\ wait'.at \in {"none", "check"} /\ wait'.sent = wait.sent
          /\ wait'.since = wait.since /\ wait'.round = wait.round
      BY <1>5, <2>1, GoesToPlace
    <2> QED BY <1>1, <1>2, <1>3, <1>4, <1>5, <2>2 DEF HandoffInv
  <1>6. ASSUME NEW m \in Replies, Takes(m, replies[m]) PROVE HandoffInv'
    <2>1. replies[m] \in ReplyRecord
      BY DEF HandoffInv
    <2>2. taken' \in Seq(Taken) /\ taken' # <<>> /\ MovesTo("found")
      BY <1>6, <2>1, TakesTypes
    <2>3. wait' \in Waits /\ wait'.at = "found" /\ wait'.sent = wait.sent
          /\ wait'.since = wait.since /\ wait'.round = wait.round
      BY <2>2, GoesToPlace DEF Stages
    <2> QED BY <1>1, <1>2, <1>3, <1>4, <2>2, <2>3 DEF HandoffInv
  <1>7. PICK page \in Listed :
           LET found == {m \in page : Matches(replies[m])}
           IN  IF found = {} THEN MovesTo(AfterLook) /\ UNCHANGED taken
               ELSE \E m \in found : Takes(m, replies[m])
    BY DEF Looks
  <1>8. page \subseteq Replies
    BY DEF Listed, Posted
  <1> QED BY <1>5, <1>6, <1>7, <1>8

LEMMA StreamKeeps ==
  ASSUME HandoffInv, Dials \/ GivesUpWaiting \/ ReadsEvent \/ StreamStops \/ DeadlinePasses
  PROVE  HandoffInv'
  <1>1. <<>> \in Seq(Event)
    BY EmptySeq
  <1>2. CASE Dials \/ StreamStops
    <2>1. PICK place \in {"listen", "again", "last", "check"} : MovesTo(place)
      BY <1>2 DEF Dials, StreamStops
    <2>2. wait' \in Waits /\ wait'.at = place /\ wait'.sent = wait.sent
          /\ wait'.since = wait.since /\ wait'.round = wait.round
      BY <2>1, GoesToPlace DEF Stages
    <2>3. wait.since <= wait.sent
      BY <1>2 DEF Dials, StreamStops, HandoffInv, Waiting
    <2>4. events' = <<>> /\ UNCHANGED <<options, expired, blind, taken, outcome, posted, replies>>
      BY <1>2 DEF Dials, StreamStops
    <2> QED BY <1>1, <2>2, <2>3, <2>4 DEF HandoffInv
  <1>3. CASE GivesUpWaiting
    <2>1. wait' \in Waits /\ wait'.at = "last" /\ wait'.sent = wait.sent
          /\ wait'.since = wait.since /\ wait'.round = wait.round
      BY <1>3, GoesToPlace DEF Stages, GivesUpWaiting
    <2>2. wait.since <= wait.sent
      BY <1>3 DEF GivesUpWaiting, HandoffInv, Waiting
    <2> QED BY <1>3, <2>1, <2>2 DEF HandoffInv, GivesUpWaiting
  <1>4. CASE ReadsEvent
    <2> DEFINE event == Head(events)
    <2>1. event \in Event /\ events' \in Seq(Event)
      BY <1>4, HeadTailProperties DEF ReadsEvent, HandoffInv
    <2>2. wait.since <= wait.sent
      BY <1>4 DEF ReadsEvent, HandoffInv, Waiting
    <2>3. UNCHANGED <<options, expired, blind, outcome, posted, replies>>
      BY <1>4 DEF ReadsEvent
    <2>4. CASE MovesTo("check") /\ UNCHANGED taken
      <3>1. wait' \in Waits /\ wait'.at = "check" /\ wait'.sent = wait.sent
            /\ wait'.since = wait.since /\ wait'.round = wait.round
        BY <2>4, GoesToPlace DEF Stages
      <3> QED BY <2>1, <2>2, <2>3, <2>4, <3>1 DEF HandoffInv
    <2>5. CASE Takes(event.id, event.reply)
      <3>1. event.id \in Replies /\ event.reply \in ReplyRecord
        BY <2>1 DEF Event
      <3>2. taken' \in Seq(Taken) /\ taken' # <<>> /\ MovesTo("found")
        BY <2>5, <3>1, TakesTypes
      <3>3. wait' \in Waits /\ wait'.at = "found" /\ wait'.sent = wait.sent
            /\ wait'.since = wait.since /\ wait'.round = wait.round
        BY <3>2, GoesToPlace DEF Stages
      <3> QED BY <2>1, <2>2, <2>3, <3>2, <3>3 DEF HandoffInv
    <2>6. CASE UNCHANGED <<wait, taken>>
      BY <2>1, <2>3, <2>6 DEF HandoffInv
    <2> QED BY <1>4, <2>4, <2>5, <2>6 DEF ReadsEvent
  <1>5. CASE DeadlinePasses
    <2>1. expired' \in BOOLEAN
      BY <1>5 DEF DeadlinePasses
    <2> QED BY <1>5, <2>1 DEF DeadlinePasses, HandoffInv
  <1> QED BY <1>2, <1>3, <1>4, <1>5

LEMMA AgentKeeps ==
  ASSUME HandoffInv,
         \/ \E m \in Replies, names \in Names, text \in Texts, to \in {0, wait.sent} :
               AgentPosts(m, [number |-> posted + 1, to |-> to, names |-> names, text |-> text])
         \/ \E m \in Replies, text \in {"status", "done"} : AgentEdits(m, text)
  PROVE  HandoffInv'
  <1>1. ASSUME NEW m \in Replies, NEW names \in Names, NEW text \in Texts,
               NEW to \in {0, wait.sent},
               AgentPosts(m, [number |-> posted + 1, to |-> to, names |-> names, text |-> text])
        PROVE  HandoffInv'
    <2> DEFINE r == [number |-> posted + 1, to |-> to, names |-> names, text |-> text]
    <2>1. r \in ReplyRecord /\ r.number = posted + 1 /\ r.to <= posted + 1
      BY DEF HandoffInv, Waits, ReplyRecord
    <2> HIDE DEF r
    <2>2. /\ posted' = posted + 1 /\ replies' = [replies EXCEPT ![m] = r]
          /\ events' = events \/ events' = Append(events, [id |-> m, reply |-> r])
          /\ UNCHANGED <<options, wait, expired, blind, taken, outcome>>
      BY <1>1 DEF AgentPosts, r
    <2>3. events' \in Seq(Event)
      <3>1. [id |-> m, reply |-> r] \in Event
        BY <2>1 DEF Event
      <3>2. events \in Seq(Event)
        BY DEF HandoffInv
      <3> QED BY <2>2, <3>1, <3>2, AppendProperties
    <2>4. replies' \in [Replies -> ReplyRecord]
      BY <2>1, <2>2 DEF HandoffInv
    <2>5. \A n \in Replies : replies'[n].number <= posted' /\ replies'[n].to <= posted'
      BY <2>1, <2>2 DEF HandoffInv, ReplyRecord
    <2>6. posted' \in Nat /\ wait.sent <= posted' /\ wait.since <= posted'
      BY <2>2 DEF HandoffInv, Waits
    <2> QED BY <2>2, <2>3, <2>4, <2>5, <2>6 DEF HandoffInv
  <1>2. ASSUME NEW m \in Replies, NEW text \in {"status", "done"}, AgentEdits(m, text)
        PROVE  HandoffInv'
    <2> DEFINE r == [replies[m] EXCEPT !.text = text]
    <2>1. r \in ReplyRecord /\ r.number = replies[m].number /\ r.to = replies[m].to
      BY DEF HandoffInv, ReplyRecord, Texts
    <2> HIDE DEF r
    <2>2. replies' = [replies EXCEPT ![m] = r]
      BY <1>2 DEF AgentEdits, r
    <2>3. replies' \in [Replies -> ReplyRecord]
      BY <2>1, <2>2 DEF HandoffInv
    <2>4. \A n \in Replies : replies'[n].number = replies[n].number /\ replies'[n].to = replies[n].to
      BY <2>1, <2>2 DEF HandoffInv
    <2> QED BY <1>2, <2>3, <2>4 DEF AgentEdits, HandoffInv
  <1> QED BY <1>1, <1>2

LEMMA HandoffStepInv == HandoffInv /\ [HandoffNext]_handoff => HandoffInv'
  <1> SUFFICES ASSUME HandoffInv, [HandoffNext]_handoff PROVE HandoffInv'
    OBVIOUS
  <1>1. CASE UNCHANGED handoff
    BY <1>1 DEF handoff, HandoffInv
  <1>2. CASE Begins \/ Sends \/ SendIsRefused \/ AfterProbe \/ NoAnswer \/ GoesOn
    BY <1>2, CommandKeeps
  <1>3. CASE Looks
    BY <1>3, LooksKeeps
  <1>4. CASE Dials \/ GivesUpWaiting \/ ReadsEvent \/ StreamStops \/ DeadlinePasses
    BY <1>4, StreamKeeps
  <1>5. CASE \/ \E m \in Replies, names \in Names, text \in Texts, to \in {0, wait.sent} :
                AgentPosts(m, [number |-> posted + 1, to |-> to, names |-> names, text |-> text])
             \/ \E m \in Replies, text \in {"status", "done"} : AgentEdits(m, text)
    BY <1>5, AgentKeeps
  <1> QED BY <1>1, <1>2, <1>3, <1>4, <1>5 DEF HandoffNext

LEMMA HandoffInvHolds == HandoffSpec => []HandoffInv
  BY HandoffInitInv, HandoffStepInv, PTL DEF HandoffSpec

(* A wait ends without an answer only after a last look at the listings,   *)
(* and a look that was not hindered matches every answer in the thread.    *)
LEMMA LooksFindAnswers ==
  HandoffInv /\ [HandoffNext]_handoff
    => (wait.at # "none" /\ wait'.at = "none" /\ ~blind' => ~\E m \in Replies : Answer(m))
  <1> SUFFICES ASSUME HandoffInv, [HandoffNext]_handoff,
                      wait.at # "none", wait'.at = "none", ~blind',
                      NEW m \in Replies, Answer(m)
               PROVE  FALSE
    OBVIOUS
  <1>1. Looks
    <2>1. ~ UNCHANGED wait
      OBVIOUS
    <2>2. ~ (Begins \/ Sends \/ SendIsRefused \/ AfterProbe \/ NoAnswer \/ GoesOn)
      BY DEF Begins, Sends, SendIsRefused, AfterProbe, NoAnswer, GoesOn, Ends, MovesTo,
             HandoffInv, Waits
    <2>3. ~ (Dials \/ GivesUpWaiting \/ ReadsEvent \/ StreamStops \/ DeadlinePasses)
      BY DEF Dials, GivesUpWaiting, ReadsEvent, StreamStops, DeadlinePasses, Takes, MovesTo,
             HandoffInv, Waits
    <2> QED BY <2>1, <2>2, <2>3 DEF HandoffNext, handoff, AgentPosts, AgentEdits
  <1>2. PICK page \in Listed :
           /\ blind' = (page # Posted)
           /\ LET found == {n \in page : Matches(replies[n])}
              IN  IF found = {} THEN MovesTo(AfterLook) /\ UNCHANGED taken
                  ELSE \E n \in found : Takes(n, replies[n])
    BY <1>1 DEF Looks
  <1>3. page = Posted
    BY <1>2
  <1>4. {n \in page : Matches(replies[n])} = {}
    BY <1>2 DEF Takes, MovesTo, HandoffInv, Waits
  <1>5. m \in Posted
    BY DEF Answer, Posted, HandoffInv, Waits, ReplyRecord
  <1>6. wait.since <= wait.sent
    BY <1>1 DEF Looks, HandoffInv, Waiting
  <1>7. Matches(replies[m])
    <2>1. replies[m].number > wait.since /\ replies[m].to = wait.sent /\ replies[m].text = "done"
      BY <1>6 DEF Answer, HandoffInv, Waits, ReplyRecord
    <2> QED BY <2>1 DEF Matches
  <1> QED BY <1>3, <1>4, <1>5, <1>7

(* However many replies, rounds, and events that the stream missed, and    *)
(* however far the clock of the command is behind: a wait of the handoff   *)
(* that ends without an answer after a last look that was not hindered     *)
(* leaves no finished answer to its message behind.                        *)
THEOREM HandoffFindsAnswers == HandoffSpec => AnswerIsFound
  <1>1. HandoffInv /\ [HandoffNext]_handoff
          => [wait.at # "none" /\ wait'.at = "none" /\ ~blind'
                => ~\E m \in Replies : Answer(m)]_handoff
    BY LooksFindAnswers
  <1> QED BY <1>1, HandoffInvHolds, PTL DEF HandoffSpec, AnswerIsFound

LEMMA HandoffTyped == HandoffInv => HandoffTypeOK
  BY DEF HandoffInv, HandoffTypeOK, Waits, Stages, Taken, ReplyRecord

(* Every variable of a handoff keeps its type; nothing it waits on or is   *)
(* answered was numbered beyond what was posted.                           *)
THEOREM HandoffTypeCorrect == HandoffSpec => []HandoffTypeOK
  BY HandoffTyped, HandoffInvHolds, PTL

-----------------------------------------------------------------------------
(* ToolLoop                                                                *)

(* The last k rows, or all if there are fewer, are a user's.               *)
LastAreUsers(h, k) == \A i \in 1..Len(h) : i > Len(h) - k => h[i] = User

(* Whole once the results of c more calls have joined it.                  *)
WholeBut(h, c) ==
    /\ \A i \in 1..Len(h) :
        /\ h[i].is = "calls" =>
            i + h[i].n <= Len(h) + c
            /\ \A j \in (i + 1)..(i + h[i].n) : j <= Len(h) => h[j].is = "result"
        /\ h[i].is = "result" => \E k \in 1..(i - 1) : h[k].is = "calls" /\ i <= k + h[k].n
    /\ c > 0 => \E k \in 1..Len(h) : h[k].is = "calls" /\ k + h[k].n = Len(h) + c

Dialogue == [at : {"rest", "ask", "stream", "tools"}, history : Seq(Rows),
             turn : 0..(MaxTurns + 1), calls : 0..MaxCalls]

ToolLoopInv ==
    /\ ToolLoopTypeOK
    /\ dialogue \in Dialogue
    /\ dialogue.at \in {"stream", "tools"} => dialogue.turn \in 1..MaxTurns
    /\ dialogue.at = "ask" => dialogue.turn >= 1
    /\ RefusalsEnd
    /\ LastAreUsers(kept, refused)
    /\ dialogue.at = "ask" /\ dialogue.turn = 1 => dialogue.history = Append(kept, User)
    /\ dialogue.at = "ask" /\ dialogue.turn # 1 => refused = 0 /\ Whole(dialogue.history)
    /\ dialogue.at = "stream" => refused = 0 /\ Whole(dialogue.history)
    /\ dialogue.at = "tools" =>
        refused = 0 /\ (IF Runtime.keepsCalls THEN WholeBut(dialogue.history, dialogue.calls)
                        ELSE Whole(dialogue.history))

-----------------------------------------------------------------------------
(* Histories                                                               *)

LEMMA RowTypes ==
  /\ User \in Rows /\ Text \in Rows /\ Result \in Rows
  /\ \A n \in 1..MaxCalls : Calls(n) \in Rows
  /\ \A r \in Rows : r.n \in Nat
  <1>1. User \in Rows /\ Text \in Rows /\ Result \in Rows
    BY DEF Rows
  <1>2. \A n \in 1..MaxCalls : Calls(n) \in Rows
    BY DEF Rows
  <1>3. User.n = 0 /\ Text.n = 0 /\ Result.n = 0 /\ \A n : Calls(n).n = n
    BY DEF User, Text, Result, Calls
  <1>4. \A r \in Rows : r.n \in Nat
    BY <1>3 DEF Rows
  <1> QED BY <1>1, <1>2, <1>4

LEMMA WholeIsWholeBut == ASSUME NEW h \in Seq(Rows) PROVE Whole(h) <=> WholeBut(h, 0)
  <1>1. DOMAIN h = 1..Len(h) /\ Len(h) \in Nat
    BY LenProperties
  <1>2. \A i \in 1..Len(h) : h[i].n \in Nat
    BY RowTypes, ElementOfSeq
  <1>3. ASSUME Whole(h) PROVE WholeBut(h, 0)
    BY <1>1, <1>2, <1>3 DEF Whole, WholeBut
  <1>4. ASSUME WholeBut(h, 0) PROVE Whole(h)
    <2>1. ASSUME NEW i \in 1..Len(h), h[i].is = "calls"
          PROVE  i + h[i].n <= Len(h) /\ \A j \in (i + 1)..(i + h[i].n) : h[j].is = "result"
      BY <1>1, <1>2, <1>4, <2>1 DEF WholeBut
    <2>2. ASSUME NEW i \in 1..Len(h), h[i].is = "result"
          PROVE  \E c \in 1..(i - 1) : h[c].is = "calls" /\ i <= c + h[c].n
      BY <1>4, <2>2 DEF WholeBut
    <2> QED BY <1>1, <2>1, <2>2 DEF Whole
  <1> QED BY <1>3, <1>4

(* What an appended row does to a history.                                 *)
LEMMA RowsAppend ==
  ASSUME NEW h \in Seq(Rows), NEW x \in Rows
  PROVE  /\ Append(h, x) \in Seq(Rows) /\ Len(Append(h, x)) = Len(h) + 1 /\ Len(h) \in Nat
         /\ Append(h, x)[Len(h) + 1] = x
         /\ \A i \in 1..Len(h) : Append(h, x)[i] = h[i] /\ h[i].n \in Nat
  BY AppendProperties, LenProperties, ElementOfSeq, RowTypes

LEMMA SaidStaysWhole ==
  ASSUME NEW h \in Seq(Rows), NEW x \in {User, Text}, Whole(h)
  PROVE  Whole(Append(h, x)) /\ Append(h, x) \in Seq(Rows)
  <1> DEFINE a == Append(h, x)
             l == Len(h)
  <1>0. x \in Rows /\ x.is \notin {"calls", "result"}
    BY RowTypes DEF User, Text
  <1>1. /\ a \in Seq(Rows) /\ Len(a) = l + 1 /\ l \in Nat /\ a[l + 1] = x
        /\ \A i \in 1..l : a[i] = h[i] /\ h[i].n \in Nat
    BY <1>0, RowsAppend
  <1>2. DOMAIN a = 1..(l + 1) /\ DOMAIN h = 1..l
    BY <1>1, LenProperties
  <1> HIDE DEF a
  <1>3. ASSUME NEW i \in 1..l, h[i].is = "calls"
        PROVE  i + a[i].n <= l + 1 /\ \A j \in (i + 1)..(i + a[i].n) : a[j].is = "result"
    <2>1. i + h[i].n <= l /\ \A j \in (i + 1)..(i + h[i].n) : h[j].is = "result"
      BY <1>2, <1>3 DEF Whole
    <2> HIDE DEF l
    <2>2. a[i].n = h[i].n /\ h[i].n \in Nat
      BY <1>1
    <2>3. ASSUME NEW j \in (i + 1)..(i + a[i].n) PROVE a[j].is = "result"
      <3>1. j \in 1..l
        BY <1>1, <2>1, <2>2
      <3> QED BY <1>1, <2>1, <2>2, <3>1
    <2> QED BY <1>1, <2>1, <2>2, <2>3
  <1>4. ASSUME NEW i \in 1..l, h[i].is = "result"
        PROVE  \E c \in 1..(i - 1) : a[c].is = "calls" /\ i <= c + a[c].n
    <2>1. PICK c \in 1..(i - 1) : h[c].is = "calls" /\ i <= c + h[c].n
      BY <1>2, <1>4 DEF Whole
    <2> HIDE DEF l
    <2>2. c \in 1..l
      BY <1>1
    <2> QED BY <1>1, <2>1, <2>2
  <1>5. Whole(a)
    <2> SUFFICES ASSUME NEW i \in 1..(l + 1)
                 PROVE  /\ a[i].is = "calls" =>
                            i + a[i].n <= l + 1
                            /\ \A j \in (i + 1)..(i + a[i].n) : a[j].is = "result"
                        /\ a[i].is = "result" =>
                            \E c \in 1..(i - 1) : a[c].is = "calls" /\ i <= c + a[c].n
      BY <1>1, <1>2 DEF Whole
    <2> HIDE DEF l
    <2>1. CASE i = l + 1
      BY <1>0, <1>1, <2>1
    <2>2. CASE i \in 1..l
      BY <1>1, <1>3, <1>4, <2>2
    <2> QED BY <1>1, <2>1, <2>2
  <1> QED BY <1>1, <1>5 DEF a

LEMMA CallsJoin ==
  ASSUME NEW h \in Seq(Rows), NEW n \in 1..MaxCalls, Whole(h)
  PROVE  WholeBut(Append(h, Calls(n)), n) /\ Append(h, Calls(n)) \in Seq(Rows)
  <1> DEFINE x == Calls(n)
             a == Append(h, x)
             l == Len(h)
  <1>0. x \in Rows /\ x.is = "calls" /\ x.n = n
    BY RowTypes DEF Calls
  <1> HIDE DEF x
  <1>1. /\ a \in Seq(Rows) /\ Len(a) = l + 1 /\ l \in Nat /\ a[l + 1] = x
        /\ \A i \in 1..l : a[i] = h[i] /\ h[i].n \in Nat
    BY <1>0, RowsAppend
  <1>2. DOMAIN h = 1..l
    BY <1>1, LenProperties
  <1> HIDE DEF a
  <1>3. n \in Nat /\ n > 0
    BY ToolLoopAssumption DEF ToolLoopAssumption
  <1>4. ASSUME NEW i \in 1..l, h[i].is = "calls"
        PROVE  i + a[i].n <= l + 1 + n
               /\ \A j \in (i + 1)..(i + a[i].n) : j <= l + 1 => a[j].is = "result"
    <2>1. i + h[i].n <= l /\ \A j \in (i + 1)..(i + h[i].n) : h[j].is = "result"
      BY <1>2, <1>4 DEF Whole
    <2> HIDE DEF l
    <2>2. a[i].n = h[i].n /\ h[i].n \in Nat
      BY <1>1
    <2>3. ASSUME NEW j \in (i + 1)..(i + a[i].n) PROVE a[j].is = "result"
      <3>1. j \in 1..l
        BY <1>1, <2>1, <2>2
      <3> QED BY <1>1, <2>1, <2>2, <3>1
    <2> QED BY <1>1, <1>3, <2>1, <2>2, <2>3
  <1>5. ASSUME NEW i \in 1..l, h[i].is = "result"
        PROVE  \E c \in 1..(i - 1) : a[c].is = "calls" /\ i <= c + a[c].n
    <2>1. PICK c \in 1..(i - 1) : h[c].is = "calls" /\ i <= c + h[c].n
      BY <1>2, <1>5 DEF Whole
    <2> HIDE DEF l
    <2>2. c \in 1..l
      BY <1>1
    <2> QED BY <1>1, <2>1, <2>2
  <1>6. WholeBut(a, n)
    <2>1. \A i \in 1..(l + 1) :
            /\ a[i].is = "calls" =>
                i + a[i].n <= l + 1 + n
                /\ \A j \in (i + 1)..(i + a[i].n) : j <= l + 1 => a[j].is = "result"
            /\ a[i].is = "result" => \E k \in 1..(i - 1) : a[k].is = "calls" /\ i <= k + a[k].n
      <3> SUFFICES ASSUME NEW i \in 1..(l + 1)
                   PROVE  /\ a[i].is = "calls" =>
                              i + a[i].n <= l + 1 + n
                              /\ \A j \in (i + 1)..(i + a[i].n) : j <= l + 1 => a[j].is = "result"
                          /\ a[i].is = "result" =>
                              \E k \in 1..(i - 1) : a[k].is = "calls" /\ i <= k + a[k].n
        OBVIOUS
      <3> HIDE DEF l
      <3>1. CASE i = l + 1
        BY <1>0, <1>1, <1>3, <3>1
      <3>2. CASE i \in 1..l
        BY <1>1, <1>4, <1>5, <3>2
      <3> QED BY <1>1, <3>1, <3>2
    <2> HIDE DEF l
    <2>2. l + 1 \in 1..(l + 1) /\ a[l + 1].is = "calls" /\ a[l + 1].n = n
      BY <1>0, <1>1
    <2>3. \E k \in 1..(l + 1) : a[k].is = "calls" /\ k + a[k].n = l + 1 + n
      BY <2>2
    <2> QED BY <1>1, <2>1, <2>3 DEF WholeBut
  <1> QED BY <1>1, <1>6 DEF a, x

LEMMA ResultJoins ==
  ASSUME NEW h \in Seq(Rows), NEW c \in Nat, c > 0, WholeBut(h, c)
  PROVE  WholeBut(Append(h, Result), c - 1) /\ Append(h, Result) \in Seq(Rows)
  <1> DEFINE x == Result
             a == Append(h, x)
             l == Len(h)
  <1>0. x \in Rows /\ x.is = "result"
    BY RowTypes DEF Result
  <1> HIDE DEF x
  <1>1. /\ a \in Seq(Rows) /\ Len(a) = l + 1 /\ l \in Nat /\ a[l + 1] = x
        /\ \A i \in 1..l : a[i] = h[i] /\ h[i].n \in Nat
    BY <1>0, RowsAppend
  <1> HIDE DEF a
  <1>2. PICK k \in 1..l : h[k].is = "calls" /\ k + h[k].n = l + c
    BY DEF WholeBut
  <1>3. ASSUME NEW i \in 1..l, h[i].is = "calls"
        PROVE  i + a[i].n <= l + 1 + (c - 1)
               /\ \A j \in (i + 1)..(i + a[i].n) : j <= l + 1 => a[j].is = "result"
    <2>1. i + h[i].n <= l + c /\ \A j \in (i + 1)..(i + h[i].n) : j <= l => h[j].is = "result"
      BY <1>3 DEF WholeBut
    <2> HIDE DEF l
    <2>2. a[i].n = h[i].n /\ h[i].n \in Nat
      BY <1>1
    <2>3. ASSUME NEW j \in (i + 1)..(i + a[i].n), j <= l + 1 PROVE a[j].is = "result"
      <3>1. CASE j = l + 1
        BY <1>0, <1>1, <3>1
      <3>2. CASE j \in 1..l
        BY <1>1, <2>1, <2>2, <3>2
      <3> QED BY <1>1, <2>3, <3>1, <3>2
    <2> QED BY <1>1, <2>1, <2>2, <2>3
  <1>4. ASSUME NEW i \in 1..l, h[i].is = "result"
        PROVE  \E m \in 1..(i - 1) : a[m].is = "calls" /\ i <= m + a[m].n
    <2>1. PICK m \in 1..(i - 1) : h[m].is = "calls" /\ i <= m + h[m].n
      BY <1>4 DEF WholeBut
    <2> HIDE DEF l
    <2>2. m \in 1..l
      BY <1>1
    <2> QED BY <1>1, <2>1, <2>2
  <1>5. \A i \in 1..(l + 1) :
            /\ a[i].is = "calls" =>
                i + a[i].n <= l + 1 + (c - 1)
                /\ \A j \in (i + 1)..(i + a[i].n) : j <= l + 1 => a[j].is = "result"
            /\ a[i].is = "result" => \E m \in 1..(i - 1) : a[m].is = "calls" /\ i <= m + a[m].n
    <2> SUFFICES ASSUME NEW i \in 1..(l + 1)
                 PROVE  /\ a[i].is = "calls" =>
                            i + a[i].n <= l + 1 + (c - 1)
                            /\ \A j \in (i + 1)..(i + a[i].n) : j <= l + 1 => a[j].is = "result"
                        /\ a[i].is = "result" =>
                            \E m \in 1..(i - 1) : a[m].is = "calls" /\ i <= m + a[m].n
      OBVIOUS
    <2> HIDE DEF l
    <2>1. CASE i = l + 1
      <3>1. k \in 1..(i - 1) /\ a[k].is = "calls" /\ i <= k + a[k].n
        BY <1>1, <1>2, <2>1
      <3> QED BY <1>0, <1>1, <2>1, <3>1
    <2>2. CASE i \in 1..l
      BY <1>1, <1>3, <1>4, <2>2
    <2> QED BY <1>1, <2>1, <2>2
  <1>6. c - 1 > 0 => \E m \in 1..(l + 1) : a[m].is = "calls" /\ m + a[m].n = l + 1 + (c - 1)
    <2> HIDE DEF l
    <2>1. a[k] = h[k] /\ k \in 1..(l + 1)
      BY <1>1, <1>2
    <2>2. a[k].is = "calls" /\ k + a[k].n = l + c
      BY <2>1, <1>2
    <2>3. l + c = l + 1 + (c - 1)
      BY <1>1
    <2> QED BY <2>1, <2>2, <2>3
  <1> DEFINE d == c - 1
             m == l + 1
  <1>7. d \in Nat /\ m = Len(a)
    BY <1>1
  <1> HIDE DEF l
  <1>8. WholeBut(a, d)
    <2>1. /\ \A i \in 1..m :
                /\ a[i].is = "calls" =>
                    i + a[i].n <= m + d
                    /\ \A j \in (i + 1)..(i + a[i].n) : j <= m => a[j].is = "result"
                /\ a[i].is = "result" => \E n \in 1..(i - 1) : a[n].is = "calls" /\ i <= n + a[n].n
          /\ d > 0 => \E n \in 1..m : a[n].is = "calls" /\ n + a[n].n = m + d
      BY <1>5, <1>6
    <2> HIDE DEF d, m
    <2> QED BY <2>1, <1>7 DEF WholeBut
  <1> QED BY <1>1, <1>8 DEF a, x

LEMMA OneMoreUser ==
  ASSUME NEW h \in Seq(Rows), NEW k \in Nat, LastAreUsers(h, k)
  PROVE  LastAreUsers(Append(h, User), k) /\ LastAreUsers(Append(h, User), k + 1)
  <1>1. User \in Rows
    BY RowTypes
  <1> DEFINE a == Append(h, User)
             l == Len(h)
  <1>2. /\ Len(a) = l + 1 /\ l \in Nat /\ a[l + 1] = User
        /\ \A i \in 1..l : a[i] = h[i]
    BY <1>1, RowsAppend
  <1>3. \A i \in 1..l : i > l - k => h[i] = User
    BY DEF LastAreUsers
  <1> HIDE DEF a, l
  <1>4. ASSUME NEW i \in 1..(l + 1), i > l + 1 - (k + 1) PROVE a[i] = User
    <2>1. CASE i = l + 1
      BY <1>2, <2>1
    <2>2. CASE i \in 1..l
      BY <1>2, <1>3, <1>4, <2>2
    <2> QED BY <1>2, <2>1, <2>2
  <1>5. ASSUME NEW i \in 1..(l + 1), i > l + 1 - k PROVE a[i] = User
    BY <1>2, <1>4, <1>5
  <1> QED BY <1>2, <1>4, <1>5 DEF LastAreUsers, a

LEMMA KeptRows ==
  ASSUME NEW h \in Seq(Rows), NEW k \in Nat, LastAreUsers(h, k)
  PROVE  /\ LastRows(h) \in Seq(Rows) /\ Len(LastRows(h)) <= HistoryMax
         /\ LastAreUsers(LastRows(h), k)
  <1>1. HistoryMax \in Nat \ {0} /\ Len(h) \in Nat
    BY ToolLoopAssumption, LenProperties DEF ToolLoopAssumption
  <1>2. CASE Len(h) <= HistoryMax
    BY <1>2 DEF LastRows
  <1>3. CASE Len(h) > HistoryMax
    <2> DEFINE l == Len(h)
               d == l - HistoryMax
               s == SubSeq(h, d + 1, l)
    <2>1. d \in Nat /\ d > 0 /\ l \in Nat /\ l = d + HistoryMax /\ d + 1 \in 1..l
      BY <1>1, <1>3
    <2>2. \A i \in (d + 1)..l : h[i] \in Rows
      <3>1. \A i \in 1..l : h[i] \in Rows
        BY ElementOfSeq
      <3> HIDE DEF l, d
      <3> QED BY <2>1, <3>1
    <2>3. d + 1 \in Int /\ l \in Int
      BY <2>1
    <2>4. d + 1 \in 1..(l + 1) /\ l - (d + 1) + 1 = HistoryMax
      BY <1>1, <2>1
    <2> HIDE DEF l, d
    <2>5. /\ s \in Seq(Rows) /\ Len(s) = HistoryMax
          /\ \A i \in 1..HistoryMax : s[i] = h[d + i]
      <3>1. s \in Seq(Rows)
        BY <2>2, <2>3, SubSeqProperties DEF s
      <3>2. d + 1 <= l + 1
        BY <2>1, <1>1
      <3>3. Len(s) = HistoryMax /\ \A i \in 1..(l - (d + 1) + 1) : s[i] = h[(d + 1) + i - 1]
        BY <2>2, <2>3, <2>4, <3>2, SubSeqProperties DEF s
      <3>4. \A i \in 1..HistoryMax : (d + 1) + i - 1 = d + i
        BY <1>1, <2>1
      <3> QED BY <2>4, <3>1, <3>3, <3>4
    <2>6. LastRows(h) = s
      BY <1>1, <1>3 DEF LastRows, s, d, l
    <2>7. \A i \in 1..l : i > l - k => h[i] = User
      BY DEF LastAreUsers, l
    <2> HIDE DEF s
    <2>8. ASSUME NEW i \in 1..HistoryMax, i > HistoryMax - k PROVE s[i] = User
      <3>1. d + i \in 1..l /\ d + i > l - k
        BY <1>1, <2>1, <2>8
      <3> QED BY <2>5, <2>7, <3>1
    <2> QED BY <1>1, <2>5, <2>6, <2>8 DEF LastAreUsers
  <1> QED BY <1>1, <1>2, <1>3

(* A store full of refused mentions holds nothing that could be refused.   *)
LEMMA UsersAreWhole ==
  ASSUME NEW h \in Seq(Rows), LastAreUsers(h, Len(h))
  PROVE  Whole(h)
  <1>1. Len(h) \in Nat /\ DOMAIN h = 1..Len(h)
    BY LenProperties
  <1>2. \A i \in 1..Len(h) : h[i].is = "user"
    BY <1>1 DEF LastAreUsers, User
  <1> QED BY <1>1, <1>2 DEF Whole

-----------------------------------------------------------------------------

LEMMA RuntimeTypes ==
  ASSUME vendor \in Vendors
  PROVE  /\ \A cause \in Causes : Runtime.refusals[cause] \subseteq Reasons
         /\ Runtime.usedUp \in Reasons
         /\ Runtime.keepsCalls \in BOOLEAN
  <1>1. vendor \in {"groq", "xai", "together", "openrouter", "leapfrog", "mistral", "gemini",
                   "openai"}
    BY ToolLoopAssumption DEF ToolLoopAssumption
  <1>2. CASE vendor \in {"groq", "xai", "together", "openrouter", "leapfrog"}
    <2>1. Runtime = Loop(Typed)
      BY <1>2 DEF Runtime, Groq, Xai, Together, OpenRouter, Leapfrog
    <2> QED BY <2>1 DEF Loop, Typed, Causes, Reasons
  <1>3. CASE vendor = "mistral"
    <2>1. Runtime = Mistral
      BY <1>3 DEF Runtime
    <2>2. Mistral.usedUp \in Reasons /\ Mistral.keepsCalls \in BOOLEAN
      BY DEF Mistral, Loop, Typed, Reasons
    <2>3. ASSUME NEW cause \in Causes PROVE Mistral.refusals[cause] \subseteq Reasons
      <3>1. \A r \in {"limit", "auth", "server", "request", "slow", "other"} :
              cause = r => Mistral.refusals[cause] = Mistral.refusals[r]
        OBVIOUS
      <3>2. /\ Mistral.refusals.limit \subseteq Reasons /\ Mistral.refusals.auth \subseteq Reasons
            /\ Mistral.refusals.server \subseteq Reasons /\ Mistral.refusals.request \subseteq Reasons
            /\ Mistral.refusals.slow \subseteq Reasons /\ Mistral.refusals.other \subseteq Reasons
        BY DEF Mistral, Loop, Typed, Reasons
      <3> QED BY <3>1, <3>2 DEF Causes
    <2> QED BY <2>1, <2>2, <2>3
  <1>4. CASE vendor = "gemini"
    <2>1. Runtime = Gemini
      BY <1>4 DEF Runtime
    <2>2. Gemini.usedUp \in Reasons /\ Gemini.keepsCalls \in BOOLEAN
      BY DEF Gemini, Loop, Reasons
    <2>3. ASSUME NEW cause \in Causes PROVE Gemini.refusals[cause] \subseteq Reasons
      <3>1. \A r \in {"limit", "auth", "server", "request", "slow", "other"} :
              cause = r => Gemini.refusals[cause] = Gemini.refusals[r]
        OBVIOUS
      <3>2. /\ Gemini.refusals.limit \subseteq Reasons /\ Gemini.refusals.auth \subseteq Reasons
            /\ Gemini.refusals.server \subseteq Reasons /\ Gemini.refusals.request \subseteq Reasons
            /\ Gemini.refusals.slow \subseteq Reasons /\ Gemini.refusals.other \subseteq Reasons
        BY DEF Gemini, Loop, Reasons
      <3> QED BY <3>1, <3>2 DEF Causes
    <2> QED BY <2>1, <2>2, <2>3
  <1>5. CASE vendor = "openai"
    <2>1. Runtime = OpenAI
      BY <1>5 DEF Runtime
    <2>2. OpenAI.usedUp \in Reasons /\ OpenAI.keepsCalls \in BOOLEAN
      BY DEF OpenAI, Reasons
    <2>3. ASSUME NEW cause \in Causes PROVE OpenAI.refusals[cause] \subseteq Reasons
      <3>1. \A r \in {"limit", "auth", "server", "request", "slow", "other"} :
              cause = r => OpenAI.refusals[cause] = OpenAI.refusals[r]
        OBVIOUS
      <3>2. /\ OpenAI.refusals.limit \subseteq Reasons /\ OpenAI.refusals.auth \subseteq Reasons
            /\ OpenAI.refusals.server \subseteq Reasons /\ OpenAI.refusals.request \subseteq Reasons
            /\ OpenAI.refusals.slow \subseteq Reasons /\ OpenAI.refusals.other \subseteq Reasons
        BY DEF OpenAI, Reasons
      <3> QED BY <3>1, <3>2 DEF Causes
    <2> QED BY <2>1, <2>2, <2>3
  <1> QED BY <1>1, <1>2, <1>3, <1>4, <1>5

LEMMA ToolLoopInitInv == ToolLoopInit => ToolLoopInv
  <1> SUFFICES ASSUME ToolLoopInit PROVE ToolLoopInv
    OBVIOUS
  <1>1. <<>> \in Seq(Rows) /\ Len(<<>>) = 0
    BY EmptySeq
  <1>2. /\ HistoryMax \in Nat \ {0} /\ MaxTurns \in Nat \ {0}
        /\ MaxCalls \in Nat /\ MaxMentions \in Nat
    BY ToolLoopAssumption DEF ToolLoopAssumption
  <1>3. dialogue \in Dialogue /\ dialogue.at = "rest"
    BY <1>1, <1>2 DEF ToolLoopInit, NoDialogue, Dialogue
  <1>4. ended \in Reasons /\ late \in BOOLEAN
    BY DEF ToolLoopInit, Reasons
  <1>5. ToolLoopTypeOK
    BY <1>1, <1>2, <1>3, <1>4 DEF ToolLoopInit, ToolLoopTypeOK, Dialogue
  <1>6. LastAreUsers(kept, refused)
    BY <1>1 DEF ToolLoopInit, LastAreUsers
  <1> QED BY <1>2, <1>3, <1>5, <1>6 DEF ToolLoopInit, ToolLoopInv, RefusalsEnd

(* A run that returns its history, without a refusal of it.                *)
LEMMA ReturnsKeep ==
  ASSUME ToolLoopInv, NEW reason \in Reasons, NEW h \in Seq(Rows), LastAreUsers(h, refused'),
         refused' \in Nat, RefusalsEnd', Returns(reason, h)
  PROVE  ToolLoopInv'
  <1>1. /\ LastRows(h) \in Seq(Rows) /\ Len(LastRows(h)) <= HistoryMax
        /\ LastAreUsers(LastRows(h), refused')
    BY KeptRows
  <1>2. dialogue' \in Dialogue /\ dialogue'.at = "rest"
    <2>1. <<>> \in Seq(Rows)
      BY EmptySeq
    <2>2. MaxTurns \in Nat /\ MaxCalls \in Nat
      BY ToolLoopAssumption DEF ToolLoopAssumption
    <2> QED BY <2>1, <2>2 DEF Returns, NoDialogue, Dialogue
  <1>3. ToolLoopTypeOK'
    BY <1>1, <1>2 DEF Returns, ToolLoopInv, ToolLoopTypeOK, Dialogue
  <1>4. LastAreUsers(kept', refused')
    BY <1>1 DEF Returns
  <1>5. (LastAreUsers(kept, refused))'
    BY <1>4 DEF LastAreUsers
  <1> QED BY <1>2, <1>3, <1>5 DEF ToolLoopInv

(* What the history of a run may end with, for the count of refusals.      *)
LEMMA HistoryOfRefusals ==
  ASSUME ToolLoopInv, dialogue.at # "rest"
  PROVE  dialogue.history \in Seq(Rows) /\ refused \in Nat
         /\ LastAreUsers(dialogue.history, refused)
  <1>1. dialogue.history \in Seq(Rows) /\ kept \in Seq(Rows) /\ refused \in Nat
    BY DEF ToolLoopInv, ToolLoopTypeOK
  <1>2. CASE dialogue.at = "ask" /\ dialogue.turn = 1
    BY <1>1, <1>2, OneMoreUser DEF ToolLoopInv
  <1>3. CASE refused = 0
    <2>1. Len(dialogue.history) \in Nat
      BY <1>1, LenProperties
    <2> QED BY <1>1, <1>3, <2>1 DEF LastAreUsers
  <1>4. dialogue.at \in {"ask", "stream", "tools"}
    BY DEF ToolLoopInv, Dialogue
  <1> QED BY <1>1, <1>2, <1>3, <1>4 DEF ToolLoopInv

LEMMA EndsKeep ==
  ASSUME ToolLoopInv, TurnsUsedUp \/ TurnIsLate \/ StreamBreaks \/ ToolIsLate
  PROVE  ToolLoopInv'
  <1>1. dialogue.at # "rest" /\ refused' = refused
    BY DEF TurnsUsedUp, TurnIsLate, StreamBreaks, ToolIsLate
  <1>2. /\ dialogue.history \in Seq(Rows) /\ refused \in Nat
        /\ LastAreUsers(dialogue.history, refused)
    BY <1>1, HistoryOfRefusals
  <1>3. RefusalsEnd' /\ vendor \in Vendors
    BY <1>1 DEF ToolLoopInv, RefusalsEnd, ToolLoopTypeOK
  <1>4. CASE TurnsUsedUp
    BY <1>1, <1>2, <1>3, <1>4, RuntimeTypes, ReturnsKeep DEF TurnsUsedUp
  <1>5. CASE TurnIsLate \/ ToolIsLate
    <2>1. "timeout" \in Reasons
      BY DEF Reasons
    <2> QED BY <1>1, <1>2, <1>3, <1>5, <2>1, ReturnsKeep DEF TurnIsLate, ToolIsLate
  <1>6. CASE StreamBreaks
    <2>1. PICK partial \in {<<>>, <<Text>>} : Returns("crashed", dialogue.history \o partial)
      BY <1>6 DEF StreamBreaks
    <2>2. dialogue.history \o partial \in Seq(Rows)
      <3>1. <<>> \in Seq(Rows) /\ <<Text>> \in Seq(Rows)
        BY EmptySeq, RowTypes
      <3> QED BY <1>2, <3>1, ConcatProperties
    <2>3. refused = 0
      BY <1>6 DEF StreamBreaks, ToolLoopInv
    <2>4. LastAreUsers(dialogue.history \o partial, 0)
      <3>1. Len(dialogue.history \o partial) \in Nat
        BY <2>2, LenProperties
      <3> QED BY <3>1 DEF LastAreUsers
    <2>5. "crashed" \in Reasons
      BY DEF Reasons
    <2> QED BY <1>1, <1>3, <2>1, <2>2, <2>3, <2>4, <2>5, ReturnsKeep
  <1> QED BY <1>4, <1>5, <1>6

(* The provider refuses a history that is not whole: the run was in its    *)
(* first turn, and the row that it added pushes another one out.           *)
LEMMA FailsKeep ==
  ASSUME ToolLoopInv, NEW cause \in Causes, RequestFails(cause)
  PROVE ToolLoopInv'
  <1>1. /\ dialogue.at = "ask"
        /\ refused' = IF cause = "request" /\ ~Whole(dialogue.history) THEN refused + 1 ELSE refused
    BY DEF RequestFails, Asks
  <1>2. PICK reason \in Runtime.refusals[cause] : Returns(reason, dialogue.history)
    BY DEF RequestFails
  <1>3. reason \in Reasons
    BY <1>2, RuntimeTypes DEF ToolLoopInv, ToolLoopTypeOK
  <1>4. /\ dialogue.history \in Seq(Rows) /\ refused \in Nat /\ kept \in Seq(Rows)
        /\ LastAreUsers(dialogue.history, refused)
    BY <1>1, HistoryOfRefusals DEF ToolLoopInv, ToolLoopTypeOK
  <1>5. CASE refused' = refused
    <2>1. RefusalsEnd'
      BY <1>5 DEF ToolLoopInv, RefusalsEnd
    <2> QED BY <1>2, <1>3, <1>4, <1>5, <2>1, ReturnsKeep
  <1>6. CASE refused' = refused + 1 /\ ~Whole(dialogue.history)
    <2>1. dialogue.history = Append(kept, User)
      BY <1>1, <1>6 DEF ToolLoopInv
    <2>2. LastAreUsers(dialogue.history, refused + 1)
      BY <1>4, <2>1, OneMoreUser DEF ToolLoopInv
    <2>3. refused < HistoryMax
      <3> SUFFICES ASSUME refused = HistoryMax PROVE FALSE
        BY <1>4, ToolLoopAssumption DEF ToolLoopInv, RefusalsEnd, ToolLoopAssumption
      <3>1. Len(kept) \in Nat /\ Len(kept) <= refused
        BY <1>4, LenProperties DEF ToolLoopInv, ToolLoopTypeOK
      <3>2. Len(dialogue.history) \in Nat /\ Len(dialogue.history) = Len(kept) + 1
        BY <1>4, <2>1, RowTypes, RowsAppend, LenProperties
      <3>3. LastAreUsers(dialogue.history, Len(dialogue.history))
        BY <1>4, <2>2, <3>1, <3>2 DEF LastAreUsers
      <3> QED BY <1>4, <1>6, <3>3, UsersAreWhole
    <2>4. RefusalsEnd' /\ refused' \in Nat
      BY <1>4, <1>6, <2>3, ToolLoopAssumption DEF RefusalsEnd, ToolLoopAssumption
    <2>5. LastAreUsers(dialogue.history, refused')
      BY <1>6, <2>2
    <2> QED BY <1>2, <1>3, <1>4, <2>4, <2>5, ReturnsKeep
  <1> QED BY <1>1, <1>5, <1>6

LEMMA RestKeeps ==
  ASSUME ToolLoopInv, Mentioned \/ CannotStart \/ DialogueTimesOut \/ RunRaisesAway
  PROVE  ToolLoopInv'
  <1>0. /\ HistoryMax \in Nat \ {0} /\ MaxTurns \in Nat \ {0}
        /\ MaxCalls \in Nat /\ MaxMentions \in Nat
    BY ToolLoopAssumption DEF ToolLoopAssumption
  <1>1. CASE Mentioned
    <2>1. kept \in Seq(Rows) /\ Append(kept, User) \in Seq(Rows)
      BY RowTypes, RowsAppend DEF ToolLoopInv, ToolLoopTypeOK
    <2>2. /\ dialogue' \in Dialogue /\ dialogue'.at = "ask" /\ dialogue'.turn = 1
          /\ dialogue'.history = Append(kept, User)
      BY <1>0, <1>1, <2>1 DEF Mentioned, Dialogue
    <2>3. mentions' \in 0..MaxMentions /\ late' \in BOOLEAN
      <3>1. late' \in BOOLEAN
        BY <1>1 DEF Mentioned
      <3>2. mentions' = mentions + 1 /\ mentions < MaxMentions /\ mentions \in Nat
        BY <1>0, <1>1 DEF Mentioned, ToolLoopInv, ToolLoopTypeOK
      <3> QED BY <1>0, <3>1, <3>2
    <2>4. UNCHANGED <<vendor, kept, ended, refused>>
      BY <1>1 DEF Mentioned
    <2>5. ToolLoopTypeOK'
      BY <2>2, <2>3, <2>4 DEF ToolLoopInv, ToolLoopTypeOK, Dialogue
    <2> QED BY <2>2, <2>4, <2>5 DEF ToolLoopInv, RefusalsEnd, LastAreUsers
  <1>2. CASE CannotStart
    <2>1. ended' \in Reasons /\ mentions' \in 0..MaxMentions
      BY <1>0, <1>2 DEF CannotStart, Reasons, ToolLoopInv, ToolLoopTypeOK
    <2>2. UNCHANGED <<vendor, kept, dialogue, late, refused>>
      BY <1>2 DEF CannotStart
    <2>3. ToolLoopTypeOK'
      BY <2>1, <2>2 DEF ToolLoopInv, ToolLoopTypeOK
    <2>4. Runtime' = Runtime
      BY <2>2 DEF Runtime, Groq, Xai, Together, OpenRouter, Leapfrog, Mistral, Gemini, OpenAI
    <2> QED BY <2>2, <2>3, <2>4 DEF ToolLoopInv, RefusalsEnd, LastAreUsers
  <1>3. CASE DialogueTimesOut
    <2>1. late' \in BOOLEAN
      BY <1>3 DEF DialogueTimesOut
    <2>2. UNCHANGED <<vendor, kept, dialogue, ended, mentions, refused>>
      BY <1>3 DEF DialogueTimesOut
    <2>3. ToolLoopTypeOK'
      BY <2>1, <2>2 DEF ToolLoopInv, ToolLoopTypeOK
    <2>4. Runtime' = Runtime
      BY <2>2 DEF Runtime, Groq, Xai, Together, OpenRouter, Leapfrog, Mistral, Gemini, OpenAI
    <2> QED BY <2>2, <2>3, <2>4 DEF ToolLoopInv, RefusalsEnd, LastAreUsers
  <1>4. CASE RunRaisesAway
    <2>1. dialogue' \in Dialogue /\ dialogue'.at = "rest"
      <3>1. <<>> \in Seq(Rows)
        BY EmptySeq
      <3> QED BY <1>0, <1>4, <3>1 DEF RunRaisesAway, NoDialogue, Dialogue
    <2>2. ended' \in Reasons /\ UNCHANGED <<vendor, kept, late, mentions, refused>>
      BY <1>4 DEF RunRaisesAway, Reasons
    <2>3. ToolLoopTypeOK'
      BY <2>1, <2>2 DEF ToolLoopInv, ToolLoopTypeOK, Dialogue
    <2> QED BY <2>1, <2>2, <2>3 DEF ToolLoopInv, RefusalsEnd, LastAreUsers
  <1> QED BY <1>1, <1>2, <1>3, <1>4

LEMMA StreamsKeep ==
  ASSUME ToolLoopInv, StreamOpens \/ StreamEnds \/ \E n \in 1..MaxCalls : StreamCalls(n)
  PROVE  ToolLoopInv'
  <1>0. /\ HistoryMax \in Nat \ {0} /\ MaxTurns \in Nat \ {0}
        /\ MaxCalls \in Nat /\ MaxMentions \in Nat
    BY ToolLoopAssumption DEF ToolLoopAssumption
  <1> DEFINE h == dialogue.history
             l == dialogue.turn
  <1>1. /\ dialogue \in Dialogue /\ h \in Seq(Rows) /\ l \in 0..(MaxTurns + 1)
        /\ dialogue.calls \in 0..MaxCalls /\ kept \in Seq(Rows)
    BY DEF ToolLoopInv, ToolLoopTypeOK, Dialogue
  <1>2. CASE StreamOpens
    <2>1. dialogue' = [dialogue EXCEPT !.at = "stream"] /\ dialogue.at = "ask" /\ l <= MaxTurns
          /\ Whole(h) /\ refused' = 0
      BY <1>2 DEF StreamOpens, Asks
    <2>2. /\ dialogue' \in Dialogue /\ dialogue'.at = "stream" /\ dialogue'.history = h
          /\ dialogue'.turn = l
      BY <1>1, <2>1 DEF Dialogue
    <2>3. dialogue'.turn \in 1..MaxTurns
      BY <1>0, <1>1, <2>1, <2>2 DEF ToolLoopInv
    <2>4. UNCHANGED <<vendor, kept, late, ended, mentions>>
      BY <1>2 DEF StreamOpens
    <2>5. ToolLoopTypeOK'
      BY <2>1, <2>2, <2>4 DEF ToolLoopInv, ToolLoopTypeOK, Dialogue
    <2>6. (LastAreUsers(kept, refused))' /\ RefusalsEnd'
      <3>1. Len(kept) \in Nat
        BY <1>1, LenProperties
      <3> QED BY <1>0, <2>1, <2>4, <3>1 DEF LastAreUsers, RefusalsEnd
    <2> QED BY <2>1, <2>2, <2>3, <2>5, <2>6 DEF ToolLoopInv, Whole
  <1>3. ASSUME StreamEnds PROVE ToolLoopInv'
    <2>1. /\ dialogue.at = "stream" /\ refused' = refused /\ refused = 0 /\ Whole(h)
          /\ l \in 1..MaxTurns /\ vendor \in Vendors
      BY <1>3 DEF StreamEnds, ToolLoopInv, ToolLoopTypeOK
    <2>2. PICK text \in {<<>>, <<Text>>} :
            \/ /\ dialogue' = [dialogue EXCEPT !.at = "ask", !.turn = @ + 1,
                                              !.history = @ \o text \o <<User>>]
               /\ text # <<>>
               /\ UNCHANGED <<vendor, kept, late, ended, mentions>>
            \/ Returns("done", h \o text)
      BY <1>3 DEF StreamEnds
    <2>3. h \o text \in Seq(Rows) /\ Whole(h \o text)
      <3>1. CASE text = <<>>
        <4>1. h \o <<>> = h
          BY <1>1, ConcatEmptySeq
        <4> QED BY <1>1, <2>1, <3>1, <4>1
      <3>2. CASE text = <<Text>>
        <4>1. h \o <<Text>> = Append(h, Text)
          BY <1>1, RowTypes, AppendIsConcat
        <4>2. Whole(Append(h, Text)) /\ Append(h, Text) \in Seq(Rows)
          BY <1>1, <2>1, SaidStaysWhole
        <4> QED BY <3>2, <4>1, <4>2
      <3> QED BY <3>1, <3>2
    <2> DEFINE said == h \o text
    <2>4. CASE Returns("done", said)
      <3>1. Len(said) \in Nat
        BY <2>3, LenProperties
      <3>2. LastAreUsers(said, 0)
        BY <3>1 DEF LastAreUsers
      <3>3. RefusalsEnd' /\ refused' \in Nat /\ "done" \in Reasons
        BY <1>0, <2>1 DEF RefusalsEnd, Reasons
      <3> HIDE DEF said
      <3>4. said \in Seq(Rows)
        BY <2>3 DEF said
      <3> QED BY <2>1, <2>4, <3>2, <3>3, <3>4, ReturnsKeep
    <2>5. CASE /\ dialogue' = [dialogue EXCEPT !.at = "ask", !.turn = @ + 1,
                                              !.history = said \o <<User>>]
               /\ UNCHANGED <<vendor, kept, late, ended, mentions>>
      <3> DEFINE more == said \o <<User>>
                 n == l + 1
      <3>1. Whole(more) /\ more \in Seq(Rows)
        <4>1. Whole(Append(said, User)) /\ Append(said, User) \in Seq(Rows)
          BY <2>3, SaidStaysWhole
        <4>2. more = Append(said, User)
          BY <2>3, RowTypes, AppendIsConcat
        <4> QED BY <4>1, <4>2
      <3>2. n \in 0..(MaxTurns + 1) /\ n # 1 /\ n >= 1
        BY <1>0, <2>1
      <3>3. dialogue' = [dialogue EXCEPT !.at = "ask", !.turn = n, !.history = more]
        BY <2>5
      <3> HIDE DEF more, n
      <3>4. dialogue' \in Dialogue /\ dialogue'.at = "ask" /\ dialogue'.turn = n
            /\ dialogue'.history = more
        BY <1>1, <3>1, <3>2, <3>3 DEF Dialogue
      <3>5. ToolLoopTypeOK'
        BY <2>1, <2>5, <3>4 DEF ToolLoopInv, ToolLoopTypeOK, Dialogue
      <3>6. (LastAreUsers(kept, refused))' /\ RefusalsEnd'
        BY <2>1, <2>5 DEF ToolLoopInv, LastAreUsers, RefusalsEnd
      <3> QED BY <2>1, <3>1, <3>2, <3>4, <3>5, <3>6 DEF ToolLoopInv, Whole
    <2> QED BY <2>2, <2>4, <2>5
  <1>4. ASSUME NEW n \in 1..MaxCalls, StreamCalls(n) PROVE ToolLoopInv'
    <2>1. /\ dialogue.at = "stream" /\ refused' = refused /\ refused = 0 /\ Whole(h)
          /\ l \in 1..MaxTurns /\ vendor \in Vendors
          /\ UNCHANGED <<vendor, kept, late, ended, mentions>>
      BY <1>4 DEF StreamCalls, ToolLoopInv, ToolLoopTypeOK
    <2>2. n \in 0..MaxCalls
      BY <1>0
    <2> DEFINE more == IF Runtime.keepsCalls THEN Append(h, Calls(n)) ELSE h
    <2>3. more \in Seq(Rows) /\ IF Runtime.keepsCalls THEN WholeBut(more, n) ELSE Whole(more)
      BY <1>1, <2>1, CallsJoin
    <2>4. dialogue' = [dialogue EXCEPT !.at = "tools", !.calls = n, !.history = more]
      BY <1>4 DEF StreamCalls
    <2> HIDE DEF more
    <2>5. /\ dialogue' \in Dialogue /\ dialogue'.at = "tools" /\ dialogue'.turn = l
          /\ dialogue'.history = more /\ dialogue'.calls = n
      BY <1>1, <2>2, <2>3, <2>4 DEF Dialogue
    <2>6. ToolLoopTypeOK'
      BY <2>1, <2>5 DEF ToolLoopInv, ToolLoopTypeOK, Dialogue
    <2>7. (LastAreUsers(kept, refused))' /\ RefusalsEnd'
      BY <2>1 DEF ToolLoopInv, LastAreUsers, RefusalsEnd
    <2>8. Runtime' = Runtime
      BY <2>1 DEF Runtime, Groq, Xai, Together, OpenRouter, Leapfrog, Mistral, Gemini, OpenAI
    <2>9. IF Runtime'.keepsCalls THEN WholeBut(dialogue'.history, dialogue'.calls)
          ELSE Whole(dialogue'.history)
      BY <2>3, <2>5, <2>8
    <2> HIDE DEF h, l
    <2> QED BY <2>1, <2>5, <2>6, <2>7, <2>9 DEF ToolLoopInv, Whole, WholeBut
  <1> QED BY <1>2, <1>3, <1>4

LEMMA ToolsKeep == ASSUME ToolLoopInv, ToolRuns \/ TurnEnds PROVE ToolLoopInv'
  <1>0. /\ HistoryMax \in Nat \ {0} /\ MaxTurns \in Nat \ {0} /\ MaxCalls \in Nat
    BY ToolLoopAssumption DEF ToolLoopAssumption
  <1> DEFINE h == dialogue.history
             l == dialogue.turn
             c == dialogue.calls
  <1>1. /\ dialogue \in Dialogue /\ h \in Seq(Rows) /\ l \in 0..(MaxTurns + 1)
        /\ c \in 0..MaxCalls /\ kept \in Seq(Rows)
    BY DEF ToolLoopInv, ToolLoopTypeOK, Dialogue
  <1>2. /\ dialogue.at = "tools" /\ refused' = refused /\ refused = 0
        /\ l \in 1..MaxTurns /\ vendor \in Vendors
        /\ UNCHANGED <<vendor, kept, late, ended, mentions>>
        /\ IF Runtime.keepsCalls THEN WholeBut(h, c) ELSE Whole(h)
    BY DEF ToolRuns, TurnEnds, ToolLoopInv, ToolLoopTypeOK
  <1>3. (LastAreUsers(kept, refused))' /\ RefusalsEnd'
    BY <1>2 DEF ToolLoopInv, LastAreUsers, RefusalsEnd
  <1>4. Runtime' = Runtime
    BY <1>2 DEF Runtime, Groq, Xai, Together, OpenRouter, Leapfrog, Mistral, Gemini, OpenAI
  <1>5. CASE ToolRuns
    <2> DEFINE more == IF Runtime.keepsCalls THEN Append(h, Result) ELSE h
               d == c - 1
    <2>1. d \in 0..MaxCalls /\ c \in Nat /\ c > 0
      BY <1>0, <1>1, <1>5 DEF ToolRuns
    <2>2. more \in Seq(Rows) /\ IF Runtime.keepsCalls THEN WholeBut(more, d) ELSE Whole(more)
      BY <1>1, <1>2, <2>1, ResultJoins
    <2>3. dialogue' = [dialogue EXCEPT !.calls = d, !.history = more]
      BY <1>5 DEF ToolRuns
    <2> HIDE DEF more, d
    <2>4. /\ dialogue' \in Dialogue /\ dialogue'.at = "tools" /\ dialogue'.turn = l
          /\ dialogue'.history = more /\ dialogue'.calls = d
      BY <1>1, <1>2, <2>1, <2>2, <2>3 DEF Dialogue
    <2>5. ToolLoopTypeOK'
      BY <1>2, <2>4 DEF ToolLoopInv, ToolLoopTypeOK, Dialogue
    <2>6. IF Runtime'.keepsCalls THEN WholeBut(dialogue'.history, dialogue'.calls)
          ELSE Whole(dialogue'.history)
      BY <1>4, <2>2, <2>4
    <2> HIDE DEF h, l, c
    <2> QED BY <1>2, <1>3, <2>4, <2>5, <2>6 DEF ToolLoopInv, Whole, WholeBut
  <1>6. CASE TurnEnds
    <2> DEFINE more == IF Runtime.keepsCalls THEN h ELSE h \o <<Text, User>>
               n == l + 1
    <2>1. Whole(more) /\ more \in Seq(Rows)
      <3>1. CASE Runtime.keepsCalls
        <4>1. c = 0
          BY <1>6 DEF TurnEnds
        <4> QED BY <1>1, <1>2, <3>1, <4>1, WholeIsWholeBut
      <3>2. CASE ~Runtime.keepsCalls
        <4>1. Whole(Append(h, Text)) /\ Append(h, Text) \in Seq(Rows)
          BY <1>1, <1>2, <3>2, SaidStaysWhole
        <4>2. Whole(Append(Append(h, Text), User)) /\ Append(Append(h, Text), User) \in Seq(Rows)
          BY <4>1, SaidStaysWhole
        <4>3. h \o <<Text, User>> = Append(Append(h, Text), User)
          <5>1. User \in Rows /\ Text \in Rows
            BY RowTypes
          <5> HIDE DEF h
          <5> QED BY <1>1, <5>1
        <4> QED BY <3>2, <4>2, <4>3
      <3> QED BY <3>1, <3>2
    <2>2. n \in 0..(MaxTurns + 1) /\ n # 1 /\ n >= 1
      BY <1>0, <1>2
    <2>3. dialogue' = [dialogue EXCEPT !.at = "ask", !.turn = n, !.history = more]
      BY <1>6 DEF TurnEnds
    <2> HIDE DEF more, n
    <2>4. dialogue' \in Dialogue /\ dialogue'.at = "ask" /\ dialogue'.turn = n
          /\ dialogue'.history = more
      BY <1>1, <2>1, <2>2, <2>3 DEF Dialogue
    <2>5. ToolLoopTypeOK'
      BY <1>2, <2>4 DEF ToolLoopInv, ToolLoopTypeOK, Dialogue
    <2> QED BY <1>2, <1>3, <2>1, <2>2, <2>4, <2>5 DEF ToolLoopInv, Whole
  <1> QED BY <1>5, <1>6

LEMMA ToolLoopStepInv == ToolLoopInv /\ [ToolLoopNext]_toolLoop => ToolLoopInv'
  <1> SUFFICES ASSUME ToolLoopInv, [ToolLoopNext]_toolLoop PROVE ToolLoopInv'
    OBVIOUS
  <1>1. CASE UNCHANGED toolLoop
    <2>1. UNCHANGED <<vendor, kept, dialogue, late, ended, mentions, refused>>
      BY <1>1 DEF toolLoop
    <2>2. Runtime' = Runtime
      BY <2>1 DEF Runtime, Groq, Xai, Together, OpenRouter, Leapfrog, Mistral, Gemini, OpenAI
    <2>3. ToolLoopTypeOK'
      BY <2>1 DEF ToolLoopInv, ToolLoopTypeOK
    <2> QED BY <2>1, <2>2, <2>3 DEF ToolLoopInv, RefusalsEnd, LastAreUsers
  <1>2. CASE Mentioned \/ CannotStart \/ DialogueTimesOut \/ RunRaisesAway
    BY <1>2, RestKeeps
  <1>3. CASE TurnsUsedUp \/ TurnIsLate \/ StreamBreaks \/ ToolIsLate
    BY <1>3, EndsKeep
  <1>4. ASSUME NEW cause \in Causes, RequestFails(cause) PROVE ToolLoopInv'
    BY <1>4, FailsKeep
  <1>5. CASE StreamOpens \/ StreamEnds \/ \E n \in 1..MaxCalls : StreamCalls(n)
    BY <1>5, StreamsKeep
  <1>6. CASE ToolRuns \/ TurnEnds
    BY <1>6, ToolsKeep
  <1> QED BY <1>1, <1>2, <1>3, <1>4, <1>5, <1>6 DEF ToolLoopNext

LEMMA ToolLoopInvHolds == ToolLoopSpec => []ToolLoopInv
  BY ToolLoopInitInv, ToolLoopStepInv, PTL DEF ToolLoopSpec

(* For every runtime, limit of turns and size of the store: the provider   *)
(* refuses no more mentions of a thread in a row, for the history it is    *)
(* sent, than HistoryStore keeps rows.                                     *)
THEOREM ThreadsRecover == ToolLoopSpec => []RefusalsEnd
  <1>1. ToolLoopInv => RefusalsEnd
    BY DEF ToolLoopInv
  <1> QED BY <1>1, ToolLoopInvHolds, PTL

(* Every variable of a provider's runtime keeps its type; what is kept of  *)
(* a thread stays within the limit, and a run within its turns.            *)
THEOREM ToolLoopTypeCorrect == ToolLoopSpec => []ToolLoopTypeOK
  <1>1. ToolLoopInv => ToolLoopTypeOK
    BY DEF ToolLoopInv
  <1> QED BY <1>1, ToolLoopInvHolds, PTL

-----------------------------------------------------------------------------
(* AdapterTasks                                                            *)

Disconnecting == plugin \in {"offlineToken", "offlinePosts", "offlineAnnounces", "cancelling"}

(* A beat that was not under way when disconnect set its event does not    *)
(* begin any more, so that nothing follows the word that was heard; the    *)
(* loops exist exactly while the plugin is up, or goes down.               *)
BeatsInv ==
    /\ AdapterTasksTypeOK
    /\ plugin \in {"off", "exchanging"} => beat = "off" /\ sse = "off"
    /\ Disconnecting => stopping
    /\ Disconnecting /\ ~beating => beat \notin {"token", "posting"}
    /\ ~beating /\ toldOffline /\ plugin \in {"offlineAnnounces", "cancelling", "off", "exchanging"}
         => online = "offline"
    /\ plugin \in {"connected", "up", "offlineToken", "offlinePosts"} => ~toldOffline

LEMMA BeatsInit == AdapterTasksInit => BeatsInv
  <1> SUFFICES ASSUME AdapterTasksInit PROVE BeatsInv
    OBVIOUS
  <1>1. AdapterTasksTypeOK
    <2>1. revocations \in 0..MaxRevocations
      BY RevocationsAssumption DEF RevocationsAssumption, AdapterTasksInit
    <2>2. stopping \in BOOLEAN /\ toldOffline \in BOOLEAN /\ beating \in BOOLEAN
      BY DEF AdapterTasksInit
    <2> QED BY <2>1, <2>2 DEF AdapterTasksInit, AdapterTasksTypeOK
  <1> QED BY <1>1 DEF AdapterTasksInit, BeatsInv, Disconnecting

LEMMA BeatsStep == BeatsInv /\ [AdapterTasksNext]_adapterTasks => BeatsInv'
  <1> SUFFICES ASSUME BeatsInv, [AdapterTasksNext]_adapterTasks PROVE BeatsInv'
    OBVIOUS
  <1> USE RevocationsAssumption DEF BeatsInv, AdapterTasksTypeOK, Disconnecting, GetsToken,
        HasToken, Exchanges, GetsNone, TellsPlatform, TellsRoster
  <1>1. CASE TokenExpires \/ TokenIsRefused
    BY <1>1 DEF TokenExpires, TokenIsRefused
  <1>2. CASE ConnectBegins \/ ConnectFails \/ ConnectSucceeds \/ ConnectAnnounces
    <2>1. CASE ConnectBegins
      BY <2>1 DEF ConnectBegins
    <2>4. CASE ConnectFails
      BY <2>4 DEF ConnectFails
    <2>2. CASE ConnectSucceeds
      BY <2>2 DEF ConnectSucceeds
    <2>3. CASE ConnectAnnounces
      BY <2>3 DEF ConnectAnnounces
    <2> QED BY <1>2, <2>1, <2>2, <2>3, <2>4
  <1>3. CASE BeatGetsToken \/ BeatPosts \/ BeatAnnounces \/ BeatWaits
    BY <1>3 DEF BeatGetsToken, BeatPosts, BeatAnnounces, BeatWaits
  <1>4. CASE StreamIsOpened \/ EventArrives \/ EventIsDispatched \/ StreamLoop
    BY <1>4 DEF StreamIsOpened, EventArrives, EventIsDispatched, StreamLoop, StreamIsRefused,
                StreamIsLost, BackoffIsOver, LoopStops
  <1>5. CASE DisconnectBegins
    <2>1. CASE beat \in {"token", "posting"}
      <3>1. beating' = TRUE
        BY <1>5, <2>1, Zenon DEF DisconnectBegins
      <3> QED BY <1>5, <3>1 DEF DisconnectBegins
    <2>2. CASE beat \notin {"token", "posting"}
      <3>1. beating' = FALSE
        BY <1>5, <2>2 DEF DisconnectBegins
      <3> QED BY <1>5, <2>2, <3>1 DEF DisconnectBegins
    <2> QED BY <2>1, <2>2
  <1>6. CASE OfflineGetsToken
    BY <1>6 DEF OfflineGetsToken
  <1>7. CASE OfflinePosts
    BY <1>7 DEF OfflinePosts
  <1>8. CASE OfflineAnnounces
    BY <1>8 DEF OfflineAnnounces
  <1>9. CASE DisconnectEnds
    BY <1>9 DEF DisconnectEnds
  <1>10. CASE UNCHANGED adapterTasks
    BY <1>10 DEF adapterTasks
  <1> QED BY <1>1, <1>2, <1>3, <1>4, <1>5, <1>6, <1>7, <1>8, <1>9, <1>10 DEF AdapterTasksNext

LEMMA BeatsInvHolds == AdapterTasksSpec => []BeatsInv
  BY BeatsInit, BeatsStep, PTL DEF AdapterTasksSpec

(* The last word of a disconnect is offline: a platform that heard it      *)
(* hears no later heartbeat, unless one was under way when disconnect was  *)
(* called.                                                                 *)
THEOREM DisconnectHasTheLastWord == AdapterTasksSpec => []OfflineIsLast
  <1>1. BeatsInv => OfflineIsLast
    BY DEF BeatsInv, OfflineIsLast
  <1> QED BY <1>1, BeatsInvHolds, PTL

(* The tasks, the token and what was heard of the plugin keep their types. *)
THEOREM AdapterTasksTypeCorrect == AdapterTasksSpec => []AdapterTasksTypeOK
  <1>1. BeatsInv => AdapterTasksTypeOK
    BY DEF BeatsInv
  <1> QED BY <1>1, BeatsInvHolds, PTL

-----------------------------------------------------------------------------
(* AdapterDispatch                                                         *)

(* A set of threads has one that was mentioned first.                      *)
LEMMA OldestIsOld ==
  ASSUME NEW threads \in SUBSET Threads, threads # {}, NEW when \in [Threads -> Nat]
  PROVE  /\ Oldest(threads, when) \in threads
         /\ \A v \in threads : when[Oldest(threads, when)] <= when[v]
  <1> DEFINE times == {when[v] : v \in threads}
             earlier == OpToRel(<, Nat)
  <1>1. times \subseteq Nat /\ times # {}
    OBVIOUS
  <1>2. PICK n \in times : \A m \in times : <<m, n>> \notin earlier
    <2> HIDE DEF times, earlier
    <2>1. IsWellFoundedOn(earlier, Nat)
      BY NatLessThanWellFounded DEF earlier
    <2> QED BY <1>1, <2>1, WFMin
  <1>3. \A m \in times : n <= m
    <2> TAKE m \in times
    <2>1. m \in Nat /\ n \in Nat
      BY <1>1, <1>2
    <2>2. ~(m < n)
      BY <1>2, <2>1 DEF OpToRel
    <2> QED BY <2>1, <2>2
  <1>4. PICK u \in threads : when[u] = n
    BY <1>2
  <1>5. \A v \in threads : when[u] <= when[v]
    BY <1>3, <1>4
  <1> QED BY <1>5 DEF Oldest

(* What _remember_session makes of a set that has one thread too many.     *)
LEMMA RememberShape ==
  ASSUME NEW threads \in SUBSET Threads, NEW when \in [Threads -> Nat],
         Cardinality(threads) <= MaxRemembered + 1
  PROVE  LET left == Remember(threads, when)
         IN  /\ left \subseteq threads
             /\ Cardinality(left) <= MaxRemembered
             /\ left # threads =>
                  /\ Cardinality(left) = MaxRemembered
                  /\ \E u \in threads : /\ left = threads \ {u}
                                        /\ \A v \in threads : when[u] <= when[v]
  <1>1. IsFiniteSet(threads) /\ Cardinality(threads) \in Nat /\ MaxRemembered \in Nat \ {0}
    BY DispatchAssumption, FS_Subset, FS_CardinalityType DEF DispatchAssumption
  <1>2. CASE Cardinality(threads) > MaxRemembered
    <2> DEFINE u == Oldest(threads, when)
    <2>1. threads # {}
      BY <1>1, <1>2, FS_EmptySet
    <2>2. u \in threads /\ \A v \in threads : when[u] <= when[v]
      BY <2>1, OldestIsOld
    <2>3. Cardinality(threads \ {u}) = Cardinality(threads) - 1
      BY <1>1, <2>2, FS_RemoveElement
    <2>4. Remember(threads, when) = threads \ {u}
      BY <1>2 DEF Remember
    <2> HIDE DEF u
    <2> QED BY <1>1, <1>2, <2>2, <2>3, <2>4
  <1>3. CASE ~(Cardinality(threads) > MaxRemembered)
    BY <1>1, <1>3 DEF Remember
  <1> QED BY <1>2, <1>3

(* A thread that is not remembered gave way to MaxRemembered others, each  *)
(* mentioned after it; whoever has a run, or is on the way to one, was     *)
(* mentioned.                                                              *)
Addressed(t) == mentionedAt[t] > 0

RecentsInv ==
    /\ \A t, u \in Threads : mentionedAt[t] = mentionedAt[u] /\ Addressed(t) => t = u
    /\ \A u \in Threads \ recents : Addressed(u) =>
        /\ Cardinality(recents) = MaxRemembered
        /\ \A v \in recents : mentionedAt[v] > mentionedAt[u]

RunsMentioned ==
    /\ given # NotGiven => given.thread \in Threads /\ Addressed(given.thread)
    /\ \A t \in Threads : sessions[t] # "idle" => Addressed(t)

DispatchInv ==
    /\ DispatchTypeOK /\ RecentsInv /\ RunsMentioned
    /\ RedirectIsUnambiguous /\ NoPhantomSpinner

LEMMA DispatchInitInv == DispatchInit => DispatchInv
  <1> SUFFICES ASSUME DispatchInit PROVE DispatchInv
    OBVIOUS
  <1>1. Cardinality({}) = 0
    BY FS_EmptySet
  <1>2. DispatchTypeOK
    BY <1>1, DispatchAssumption DEF DispatchAssumption, DispatchInit, DispatchTypeOK, NotGiven,
       Given
  <1> QED BY <1>2 DEF DispatchInit, DispatchInv, RecentsInv, RunsMentioned, Addressed,
             RedirectIsUnambiguous, NoPhantomSpinner, NotGiven

LEMMA RemembersKeeps ==
  ASSUME DispatchTypeOK, RecentsInv, NEW t \in Threads, Remembers(t)
  PROVE  /\ recents' \subseteq Threads /\ Cardinality(recents') <= MaxRemembered
         /\ mentionedAt' \in [Threads -> 0..heardSoFar'] /\ heardSoFar' \in 0..MaxHeard
         /\ RecentsInv'
         /\ Addressed(t)' /\ \A u \in Threads : Addressed(u) => Addressed(u)'
  <1> DEFINE threads == recents \cup {t}
             n == heardSoFar + 1
  <1> USE DEF DispatchTypeOK, Addressed
  <1>1. /\ heardSoFar \in Nat /\ MaxHeard \in Nat /\ heardSoFar < MaxHeard /\ heardSoFar' = n
        /\ mentionedAt' = [mentionedAt EXCEPT ![t] = n]
        /\ recents' = Remember(threads, mentionedAt')
    BY DispatchAssumption DEF Remembers, DispatchAssumption
  <1>2. /\ \A u \in Threads : mentionedAt[u] \in 0..heardSoFar
        /\ \A u \in Threads : mentionedAt'[u] = IF u = t THEN n ELSE mentionedAt[u]
    BY <1>1
  <1>3. mentionedAt' \in [Threads -> 0..n] /\ mentionedAt' \in [Threads -> Nat]
    BY <1>1, <1>2
  <1>4. IsFiniteSet(recents) /\ Cardinality(recents) \in Nat /\ MaxRemembered \in Nat \ {0}
    BY DispatchAssumption, FS_Subset, FS_CardinalityType DEF DispatchAssumption
  <1>5. Cardinality(threads) = IF t \in recents THEN Cardinality(recents)
                                                ELSE Cardinality(recents) + 1
    BY <1>4, FS_AddElement
  <1>6. Cardinality(threads) \in Nat /\ Cardinality(threads) <= MaxRemembered + 1
    BY <1>4, <1>5
  <1> HIDE DEF n
  <1>7. /\ recents' \subseteq threads
        /\ Cardinality(recents') <= MaxRemembered
        /\ recents' # threads =>
             /\ Cardinality(recents') = MaxRemembered
             /\ \E u \in threads : /\ recents' = threads \ {u}
                                   /\ \A v \in threads : mentionedAt'[u] <= mentionedAt'[v]
    <2>1. threads \in SUBSET Threads
      OBVIOUS
    <2> HIDE DEF threads
    <2> DEFINE when == mentionedAt'
               left == Remember(threads, when)
    <2>2. when \in [Threads -> Nat] /\ recents' = left
      BY <1>1, <1>3
    <2> HIDE DEF when
    <2>3. /\ left \subseteq threads
          /\ Cardinality(left) <= MaxRemembered
          /\ left # threads =>
               /\ Cardinality(left) = MaxRemembered
               /\ \E u \in threads : left = threads \ {u} /\ \A v \in threads : when[u] <= when[v]
      BY <1>6, <2>1, <2>2, RememberShape
    <2> QED BY <2>2, <2>3 DEF when
  <1>8. n \in Nat /\ n > 0 /\ \A u \in Threads : mentionedAt[u] < n /\ mentionedAt[u] \in Nat
    BY <1>1, <1>2 DEF n
  <1>9. \A u, v \in Threads : mentionedAt'[u] = mentionedAt'[v] /\ mentionedAt'[u] > 0 => u = v
    BY <1>2, <1>8 DEF RecentsInv
  <1>10. ASSUME NEW u \in Threads \ recents', mentionedAt'[u] > 0
         PROVE  /\ Cardinality(recents') = MaxRemembered
                /\ \A v \in recents' : mentionedAt'[v] > mentionedAt'[u]
    <2>1. CASE recents' # threads /\ u \in threads
      <3>1. PICK w \in threads : /\ recents' = threads \ {w}
                                 /\ \A v \in threads : mentionedAt'[w] <= mentionedAt'[v]
        BY <1>7, <2>1
      <3>2. w = u
        BY <1>10, <2>1, <3>1
      <3>3. ASSUME NEW v \in recents' PROVE mentionedAt'[v] > mentionedAt'[u]
        <4>1. v \in Threads /\ v # u /\ mentionedAt'[u] <= mentionedAt'[v]
          BY <3>1, <3>2
        <4>2. mentionedAt'[u] # mentionedAt'[v]
          BY <1>9, <1>10, <4>1
        <4> QED BY <1>2, <1>8, <4>1, <4>2
      <3> QED BY <1>7, <2>1, <3>3
    <2>2. CASE u \notin threads
      <3>1. /\ u \in Threads \ recents /\ u # t /\ mentionedAt'[u] = mentionedAt[u]
        BY <1>2, <2>2
      <3>2. /\ Cardinality(recents) = MaxRemembered
            /\ \A v \in recents : mentionedAt[v] > mentionedAt[u]
        BY <1>10, <3>1 DEF RecentsInv
      <3>3. \A v \in threads : mentionedAt'[v] > mentionedAt'[u]
        BY <1>2, <1>8, <3>1, <3>2
      <3>4. CASE recents' # threads
        BY <1>7, <3>3, <3>4
      <3>5. CASE recents' = threads
        <4>1. Cardinality(threads) = Cardinality(recents)
          BY <1>4, <1>5, <1>7, <3>2, <3>5
        <4> QED BY <3>2, <3>3, <3>5, <4>1
      <3> QED BY <3>4, <3>5
    <2>3. CASE recents' = threads /\ u \in threads
      BY <1>10, <2>3
    <2> QED BY <2>1, <2>2, <2>3
  <1>11. RecentsInv'
    BY <1>9, <1>10 DEF RecentsInv
  <1>12. Addressed(t)' /\ \A u \in Threads : Addressed(u) => Addressed(u)'
    BY <1>2, <1>8
  <1>13. recents' \subseteq Threads /\ heardSoFar' \in 0..MaxHeard
    <2>1. recents' \subseteq Threads
      BY <1>7
    <2>2. n \in 0..MaxHeard
      BY <1>1 DEF n
    <2> QED BY <1>1, <2>1, <2>2
  <1> QED BY <1>1, <1>3, <1>7, <1>11, <1>12, <1>13

(* An approval that leaves its own session finds one session that waits    *)
(* among those remembered: any other that waits is not remembered.         *)
LEMMA PassedOverIsForgotten ==
  ASSUME DispatchInv, NEW t \in Threads, ApprovalTarget(t) # t,
         NEW u \in Blocked \ {ApprovalTarget(t)}
  PROVE  /\ Cardinality(MentionedSince(u)) \in Nat
         /\ Cardinality(MentionedSince(u)) >= MaxRemembered
  <1> DEFINE waits == (recents \ {t}) \cap Blocked
  <1> USE DEF DispatchInv, DispatchTypeOK
  <1>1. t \notin Blocked /\ Cardinality(waits) = 1 /\ ApprovalTarget(t) \in waits
    <2>1. t \notin Blocked /\ Cardinality(waits) = 1
                           /\ ApprovalTarget(t) = CHOOSE v \in waits : TRUE
      BY DEF ApprovalTarget
    <2>2. waits # {}
      <3> SUFFICES ASSUME waits = {} PROVE FALSE
        OBVIOUS
      <3>1. Cardinality(waits) = 0
        BY FS_EmptySet
      <3> QED BY <2>1, <3>1
    <2> QED BY <2>1, <2>2
  <1>2. IsFiniteSet(Threads) /\ recents \subseteq Threads
    BY DispatchAssumption DEF DispatchAssumption
  <1>3. u \notin recents
    <2>1. waits \subseteq Threads
      BY <1>2
    <2>2. IsFiniteSet(waits)
      BY <1>2, <2>1, FS_Subset
    <2>3. waits = {ApprovalTarget(t)}
      <3> HIDE DEF waits
      <3>1. PICK x : waits = {x}
        BY <1>1, <2>2, FS_Singleton
      <3> QED BY <1>1, <3>1
    <2> QED BY <1>1, <2>3 DEF Blocked
  <1>4. u \in Threads /\ Addressed(u)
    BY DEF Blocked, RunsMentioned
  <1>5. /\ Cardinality(recents) = MaxRemembered
        /\ \A v \in recents : mentionedAt[v] > mentionedAt[u]
    BY <1>3, <1>4 DEF RecentsInv
  <1>6. recents \subseteq MentionedSince(u) /\ MentionedSince(u) \subseteq Threads
    BY <1>2, <1>5 DEF MentionedSince
  <1>7. /\ IsFiniteSet(MentionedSince(u))
        /\ Cardinality(recents) <= Cardinality(MentionedSince(u))
    BY <1>2, <1>6, FS_Subset
  <1>8. Cardinality(MentionedSince(u)) \in Nat
    BY <1>7, FS_CardinalityType
  <1> QED BY <1>5, <1>7, <1>8

(* The adapter's steps.                                                    *)
LEMMA HearsKeeps ==
  ASSUME DispatchInv, NEW t \in Threads, HearsMention(t) \/ HearsCommand(t)
  PROVE  DispatchInv'
  <1>1. Remembers(t) /\ (given' = Given("announcing", t) \/ UNCHANGED given)
    BY DEF HearsMention, HearsCommand
  <1>2. /\ recents' \subseteq Threads /\ Cardinality(recents') <= MaxRemembered
        /\ mentionedAt' \in [Threads -> 0..heardSoFar'] /\ heardSoFar' \in 0..MaxHeard
        /\ RecentsInv'
        /\ Addressed(t)' /\ \A u \in Threads : Addressed(u) => Addressed(u)'
    BY <1>1, RemembersKeeps DEF DispatchInv
  <1>3. UNCHANGED <<sessions, waitingFor, bubbles, passedOver, lostBubbles>> /\ given = NotGiven
    BY <1>1 DEF Remembers
  <1>4. DispatchTypeOK'
    BY <1>1, <1>2, <1>3 DEF DispatchInv, DispatchTypeOK, Given
  <1>5. RunsMentioned'
    BY <1>1, <1>2, <1>3 DEF DispatchInv, RunsMentioned, Given
  <1>6. NoPhantomSpinner'
    <2>1. NoThread \notin Threads
      BY DispatchAssumption DEF DispatchAssumption
    <2> QED BY <1>1, <1>3, <2>1 DEF DispatchInv, DispatchTypeOK, NoPhantomSpinner, NotGiven, Given
  <1>7. RedirectIsUnambiguous'
    BY <1>3 DEF DispatchInv, RedirectIsUnambiguous
  <1> QED BY <1>2, <1>4, <1>5, <1>6, <1>7 DEF DispatchInv

LEMMA ApprovalKeeps ==
  ASSUME DispatchInv, NEW t \in Threads, HearsApproval(t)
  PROVE  DispatchInv'
  <1> DEFINE target == ApprovalTarget(t)
             counts == {Cardinality(MentionedSince(u)) : u \in Blocked \ {target}}
  <1>1. /\ heardSoFar < MaxHeard /\ heardSoFar' = heardSoFar + 1
        /\ sessions' = IF target \in Blocked
                       THEN [sessions EXCEPT ![target] = "running"] ELSE sessions
        /\ passedOver' = IF target # t THEN passedOver \cup counts ELSE passedOver
        /\ UNCHANGED <<given, recents, mentionedAt, waitingFor, bubbles, lostBubbles>>
    BY DEF HearsApproval
  <1>2. target # t => counts \subseteq Nat /\ \A n \in counts : n >= MaxRemembered
    BY PassedOverIsForgotten
  <1> HIDE DEF target, counts
  <1>3. /\ sessions' \in [Threads -> {"idle", "running", "blocked"}]
        /\ \A u \in Threads : sessions'[u] = "idle" <=> sessions[u] = "idle"
    BY <1>1 DEF DispatchInv, DispatchTypeOK, Blocked
  <1>4. heardSoFar' \in 0..MaxHeard /\ mentionedAt' \in [Threads -> 0..heardSoFar']
    <2>1. heardSoFar \in Nat /\ MaxHeard \in Nat
      BY DispatchAssumption DEF DispatchAssumption, DispatchInv, DispatchTypeOK
    <2> QED BY <1>1, <2>1 DEF DispatchInv, DispatchTypeOK
  <1>5. passedOver' \subseteq Nat /\ RedirectIsUnambiguous'
    BY <1>1, <1>2 DEF DispatchInv, DispatchTypeOK, RedirectIsUnambiguous
  <1>6. DispatchTypeOK'
    BY <1>1, <1>3, <1>4, <1>5 DEF DispatchInv, DispatchTypeOK
  <1>7. RecentsInv' /\ RunsMentioned' /\ NoPhantomSpinner'
    BY <1>1, <1>3 DEF DispatchInv, RecentsInv, RunsMentioned, NoPhantomSpinner, Addressed,
       NotGiven, DispatchTypeOK
  <1> QED BY <1>5, <1>6, <1>7 DEF DispatchInv

LEMMA DispatchesKeep ==
  ASSUME DispatchInv, AnnouncesThinking \/ HandsToHermes \/ DispatchIsCancelled
  PROVE  DispatchInv'
  <1> USE DEF DispatchInv
  <1>1. given # NotGiven
    BY DEF AnnouncesThinking, HandsToHermes, DispatchIsCancelled, NotGiven, Given
  <1>2. given.thread \in Threads /\ Addressed(given.thread) /\ NoThread \notin Threads
    BY <1>1, DispatchAssumption DEF RunsMentioned, DispatchAssumption
  <1>3. UNCHANGED <<recents, mentionedAt, heardSoFar, passedOver>>
    BY DEF AnnouncesThinking, HandsToHermes, DispatchIsCancelled
  <1>4. DispatchTypeOK'
    BY <1>2, <1>3 DEF DispatchTypeOK, AnnouncesThinking, HandsToHermes, DispatchIsCancelled,
       NotGiven, Given
  <1>5. RecentsInv' /\ RedirectIsUnambiguous'
    BY <1>3 DEF RecentsInv, RedirectIsUnambiguous, Addressed
  <1>6. RunsMentioned'
    BY <1>2, <1>3 DEF RunsMentioned, Addressed, DispatchTypeOK, AnnouncesThinking, HandsToHermes,
       DispatchIsCancelled, NotGiven, Given
  <1>7. NoPhantomSpinner'
    <2>1. CASE AnnouncesThinking
      BY <1>2, <2>1 DEF AnnouncesThinking, NoPhantomSpinner, DispatchTypeOK, Given
    <2>2. CASE HandsToHermes
      BY <1>2, <2>2 DEF HandsToHermes, NoPhantomSpinner, DispatchTypeOK, NotGiven, Given
    <2>3. CASE DispatchIsCancelled
      BY <1>2, <2>3 DEF DispatchIsCancelled, NoPhantomSpinner, DispatchTypeOK, NotGiven, Given
    <2> QED BY <2>1, <2>2, <2>3
  <1> QED BY <1>4, <1>5, <1>6, <1>7

(* Hermes's steps.                                                         *)
LEMMA SessionsKeep ==
  ASSUME DispatchInv, NEW t \in Threads,
         \/ SessionBlocks(t) \/ PromptExpires(t)
         \/ SessionTypes(t) \/ ReplyIsRefused(t) \/ SessionEnds(t)
  PROVE  DispatchInv'
  <1> USE DEF DispatchInv, SessionBlocks, PromptExpires, SessionTypes, ReplyIsRefused, SessionEnds
  <1>1. UNCHANGED <<given, recents, mentionedAt, heardSoFar, passedOver>>
    OBVIOUS
  <1>2. sessions[t] # "idle" /\ \A u \in Threads \ {t} : sessions'[u] = sessions[u]
    BY DEF DispatchTypeOK
  <1>3. DispatchTypeOK'
    BY <1>1 DEF DispatchTypeOK
  <1>4. RecentsInv' /\ RedirectIsUnambiguous' /\ RunsMentioned'
    BY <1>1, <1>2 DEF RecentsInv, RedirectIsUnambiguous, RunsMentioned, Addressed, NotGiven
  <1>5. NoPhantomSpinner'
    <2>1. CASE SessionBlocks(t) \/ PromptExpires(t) \/ SessionTypes(t)
      BY <1>1, <1>2, <2>1 DEF NoPhantomSpinner, DispatchTypeOK
    <2>2. CASE ReplyIsRefused(t)
      BY <1>1, <2>2 DEF NoPhantomSpinner, DispatchTypeOK
    <2>3. CASE SessionEnds(t)
      BY <1>1, <1>2, <2>3 DEF NoPhantomSpinner, DispatchTypeOK
    <2> QED BY <2>1, <2>2, <2>3
  <1> QED BY <1>3, <1>4, <1>5

LEMMA DispatchStepInv == DispatchInv /\ [DispatchNext]_dispatch => DispatchInv'
  <1> SUFFICES ASSUME DispatchInv, [DispatchNext]_dispatch PROVE DispatchInv'
    OBVIOUS
  <1>1. CASE UNCHANGED dispatch
    BY <1>1 DEF dispatch, DispatchInv, DispatchTypeOK, RecentsInv, RunsMentioned, Addressed,
       RedirectIsUnambiguous, NoPhantomSpinner, NotGiven
  <1> QED BY <1>1, HearsKeeps, ApprovalKeeps, DispatchesKeep, SessionsKeep DEF DispatchNext

LEMMA DispatchInvHolds == DispatchSpec => []DispatchInv
  BY DispatchInitInv, DispatchStepInv, PTL DEF DispatchSpec

(* An approval is turned to another session's prompt past a second one     *)
(* only when MaxRemembered other threads were mentioned since the second's.*)
THEOREM RedirectsAreUnambiguous == DispatchSpec => []RedirectIsUnambiguous
  <1>1. DispatchInv => RedirectIsUnambiguous
    BY DEF DispatchInv
  <1> QED BY <1>1, DispatchInvHolds, PTL

(* A thread that is shown thinking has a run, or a mention on its way to   *)
(* one, unless a status was lost or disconnect fell between the two.       *)
THEOREM SpinnersAreReal == DispatchSpec => []NoPhantomSpinner
  <1>1. DispatchInv => NoPhantomSpinner
    BY DEF DispatchInv
  <1> QED BY <1>1, DispatchInvHolds, PTL

(* The sessions, the threads remembered, no more than MaxRemembered, and   *)
(* the bubbles keep their types.                                           *)
THEOREM DispatchTypeCorrect == DispatchSpec => []DispatchTypeOK
  <1>1. DispatchInv => DispatchTypeOK
    BY DEF DispatchInv
  <1> QED BY <1>1, DispatchInvHolds, PTL
=============================================================================
