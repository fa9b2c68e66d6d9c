---------------------- MODULE ManagedAgentRuntimeProofs ----------------------
(***************************************************************************)
(* Proofs about ManagedAgentRuntime for any messages and any capacity of   *)
(* the queue: wherever a message is, in the hands of the listener, on the  *)
(* queue or in those of the worker, it is there alone, and what may still  *)
(* be posted about it has not been posted.                                 *)
(***************************************************************************)
EXTENDS ManagedAgentRuntime, SequenceTheorems, FiniteSetTheorems, TLAPS

Holding == {"starting", "handling", "replying", "closing", "failing"}

(* A message is in one place, and in none before it was received.          *)
InOnePlace ==
    /\ lpc \in {"claiming", "claimed"} => lmsg \in seen
    /\ lpc \notin {"claiming", "claimed"} => lmsg = NoMessage
    /\ wpc \in Holding => wmsg \in seen /\ ~Queued(wmsg)
    /\ wpc \notin Holding => wmsg = NoMessage
    /\ lpc = "claiming" => lmsg # wmsg /\ ~Queued(lmsg)
    /\ \A m \in Messages \ seen : ~Queued(m)
    /\ \A i, j \in 1..Len(queue) : queue[i] = queue[j] /\ queue[i] \in Messages => i = j

(* What was posted about the messages under way.                           *)
Unworked(m) == \A status \in Statuses : Posted(m, status) => status = "started"

PostsInOrder ==
    /\ \A m \in Messages \ seen : posts[m] = <<>>
    /\ lpc = "claiming" => posts[lmsg] = <<>>
    /\ \A m \in Messages : Queued(m) => Unworked(m)

(* What the worker has yet to post about its message is not posted.        *)
WorkInOrder ==
    /\ wpc = "starting" => Unworked(wmsg)
    /\ wpc \in {"handling", "replying"} => ~Posted(wmsg, "reply")
    /\ wpc \in Holding => ~Posted(wmsg, "error")
    /\ wpc \in {"handling", "replying", "closing"} /\ Posted(wmsg, "completed")
         => wmsg \in completedSeen
    /\ wpc = "handling" /\ Posted(wmsg, "no_reply") => wmsg \in noReplySeen
    /\ wpc = "replying" => ~Posted(wmsg, "no_reply")

DroppedIsGone ==
    \A m \in Messages : Posted(m, "dropped") =>
        Len(posts[m]) = 1 /\ m # lmsg /\ m # wmsg /\ ~Queued(m)

(* AnsweredOnce without Cardinality.                                       *)
OnceIn(p) == \A status \in {"reply", "completed", "error"} :
    \A i, j \in 1..Len(p) : p[i] = status /\ p[j] = status => i = j

FinalIn(p) == \A i, j \in 1..Len(p) :
    p[i] = "no_reply" /\ i < j => p[j] \notin {"reply", "processing"}

HistorySound == \A m \in Messages : OnceIn(posts[m]) /\ FinalIn(posts[m])

RuntimeInv ==
    TypeOK /\ InOnePlace /\ PostsInOrder /\ WorkInOrder /\ DroppedIsGone /\ HistorySound

-----------------------------------------------------------------------------
(* Posts                                                                   *)

LEMMA AppendedPosts ==
  ASSUME NEW p \in Seq(Statuses), NEW s \in Statuses
  PROVE  /\ Append(p, s) \in Seq(Statuses)
         /\ Len(Append(p, s)) = Len(p) + 1
         /\ Len(p) \in Nat
         /\ \A i \in 1..Len(p) : Append(p, s)[i] = p[i]
         /\ Append(p, s)[Len(p) + 1] = s
  BY AppendProperties, LenProperties

LEMMA AppendedOnce ==
  ASSUME NEW p \in Seq(Statuses), NEW s \in Statuses, OnceIn(p),
         s \in {"reply", "completed", "error"} => \A i \in 1..Len(p) : p[i] # s
  PROVE  OnceIn(Append(p, s))
  <1> SUFFICES ASSUME NEW t \in {"reply", "completed", "error"},
                      NEW i \in 1..Len(Append(p, s)), NEW j \in 1..Len(Append(p, s)),
                      Append(p, s)[i] = t, Append(p, s)[j] = t
               PROVE  i = j
    BY DEF OnceIn
  <1>1. \A k \in 1..Len(Append(p, s)) : k \in 1..Len(p) \/ k = Len(p) + 1
    BY AppendedPosts
  <1>2. CASE i \in 1..Len(p) /\ j \in 1..Len(p)
    BY <1>2, AppendedPosts DEF OnceIn
  <1>3. CASE i = Len(p) + 1 /\ j = Len(p) + 1
    BY <1>3
  <1>4. CASE i \in 1..Len(p) /\ j = Len(p) + 1
    BY <1>4, AppendedPosts
  <1>5. CASE i = Len(p) + 1 /\ j \in 1..Len(p)
    BY <1>5, AppendedPosts
  <1> QED BY <1>1, <1>2, <1>3, <1>4, <1>5

LEMMA AppendedFinal ==
  ASSUME NEW p \in Seq(Statuses), NEW s \in Statuses, FinalIn(p),
         s \in {"reply", "processing"} => \A i \in 1..Len(p) : p[i] # "no_reply"
  PROVE  FinalIn(Append(p, s))
  <1> SUFFICES ASSUME NEW i \in 1..Len(Append(p, s)), NEW j \in 1..Len(Append(p, s)),
                      Append(p, s)[i] = "no_reply", i < j
               PROVE  Append(p, s)[j] \notin {"reply", "processing"}
    BY DEF FinalIn
  <1>1. i \in 1..Len(p) /\ (j \in 1..Len(p) \/ j = Len(p) + 1)
    BY AppendedPosts
  <1>2. CASE j \in 1..Len(p)
    BY <1>1, <1>2, AppendedPosts DEF FinalIn
  <1>3. CASE j = Len(p) + 1
    BY <1>1, <1>3, AppendedPosts
  <1> QED BY <1>1, <1>2, <1>3

(* One post about m, as what it makes of every later statement.            *)
PostsAbout(m, s) == posts' = [posts EXCEPT ![m] = Append(@, s)]

LEMMA PostedThen ==
  ASSUME TypeOK, NEW m \in Messages, NEW s \in Statuses, PostsAbout(m, s)
  PROVE  /\ posts' \in [Messages -> Seq(Statuses)]
         /\ \A n \in Messages \ {m} : posts'[n] = posts[n]
         /\ \A n \in Messages, t \in Statuses :
              Posted(n, t)' <=> (Posted(n, t) \/ (n = m /\ t = s))
         /\ Len(posts'[m]) = Len(posts[m]) + 1
         /\ Len(posts[m]) \in Nat
  <1>1. posts[m] \in Seq(Statuses) /\ posts \in [Messages -> Seq(Statuses)]
    BY DEF TypeOK
  <1>2. posts'[m] = Append(posts[m], s)
    BY <1>1 DEF PostsAbout
  <1>3. /\ posts' \in [Messages -> Seq(Statuses)]
        /\ \A n \in Messages \ {m} : posts'[n] = posts[n]
    BY <1>1, AppendedPosts DEF PostsAbout
  <1>4. Len(posts'[m]) = Len(posts[m]) + 1 /\ Len(posts[m]) \in Nat
    BY <1>1, <1>2, AppendedPosts
  <1>5. ASSUME NEW t \in Statuses
        PROVE  Posted(m, t)' <=> (Posted(m, t) \/ t = s)
    <2>1. Posted(m, t)' <=> \E i \in 1..Len(posts[m]) + 1 : posts'[m][i] = t
      BY <1>4 DEF Posted
    <2>2. \A i \in 1..Len(posts[m]) : posts'[m][i] = posts[m][i]
      BY <1>1, <1>2, AppendedPosts
    <2>3. posts'[m][Len(posts[m]) + 1] = s
      BY <1>1, <1>2, AppendedPosts
    <2>4. \A i \in 1..Len(posts[m]) + 1 : i \in 1..Len(posts[m]) \/ i = Len(posts[m]) + 1
      BY <1>4
    <2>5. \A i \in 1..Len(posts[m]) : i \in 1..Len(posts[m]) + 1
      BY <1>4
    <2>6. Len(posts[m]) + 1 \in 1..Len(posts[m]) + 1
      BY <1>4
    <2> QED BY <2>1, <2>2, <2>3, <2>4, <2>5, <2>6 DEF Posted
  <1>6. \A n \in Messages \ {m}, t \in Statuses : Posted(n, t)' <=> Posted(n, t)
    BY <1>3 DEF Posted
  <1> QED BY <1>3, <1>4, <1>5, <1>6

LEMMA PostKeepsHistory ==
  ASSUME TypeOK, HistorySound, NEW m \in Messages, NEW s \in Statuses, PostsAbout(m, s),
         s \in {"reply", "completed", "error"} => ~Posted(m, s),
         s \in {"reply", "processing"} => ~Posted(m, "no_reply")
  PROVE  HistorySound'
  <1>1. posts[m] \in Seq(Statuses) /\ posts \in [Messages -> Seq(Statuses)]
    BY DEF TypeOK
  <1>2. posts'[m] = Append(posts[m], s) /\ \A n \in Messages \ {m} : posts'[n] = posts[n]
    BY <1>1 DEF PostsAbout
  <1>3. OnceIn(Append(posts[m], s))
    BY <1>1, AppendedOnce DEF Posted, HistorySound
  <1>4. FinalIn(Append(posts[m], s))
    BY <1>1, AppendedFinal DEF Posted, HistorySound
  <1>5. \A n \in Messages : OnceIn(posts'[n]) /\ FinalIn(posts'[n])
    BY <1>2, <1>3, <1>4 DEF HistorySound
  <1> QED BY <1>5 DEF HistorySound, OnceIn, FinalIn

-----------------------------------------------------------------------------
(* The queue                                                               *)

Elements == Messages \cup {StopMark}

Distinct(q) == \A i, j \in 1..Len(q) : q[i] = q[j] /\ q[i] \in Messages => i = j

LEMMA AppendedQueue ==
  ASSUME NEW q \in Seq(Elements), NEW e \in Elements
  PROVE  /\ Append(q, e) \in Seq(Elements)
         /\ Len(q) \in Nat
         /\ Len(Append(q, e)) = Len(q) + 1
         /\ \A n : (\E i \in 1..Len(Append(q, e)) : Append(q, e)[i] = n)
                   <=> (n = e \/ \E i \in 1..Len(q) : q[i] = n)
  <1>1. /\ Append(q, e) \in Seq(Elements)
        /\ Len(q) \in Nat
        /\ Len(Append(q, e)) = Len(q) + 1
        /\ \A i \in 1..Len(q) : Append(q, e)[i] = q[i]
        /\ Append(q, e)[Len(q) + 1] = e
    BY AppendProperties, LenProperties
  <1>2. \A i \in 1..Len(q) + 1 : i \in 1..Len(q) \/ i = Len(q) + 1
    BY <1>1
  <1>3. /\ \A i \in 1..Len(q) : i \in 1..Len(q) + 1
        /\ Len(q) + 1 \in 1..Len(q) + 1
    BY <1>1
  <1> QED BY <1>1, <1>2, <1>3

LEMMA AppendedDistinct ==
  ASSUME NEW q \in Seq(Elements), NEW e \in Elements, Distinct(q),
         e \in Messages => \A i \in 1..Len(q) : q[i] # e
  PROVE  Distinct(Append(q, e))
  <1>1. /\ Len(q) \in Nat
        /\ Len(Append(q, e)) = Len(q) + 1
        /\ \A i \in 1..Len(q) : Append(q, e)[i] = q[i]
        /\ Append(q, e)[Len(q) + 1] = e
    BY AppendProperties, LenProperties
  <1>2. \A i \in 1..Len(q) + 1 : i \in 1..Len(q) \/ i = Len(q) + 1
    BY <1>1
  <1> QED BY <1>1, <1>2 DEF Distinct

LEMMA TakenQueue ==
  ASSUME NEW q \in Seq(Elements), q # <<>>
  PROVE  /\ Head(q) \in Elements
         /\ Tail(q) \in Seq(Elements)
         /\ Len(q) \in Nat
         /\ Len(Tail(q)) = Len(q) - 1
         /\ Len(q) >= 1
         /\ Head(q) = q[1]
         /\ \A i \in 1..Len(Tail(q)) : i + 1 \in 1..Len(q) /\ Tail(q)[i] = q[i + 1]
  <1>1. /\ Head(q) \in Elements
        /\ Tail(q) \in Seq(Elements)
        /\ Len(q) \in Nat
        /\ Len(Tail(q)) = Len(q) - 1
        /\ \A i \in 1..Len(Tail(q)) : Tail(q)[i] = q[i + 1]
    BY HeadTailProperties, LenProperties
  <1>2. Len(q) >= 1
    BY <1>1, EmptySeq
  <1>3. Head(q) = q[1]
    OBVIOUS
  <1>4. \A i \in 1..Len(Tail(q)) : i + 1 \in 1..Len(q)
    BY <1>1, <1>2
  <1> QED BY <1>1, <1>2, <1>3, <1>4

LEMMA TakenDistinct ==
  ASSUME NEW q \in Seq(Elements), q # <<>>, Distinct(q)
  PROVE  /\ Distinct(Tail(q))
         /\ \A n : (\E i \in 1..Len(Tail(q)) : Tail(q)[i] = n) => \E i \in 1..Len(q) : q[i] = n
         /\ Head(q) \in Messages => \A i \in 1..Len(Tail(q)) : Tail(q)[i] # Head(q)
  <1>1. \A i \in 1..Len(Tail(q)) : /\ i \in Nat /\ i >= 1
                                  /\ i + 1 \in 1..Len(q) /\ Tail(q)[i] = q[i + 1]
    BY TakenQueue
  <1>2. 1 \in 1..Len(q) /\ Head(q) = q[1]
    BY TakenQueue
  <1>3. Distinct(Tail(q))
    <2> SUFFICES ASSUME NEW i \in 1..Len(Tail(q)), NEW j \in 1..Len(Tail(q)),
                        Tail(q)[i] = Tail(q)[j], Tail(q)[i] \in Messages
                 PROVE  i = j
      BY DEF Distinct
    <2>1. i + 1 = j + 1
      BY <1>1 DEF Distinct
    <2> QED BY <1>1, <2>1
  <1>4. Head(q) \in Messages => \A i \in 1..Len(Tail(q)) : Tail(q)[i] # Head(q)
    <2> SUFFICES ASSUME Head(q) \in Messages, NEW i \in 1..Len(Tail(q)), Tail(q)[i] = Head(q)
                 PROVE  FALSE
      OBVIOUS
    <2>1. i + 1 = 1
      BY <1>1, <1>2 DEF Distinct
    <2> QED BY <1>1, <2>1
  <1> QED BY <1>1, <1>3, <1>4

-----------------------------------------------------------------------------
(* Types                                                                   *)

LEMMA TypeInit == Init => TypeOK
  <1>1. <<>> \in Seq(Elements) /\ Len(<<>>) = 0 /\ <<>> \in Seq(Statuses)
    BY EmptySeq
  <1>2. ASSUME Init
        PROVE  /\ queue \in Seq(Messages \cup {StopMark}) /\ Len(queue) <= QueueSize
               /\ posts \in [Messages -> Seq(Statuses)]
               /\ blank \subseteq Messages
               /\ outcome \in [text : BOOLEAN, declined : BOOLEAN]
    BY <1>1, <1>2, QueueAssumption DEF Init, NoOutcome, Elements
  <1> QED BY <1>2 DEF Init, TypeOK

LEMMA TypePublish ==
  ASSUME TypeOK, NEW m \in Messages, NEW s \in Statuses, Publish(m, s)
  PROVE  sendClient' \in BOOLEAN /\ posts' \in [Messages -> Seq(Statuses)] /\ PostsAbout(m, s)
  BY PostedThen DEF Publish, PostsAbout

(* The message in hand, where there is one.                                *)
LEMMA InHand ==
  ASSUME TypeOK, InOnePlace
  PROVE  /\ lpc \in {"claiming", "claimed"} => lmsg \in Messages
         /\ wpc \in Holding => wmsg \in Messages
  BY DEF TypeOK, InOnePlace

LEMMA TypeStep == TypeOK /\ InOnePlace /\ [Next]_vars => TypeOK'
  <1> SUFFICES ASSUME TypeOK, InOnePlace, [Next]_vars PROVE TypeOK'
    OBVIOUS
  <1> USE DEF TypeOK, listenerVars, workerVars, marks, NoOutcome, BackToStream, NextMessage
  <1>q. queue \in Seq(Elements) /\ Len(queue) \in Nat /\ QueueSize \in Nat
    BY LenProperties, QueueAssumption DEF Elements
  <1>m. \A s \in {"started", "dropped", "processing", "completed", "no_reply", "reply", "error"} :
           s \in Statuses
    BY DEF Statuses
  <1>1. CASE ListenerTop BY <1>1 DEF ListenerTop
  <1>2. CASE Dial BY <1>2 DEF Dial
  <1>3. CASE DialFails BY <1>3 DEF DialFails, AfterError
  <1>4. CASE StreamEnds BY <1>4 DEF StreamEnds, AfterError
  <1>5. ASSUME NEW m \in Messages, Receive(m) PROVE TypeOK'
    BY <1>5 DEF Receive
  <1>6. CASE Enqueue
    <2>1. lmsg \in Elements BY <1>6, InHand DEF Enqueue, Elements
    <2>2. queue' \in Seq(Messages \cup {StopMark}) /\ Len(queue') <= QueueSize
      BY <1>6, <1>q, <2>1, AppendedQueue DEF Enqueue, Elements
    <2> QED BY <1>6, <2>2 DEF Enqueue
  <1>7. CASE Announce BY <1>7, <1>m, InHand, TypePublish DEF Announce
  <1>8. CASE Drop BY <1>8, <1>m, InHand, TypePublish DEF Drop
  <1>9. CASE WorkerTop BY <1>9 DEF WorkerTop
  <1>10. CASE GetNothing BY <1>10 DEF GetNothing
  <1>11. CASE Get
    <2>1. /\ queue' \in Seq(Messages \cup {StopMark}) /\ Len(queue') <= QueueSize
          /\ Head(queue) \in Messages \cup {StopMark}
      BY <1>11, <1>q, TakenQueue DEF Get, Elements
    <2> QED BY <1>11, <2>1 DEF Get
  <1>12. CASE Prepare BY <1>12, <1>m, InHand, TypePublish DEF Prepare, Holding
  <1>13. CASE BridgeCompletes BY <1>13, <1>m, InHand, TypePublish DEF BridgeCompletes, Holding
  <1>14. CASE BridgeDeclines BY <1>14, <1>m, InHand, TypePublish DEF BridgeDeclines, Holding
  <1>15. CASE HandlerReturns BY <1>15 DEF HandlerReturns
  <1>16. CASE HandlerFails BY <1>16 DEF HandlerFails
  <1>17. CASE Reply
    BY <1>17, <1>m, InHand, PostedThen DEF Reply, Holding, PostsAbout
  <1>18. CASE ReplyFails BY <1>18 DEF ReplyFails
  <1>19. CASE Close BY <1>19, <1>m, InHand, TypePublish DEF Close, Holding
  <1>20. CASE Fail BY <1>20, <1>m, InHand, TypePublish DEF Fail, Holding
  <1>21. CASE Stop
    <2>1. queue' \in Seq(Messages \cup {StopMark}) /\ Len(queue') <= QueueSize
      BY <1>21, <1>q, AppendedQueue DEF Stop, Elements
    <2> QED BY <1>21, <2>1 DEF Stop
  <1>22. CASE StopReturns BY <1>22 DEF StopReturns
  <1>23. CASE UNCHANGED vars BY <1>23 DEF vars
  <1> QED
    BY <1>1, <1>2, <1>3, <1>4, <1>5, <1>6, <1>7, <1>8, <1>9, <1>10, <1>11, <1>12, <1>13,
       <1>14, <1>15, <1>16, <1>17, <1>18, <1>19, <1>20, <1>21, <1>22, <1>23
    DEF Next, Listener, Worker, Discarded

-----------------------------------------------------------------------------
(* Places                                                                  *)

LEMMA PlaceInit == Init => InOnePlace
  <1>1. ASSUME Init PROVE \A m : ~Queued(m)
    BY <1>1, EmptySeq DEF Init, Queued
  <1>2. ASSUME Init PROVE \A i, j \in 1..Len(queue) : queue[i] = queue[j] => i = j
    BY <1>2, EmptySeq DEF Init
  <1> QED BY <1>1, <1>2 DEF Init, InOnePlace, Holding

(* What a step does to the queue, as what it does to Queued and Distinct.  *)
LEMMA QueueKept ==
  ASSUME queue' = queue
  PROVE  /\ \A m : Queued(m)' <=> Queued(m)
         /\ Distinct(queue') <=> Distinct(queue)
  BY DEF Queued

LEMMA QueueGrows ==
  ASSUME TypeOK, InOnePlace, NEW e \in Elements, queue' = Append(queue, e),
         e \in Messages => ~Queued(e)
  PROVE  /\ \A m : Queued(m)' <=> (Queued(m) \/ m = e)
         /\ Distinct(queue')
  <1>1. queue \in Seq(Elements) /\ Distinct(queue)
    BY DEF TypeOK, InOnePlace, Elements, Distinct
  <1>2. \A m : Queued(m)' <=> (Queued(m) \/ m = e)
    BY <1>1, AppendedQueue DEF Queued
  <1>3. Distinct(queue')
    BY <1>1, AppendedDistinct DEF Queued
  <1> QED BY <1>2, <1>3

LEMMA QueueShrinks ==
  ASSUME TypeOK, InOnePlace, queue # <<>>, queue' = Tail(queue)
  PROVE  /\ Head(queue) \in Elements
         /\ Queued(Head(queue))
         /\ \A m \in Messages : m = Head(queue) => ~Queued(m)'
         /\ \A m : Queued(m)' => Queued(m)
         /\ Distinct(queue')
  <1>1. queue \in Seq(Elements) /\ Distinct(queue)
    BY DEF TypeOK, InOnePlace, Elements, Distinct
  <1>2. Head(queue) \in Elements /\ Queued(Head(queue))
    BY <1>1, TakenQueue DEF Queued
  <1>3. /\ Distinct(queue')
        /\ \A m : Queued(m)' => Queued(m)
        /\ Head(queue) \in Messages => \A i \in 1..Len(queue') : queue'[i] # Head(queue)
    BY <1>1, TakenDistinct DEF Queued
  <1>4. \A m \in Messages : m = Head(queue) => ~Queued(m)'
    BY <1>3 DEF Queued
  <1> QED BY <1>2, <1>3, <1>4

LEMMA PlaceStep == TypeOK /\ InOnePlace /\ [Next]_vars => InOnePlace'
  <1> SUFFICES ASSUME TypeOK, InOnePlace, [Next]_vars PROVE InOnePlace'
    OBVIOUS
  <1> USE MarkAssumption DEF listenerVars, workerVars, marks, BackToStream, NextMessage, Holding
  <1>t. /\ lmsg \in Messages \cup {NoMessage} /\ wmsg \in Messages \cup {NoMessage}
        /\ seen \subseteq Messages
    BY DEF TypeOK
  <1>d. Distinct(queue)
    BY DEF InOnePlace, Distinct
  <1>k. ASSUME queue' = queue, seen' = seen,
               \/ lpc' = lpc /\ lmsg' = lmsg
               \/ lpc' \notin {"claiming", "claimed"} /\ lmsg' = NoMessage
               \/ lpc \notin {"claiming", "claimed"} /\ lpc' \notin {"claiming", "claimed"} /\ lmsg' = lmsg,
               \/ wpc' = wpc /\ wmsg' = wmsg
               \/ wpc' \notin Holding /\ wmsg' = NoMessage
               \/ wpc \in Holding /\ wpc' \in Holding /\ wmsg' = wmsg
               \/ wpc \notin Holding /\ wpc' \notin Holding /\ wmsg' = wmsg
        PROVE  InOnePlace'
    BY <1>k, <1>t, <1>d, QueueKept DEF InOnePlace, Distinct
  <1>1. CASE ListenerTop BY <1>1, <1>k DEF ListenerTop
  <1>2. CASE Dial BY <1>2, <1>k DEF Dial
  <1>3. CASE DialFails BY <1>3, <1>k DEF DialFails, AfterError
  <1>4. CASE StreamEnds BY <1>4, <1>k DEF StreamEnds, AfterError
  <1>5. ASSUME NEW m \in Messages, Receive(m) PROVE InOnePlace'
    BY <1>5, <1>t, <1>d, QueueKept DEF InOnePlace, Receive, Distinct
  <1>6. CASE Enqueue
    <2>1. lmsg \in Elements /\ ~Queued(lmsg) /\ lmsg \in seen /\ lmsg # wmsg /\ lmsg \in Messages
      BY <1>6, <1>t DEF Enqueue, InOnePlace, Elements
    <2>2. /\ \A m : Queued(m)' <=> (Queued(m) \/ m = lmsg)
          /\ Distinct(queue')
      BY <1>6, <2>1, QueueGrows DEF Enqueue
    <2> QED BY <1>6, <1>t, <2>1, <2>2 DEF Enqueue, InOnePlace, Distinct
  <1>7. CASE Announce BY <1>7, <1>k DEF Announce, Publish
  <1>8. CASE Drop BY <1>8, <1>k DEF Drop, Publish
  <1>9. CASE WorkerTop BY <1>9, <1>k DEF WorkerTop
  <1>10. CASE GetNothing BY <1>10, <1>k DEF GetNothing
  <1>11. CASE Get
    <2> DEFINE h == Head(queue)
    <2>1. /\ h \in Elements /\ Queued(h)
          /\ \A m \in Messages : m = h => ~Queued(m)'
          /\ \A m : Queued(m)' => Queued(m)
          /\ Distinct(queue')
      BY <1>11, QueueShrinks DEF Get
    <2>2. h \in Messages => h \in seen /\ (lpc = "claiming" => h # lmsg)
      BY <2>1 DEF InOnePlace
    <2>3. /\ wpc = "getting" /\ wmsg = NoMessage
          /\ UNCHANGED <<seen, lpc, lmsg>>
          /\ wmsg' = IF h \in Messages \ blank THEN h ELSE NoMessage
          /\ wpc' = CASE h = StopMark -> "done"
                       [] h \in blank -> "top"
                       [] OTHER -> "starting"
      BY <1>11 DEF Get, InOnePlace
    <2>4. blank \subseteq Messages
      BY DEF TypeOK
    <2> HIDE DEF h
    <2>5. CASE h \in Messages \ blank
      <3>1. wmsg' = h /\ wpc' = "starting"
        BY <2>3, <2>4, <2>5
      <3> QED BY <1>t, <2>1, <2>2, <2>3, <2>5, <3>1 DEF InOnePlace, Distinct
    <2>6. CASE h \notin Messages \ blank
      <3>1. wmsg' = NoMessage /\ wpc' \in {"done", "top"}
        BY <2>1, <2>3, <2>4, <2>6 DEF Elements
      <3> QED BY <1>t, <2>1, <2>2, <2>3, <2>6, <3>1 DEF InOnePlace, Distinct
    <2> QED BY <2>5, <2>6
  <1>12. CASE Prepare BY <1>12, <1>k DEF Prepare, Publish
  <1>13. CASE BridgeCompletes BY <1>13, <1>k DEF BridgeCompletes, Publish
  <1>14. CASE BridgeDeclines BY <1>14, <1>k DEF BridgeDeclines, Publish
  <1>15. CASE HandlerReturns BY <1>15, <1>k DEF HandlerReturns
  <1>16. CASE HandlerFails BY <1>16, <1>k DEF HandlerFails
  <1>17. CASE Reply BY <1>17, <1>k DEF Reply
  <1>18. CASE ReplyFails BY <1>18, <1>k DEF ReplyFails
  <1>19. CASE Close BY <1>19, <1>k DEF Close
  <1>20. CASE Fail BY <1>20, <1>k DEF Fail
  <1>21. CASE Stop
    <2>1. StopMark \in Elements /\ StopMark \notin Messages
      BY MarkAssumption DEF Elements
    <2>2. UNCHANGED <<seen, lpc, lmsg, wpc, wmsg>>
      BY <1>21 DEF Stop
    <2>3. CASE queue' = queue
      BY <1>k, <2>2, <2>3
    <2>4. CASE queue' = Append(queue, StopMark)
      <3>1. /\ \A m : Queued(m)' <=> (Queued(m) \/ m = StopMark)
            /\ Distinct(queue')
        BY <2>1, <2>4, QueueGrows
      <3>2. wpc \in Holding => StopMark # wmsg
        BY <1>t, <2>1 DEF InOnePlace
      <3> QED BY <1>t, <2>1, <2>2, <3>1, <3>2 DEF InOnePlace, Distinct
    <2> QED BY <1>21, <2>3, <2>4 DEF Stop
  <1>22. CASE StopReturns BY <1>22, <1>k DEF StopReturns
  <1>23. CASE UNCHANGED vars BY <1>23, <1>k DEF vars
  <1> QED
    BY <1>1, <1>2, <1>3, <1>4, <1>5, <1>6, <1>7, <1>8, <1>9, <1>10, <1>11, <1>12, <1>13,
       <1>14, <1>15, <1>16, <1>17, <1>18, <1>19, <1>20, <1>21, <1>22, <1>23
    DEF Next, Listener, Worker, Discarded

-----------------------------------------------------------------------------
(* What was posted                                                         *)

LEMMA PostsInit == Init => PostsInOrder /\ WorkInOrder /\ DroppedIsGone /\ HistorySound
  <1> SUFFICES ASSUME Init PROVE PostsInOrder /\ WorkInOrder /\ DroppedIsGone /\ HistorySound
    OBVIOUS
  <1>1. \A m \in Messages : posts[m] = <<>>
    BY DEF Init
  <1>2. \A m \in Messages : Len(posts[m]) = 0
    BY <1>1, EmptySeq
  <1>3. \A m \in Messages, s \in Statuses : ~Posted(m, s)
    BY <1>2 DEF Posted
  <1>4. "dropped" \in Statuses
    BY DEF Statuses
  <1>5. PostsInOrder /\ WorkInOrder
    BY <1>1, <1>3 DEF Init, PostsInOrder, WorkInOrder, Unworked, Holding
  <1>6. DroppedIsGone
    BY <1>3, <1>4 DEF DroppedIsGone
  <1>7. HistorySound
    BY <1>2 DEF HistorySound, OnceIn, FinalIn
  <1> QED BY <1>5, <1>6, <1>7

LEMMA PostsKept ==
  ASSUME posts' = posts
  PROVE  /\ \A m \in Messages, s \in Statuses : Posted(m, s)' <=> Posted(m, s)
         /\ HistorySound => HistorySound'
  BY DEF Posted, HistorySound

LEMMA HistoryStep == RuntimeInv /\ [Next]_vars => HistorySound'
  <1> SUFFICES ASSUME RuntimeInv, [Next]_vars PROVE HistorySound'
    OBVIOUS
  <1> USE DEF RuntimeInv, Statuses, Holding
  <1>s. lmsg \in Messages /\ (Publish(lmsg, "started") \/ Publish(lmsg, "dropped"))
          => HistorySound'
    BY PostKeepsHistory DEF Publish, PostsAbout
  <1>1. CASE posts' = posts BY <1>1, PostsKept
  <1>2. CASE Announce BY <1>2, <1>s, InHand DEF Announce
  <1>3. CASE Drop BY <1>3, <1>s, InHand DEF Drop
  <1>4. CASE Prepare
    <2>1. ~Posted(wmsg, "no_reply")
      BY <1>4 DEF Prepare, WorkInOrder, Unworked
    <2> QED BY <1>4, <2>1, InHand, PostKeepsHistory DEF Prepare, Publish, PostsAbout
  <1>5. CASE BridgeCompletes
    BY <1>5, InHand, PostKeepsHistory DEF BridgeCompletes, Publish, PostsAbout
  <1>6. CASE BridgeDeclines
    BY <1>6, InHand, PostKeepsHistory DEF BridgeDeclines, Publish, PostsAbout
  <1>7. CASE Reply
    BY <1>7, InHand, PostKeepsHistory DEF Reply, PostsAbout, WorkInOrder
  <1>8. CASE Close
    BY <1>1, <1>8, InHand, PostKeepsHistory DEF Close, Publish, PostsAbout, WorkInOrder
  <1>9. CASE Fail
    BY <1>9, InHand, PostKeepsHistory DEF Fail, Publish, PostsAbout, WorkInOrder
  <1>10. posts' = posts \/ Announce \/ Drop \/ Prepare \/ BridgeCompletes \/ BridgeDeclines
           \/ Reply \/ Close \/ Fail
    BY DEF Next, Listener, Worker, Discarded, vars, ListenerTop, Dial, DialFails, StreamEnds,
           Receive, Enqueue, WorkerTop, GetNothing, Get, HandlerReturns, HandlerFails,
           ReplyFails, Stop, StopReturns
  <1> QED BY <1>1, <1>2, <1>3, <1>4, <1>5, <1>6, <1>7, <1>8, <1>9, <1>10

(* A message that is out of every hand and off the queue stays out.        *)
Gone(m) == m # lmsg /\ m # wmsg /\ ~Queued(m)

LEMMA GoneStays ==
  ASSUME TypeOK, InOnePlace, [Next]_vars, NEW m \in seen, Gone(m)
  PROVE  Gone(m)'
  <1> USE MarkAssumption DEF Gone, BackToStream, NextMessage, listenerVars, workerVars
  <1>1. m \in Messages
    BY DEF TypeOK
  <1>2. queue' = queue => (Queued(m)' <=> Queued(m))
    BY DEF Queued
  <1>3. CASE UNCHANGED <<queue, lmsg, wmsg>> BY <1>2, <1>3
  <1>4. CASE \E n \in Messages : Receive(n) BY <1>1, <1>2, <1>4 DEF Receive
  <1>5. CASE Enqueue
    <2>1. lmsg \in Elements /\ ~Queued(lmsg)
      BY <1>5, InHand DEF Enqueue, InOnePlace, Elements
    <2>2. \A n : Queued(n)' <=> (Queued(n) \/ n = lmsg)
      BY <1>5, <2>1, QueueGrows DEF Enqueue
    <2> QED BY <1>5, <2>2 DEF Enqueue
  <1>6. CASE Announce \/ Drop BY <1>1, <1>2, <1>6 DEF Announce, Drop
  <1>7. CASE Get
    <2>1. Queued(Head(queue)) /\ \A n : Queued(n)' => Queued(n)
      BY <1>7, QueueShrinks DEF Get
    <2> QED BY <1>1, <1>7, <2>1 DEF Get
  <1>8. CASE Close \/ Fail BY <1>1, <1>2, <1>8 DEF Close, Fail
  <1>9. CASE Stop
    <2>1. StopMark \in Elements /\ UNCHANGED <<lmsg, wmsg>>
      BY <1>9 DEF Elements, Stop, listenerVars, workerVars
    <2>2. CASE queue' = queue BY <1>2, <2>1, <2>2
    <2>3. CASE queue' = Append(queue, StopMark)
      <3>1. \A n : Queued(n)' <=> (Queued(n) \/ n = StopMark)
        BY <2>1, <2>3, QueueGrows
      <3> QED BY <1>1, <2>1, <3>1
    <2> QED BY <1>9, <2>2, <2>3 DEF Stop
  <1>10. UNCHANGED <<queue, lmsg, wmsg>> \/ (\E n \in Messages : Receive(n)) \/ Enqueue
           \/ Announce \/ Drop \/ Get \/ Close \/ Fail \/ Stop
    BY DEF Next, Listener, Worker, Discarded, vars, listenerVars, workerVars, ListenerTop, Dial,
           DialFails, StreamEnds, WorkerTop, GetNothing, Prepare, BridgeCompletes,
           BridgeDeclines, HandlerReturns, HandlerFails, Reply, ReplyFails, StopReturns
  <1> QED BY <1>3, <1>4, <1>5, <1>6, <1>7, <1>8, <1>9, <1>10

(* Every step posts nothing, or one status about a message in hand.        *)
LEMMA OnePost ==
  ASSUME RuntimeInv, [Next]_vars
  PROVE  \/ posts' = posts
         \/ Announce /\ lmsg \in Messages /\ PostsAbout(lmsg, "started")
         \/ Drop /\ lmsg \in Messages /\ PostsAbout(lmsg, "dropped")
         \/ Prepare /\ wmsg \in Messages /\ PostsAbout(wmsg, "processing")
         \/ BridgeCompletes /\ wmsg \in Messages /\ PostsAbout(wmsg, "completed")
         \/ BridgeDeclines /\ wmsg \in Messages /\ PostsAbout(wmsg, "no_reply")
         \/ Reply /\ wmsg \in Messages /\ PostsAbout(wmsg, "reply")
         \/ Close /\ wmsg \in Messages /\ PostsAbout(wmsg, "completed")
         \/ Fail /\ wmsg \in Messages /\ PostsAbout(wmsg, "error")
  <1>1. posts' = posts \/ Announce \/ Drop \/ Prepare \/ BridgeCompletes \/ BridgeDeclines
           \/ Reply \/ Close \/ Fail
    BY DEF Next, Listener, Worker, Discarded, vars, ListenerTop, Dial, DialFails, StreamEnds,
           Receive, Enqueue, WorkerTop, GetNothing, Get, HandlerReturns, HandlerFails,
           ReplyFails, Stop, StopReturns
  <1>2. Announce \/ Drop => lmsg \in Messages
    BY InHand DEF RuntimeInv, Announce, Drop
  <1>3. Prepare \/ BridgeCompletes \/ BridgeDeclines \/ Reply \/ Close \/ Fail => wmsg \in Messages
    BY InHand DEF RuntimeInv, Holding, Prepare, BridgeCompletes, BridgeDeclines, Reply, Close, Fail
  <1> QED
    BY <1>1, <1>2, <1>3 DEF PostsAbout, Publish, Announce, Drop, Prepare, BridgeCompletes,
       BridgeDeclines, Reply, Close, Fail

LEMMA DroppedStep == RuntimeInv /\ [Next]_vars => DroppedIsGone'
  <1> SUFFICES ASSUME RuntimeInv, [Next]_vars, NEW m \in Messages, Posted(m, "dropped")'
               PROVE  Len(posts'[m]) = 1 /\ Gone(m)'
    BY DEF DroppedIsGone, Gone
  <1> USE DEF Statuses
  <1>1. CASE Posted(m, "dropped")
    <2>1. Len(posts[m]) = 1 /\ Gone(m)
      BY <1>1 DEF RuntimeInv, DroppedIsGone, Gone
    <2>2. m \in seen
      <3>1. posts[m] # <<>>
        BY <2>1, EmptySeq
      <3> QED BY <3>1 DEF RuntimeInv, PostsInOrder
    <2>3. Gone(m)'
      BY <2>1, <2>2, GoneStays DEF RuntimeInv
    <2>4. posts'[m] = posts[m]
      BY <2>1, OnePost, PostedThen DEF RuntimeInv, Gone
    <2> QED BY <2>1, <2>3, <2>4
  <1>2. CASE ~Posted(m, "dropped")
    <2>1. Drop /\ lmsg = m /\ PostsAbout(m, "dropped")
      BY <1>2, OnePost, PostedThen, PostsKept DEF RuntimeInv
    <2>2. posts[m] = <<>> /\ m \in seen /\ m # wmsg /\ ~Queued(m)
      BY <2>1 DEF Drop, RuntimeInv, PostsInOrder, InOnePlace
    <2>3. Len(posts'[m]) = 1
      <3>1. Len(posts[m]) = 0
        BY <2>2, EmptySeq
      <3>2. Len(posts'[m]) = Len(posts[m]) + 1
        BY <2>1, PostedThen DEF RuntimeInv
      <3> QED BY <3>1, <3>2
    <2>4. Gone(m)'
      BY <2>1, <2>2, MarkAssumption DEF Drop, BackToStream, Gone, workerVars, Queued
    <2> QED BY <2>3, <2>4
  <1> QED BY <1>1, <1>2

LEMMA SeenGrows == ASSUME [Next]_vars PROVE seen \subseteq seen'
  BY DEF Next, Listener, Worker, Discarded, vars, ListenerTop, Dial, DialFails, StreamEnds,
         Receive, Enqueue, Announce, Drop, WorkerTop, GetNothing, Get, Prepare, BridgeCompletes,
         BridgeDeclines, HandlerReturns, HandlerFails, Reply, ReplyFails, Close, Fail, Stop,
         StopReturns

LEMMA OrderStep == RuntimeInv /\ [Next]_vars => PostsInOrder'
  <1> SUFFICES ASSUME RuntimeInv, [Next]_vars PROVE PostsInOrder'
    OBVIOUS
  <1> USE MarkAssumption DEF Holding, Statuses, Unworked, BackToStream, NextMessage,
          listenerVars, workerVars, marks
  <1>t. /\ TypeOK /\ InOnePlace /\ PostsInOrder /\ DroppedIsGone
        /\ lmsg \in Messages \cup {NoMessage} /\ wmsg \in Messages \cup {NoMessage}
        /\ seen \subseteq Messages
    BY DEF RuntimeInv, TypeOK
  <1>p. posts' = posts => \A m \in Messages, s \in Statuses : Posted(m, s)' <=> Posted(m, s)
    BY PostsKept
  <1>q. queue' = queue => \A m : Queued(m)' <=> Queued(m)
    BY QueueKept
  <1>1. \A m \in Messages \ seen' : posts'[m] = <<>>
    <2>1. \A m \in Messages \ seen' : posts[m] = <<>> /\ m # lmsg /\ m # wmsg
      BY <1>t, SeenGrows DEF InOnePlace, PostsInOrder
    <2> QED BY <1>t, <2>1, OnePost, PostedThen
  <1>2. ASSUME lpc' = "claiming" PROVE posts'[lmsg'] = <<>>
    <2>1. CASE \E m \in Messages : Receive(m)
      BY <1>t, <2>1 DEF Receive, PostsInOrder
    <2>2. CASE lpc = "claiming" /\ lmsg' = lmsg /\ ~Announce /\ ~Drop
      <3>1. posts[lmsg] = <<>> /\ lmsg # wmsg /\ lmsg \in Messages
        BY <1>t, <2>2 DEF PostsInOrder, InOnePlace
      <3> QED BY <1>t, <2>2, <3>1, OnePost, PostedThen
    <2> QED
      BY <1>2, <2>1, <2>2 DEF Next, Listener, Worker, Discarded, vars, ListenerTop, Dial,
         DialFails, AfterError, StreamEnds, Receive, Enqueue, Announce, Drop, WorkerTop,
         GetNothing, Get, Prepare, BridgeCompletes, BridgeDeclines, HandlerReturns,
         HandlerFails, Reply, ReplyFails, Close, Fail, Stop, StopReturns
  <1>3. ASSUME NEW m \in Messages, Queued(m)', NEW s \in Statuses, Posted(m, s)'
        PROVE  s = "started"
    <2>1. CASE Enqueue
      <3>1. lmsg \in Elements /\ ~Queued(lmsg) /\ lmsg \in Messages /\ posts[lmsg] = <<>>
        BY <1>t, <2>1 DEF Enqueue, InOnePlace, PostsInOrder, Elements
      <3>2. Queued(m) \/ m = lmsg
        BY <1>t, <1>3, <2>1, <3>1, QueueGrows DEF Enqueue
      <3>3. ~Posted(lmsg, s)
        BY <3>1, EmptySeq DEF Posted
      <3>4. Posted(m, s)
        BY <1>3, <1>p, <2>1 DEF Enqueue
      <3> QED BY <1>t, <3>2, <3>3, <3>4 DEF PostsInOrder
    <2>2. CASE ~Enqueue
      <3>1. Queued(m)
        <4>1. CASE queue' = queue BY <1>3, <1>q, <4>1
        <4>2. CASE Get BY <1>t, <1>3, <4>2, QueueShrinks DEF Get
        <4>3. CASE Stop
          <5>1. StopMark \in Elements
            BY DEF Elements
          <5>2. CASE queue' = Append(queue, StopMark)
            BY <1>t, <1>3, <5>1, <5>2, QueueGrows
          <5> QED BY <4>1, <4>3, <5>2 DEF Stop
        <4> QED
          BY <2>2, <4>1, <4>2, <4>3 DEF Next, Listener, Worker, Discarded, vars, ListenerTop,
             Dial, DialFails, StreamEnds, Receive, Announce, Drop, WorkerTop, GetNothing,
             Prepare, BridgeCompletes, BridgeDeclines, HandlerReturns, HandlerFails, Reply,
             ReplyFails, Close, Fail, StopReturns
      <3>2. Posted(m, s) => s = "started"
        BY <1>t, <3>1 DEF PostsInOrder
      <3>3. Announce \/ posts' = posts \/ (posts'[m] = posts[m])
        <4>1. Drop => m # lmsg
          BY <1>t, <3>1 DEF Drop, InOnePlace
        <4>2. wpc \in Holding => m # wmsg
          BY <1>t, <3>1 DEF InOnePlace
        <4>3. Prepare \/ BridgeCompletes \/ BridgeDeclines \/ Reply \/ Close \/ Fail => wpc \in Holding
          BY DEF Prepare, BridgeCompletes, BridgeDeclines, Reply, Close, Fail
        <4> QED BY <1>t, <4>1, <4>2, <4>3, OnePost, PostedThen
      <3>4. Announce => s = "started" \/ Posted(m, s)
        <4>1. Announce => lmsg \in Messages /\ PostsAbout(lmsg, "started")
          BY <1>t, InHand DEF Announce, Publish, PostsAbout
        <4>2. "started" \in Statuses
          OBVIOUS
        <4> QED BY <1>t, <1>3, <4>1, <4>2, PostedThen
      <3>5. posts'[m] = posts[m] => Posted(m, s)
        BY <1>3 DEF Posted
      <3> QED BY <3>2, <3>3, <3>4, <3>5
    <2> QED BY <2>1, <2>2
  <1> QED BY <1>1, <1>2, <1>3 DEF PostsInOrder

LEMMA WorkStep == RuntimeInv /\ [Next]_vars => WorkInOrder'
  <1> SUFFICES ASSUME RuntimeInv, [Next]_vars PROVE WorkInOrder'
    OBVIOUS
  <1> USE MarkAssumption DEF Holding, Unworked, NextMessage, listenerVars, workerVars, marks
  <1>t. /\ TypeOK /\ InOnePlace /\ PostsInOrder /\ WorkInOrder /\ DroppedIsGone
        /\ lmsg \in Messages \cup {NoMessage} /\ wmsg \in Messages \cup {NoMessage}
        /\ wpc \in Holding => wmsg \in Messages
    BY DEF RuntimeInv, TypeOK, InOnePlace
  <1>s. {"started", "dropped", "processing", "completed", "no_reply", "reply", "error"} = Statuses
    BY DEF Statuses
  <1>p. posts' = posts => \A m \in Messages, s \in Statuses : Posted(m, s)' <=> Posted(m, s)
    BY PostsKept
  <1>k. ASSUME UNCHANGED <<workerVars, completedSeen, noReplySeen>>,
               wpc \in Holding => \A s \in Statuses \ {"started"} : Posted(wmsg, s)' => Posted(wmsg, s)
        PROVE  WorkInOrder'
    BY <1>k, <1>t, <1>s DEF WorkInOrder
  <1>1. CASE ListenerTop \/ Dial \/ DialFails \/ StreamEnds \/ (\E m \in Messages : Receive(m))
              \/ Enqueue \/ Stop \/ StopReturns \/ UNCHANGED vars
    <2>1. UNCHANGED <<workerVars, completedSeen, noReplySeen, posts>>
      BY <1>1 DEF ListenerTop, Dial, DialFails, StreamEnds, Receive, Enqueue, Stop, StopReturns, vars
    <2> QED BY <1>k, <1>p, <1>t, <2>1
  <1>2. CASE Announce \/ Drop
    <2>1. /\ UNCHANGED <<workerVars, completedSeen, noReplySeen>>
          /\ lmsg \in Messages
          /\ PostsAbout(lmsg, "started") \/ (PostsAbout(lmsg, "dropped") /\ lmsg # wmsg)
      BY <1>2, <1>t, InHand DEF Announce, Drop, Publish, PostsAbout, InOnePlace
    <2>2. wpc \in Holding => \A s \in Statuses \ {"started"} : Posted(wmsg, s)' => Posted(wmsg, s)
      BY <1>s, <1>t, <2>1, PostedThen
    <2> QED BY <1>k, <2>1, <2>2
  <1>w. ASSUME wpc' \notin Holding PROVE WorkInOrder'
    BY <1>w DEF WorkInOrder
  <1>3. CASE WorkerTop \/ GetNothing \/ Close \/ Fail
    BY <1>3, <1>w DEF WorkerTop, GetNothing, Close, Fail
  <1>4. CASE Get
    <2> DEFINE h == Head(queue)
    <2>1. Queued(h)
      BY <1>4, <1>t, QueueShrinks DEF Get
    <2>2. /\ posts' = posts
          /\ wmsg' = IF h \in Messages \ blank THEN h ELSE NoMessage
          /\ wpc' = CASE h = StopMark -> "done" [] h \in blank -> "top" [] OTHER -> "starting"
      BY <1>4 DEF Get
    <2>3. blank \subseteq Messages /\ h \in Elements
      BY <1>4, <1>t, QueueShrinks DEF Get, TypeOK
    <2> HIDE DEF h
    <2>4. CASE h \in Messages \ blank
      <3>1. wmsg' = h /\ wpc' = "starting" /\ h \in Messages
        BY <2>2, <2>4
      <3>2. \A s \in Statuses : Posted(h, s) => s = "started"
        BY <1>t, <2>1, <3>1 DEF PostsInOrder
      <3>3. \A s \in Statuses : Posted(wmsg, s)' => s = "started"
        BY <1>p, <2>2, <3>1, <3>2
      <3> QED BY <1>s, <3>1, <3>3 DEF WorkInOrder
    <2>5. CASE h \notin Messages \ blank
      BY <1>w, <2>2, <2>3, <2>5 DEF Elements
    <2> QED BY <2>4, <2>5
  <1>5. CASE Prepare
    <2>1. /\ wpc = "starting" /\ wpc' = "handling" /\ wmsg' = wmsg /\ wmsg \in Messages
          /\ PostsAbout(wmsg, "processing")
      BY <1>5, <1>t DEF Prepare, Publish, PostsAbout
    <2>2. \A s \in Statuses : Posted(wmsg, s)' => s \in {"started", "processing"}
      BY <1>s, <1>t, <2>1, PostedThen DEF WorkInOrder
    <2> QED BY <1>s, <2>1, <2>2 DEF WorkInOrder
  <1>6. CASE BridgeCompletes
    <2>1. /\ wpc = "handling" /\ wpc' = "handling" /\ wmsg' = wmsg /\ wmsg \in Messages
          /\ PostsAbout(wmsg, "completed")
          /\ wmsg \in completedSeen' /\ noReplySeen' = noReplySeen
      BY <1>6, <1>t DEF BridgeCompletes, Publish, PostsAbout
    <2>2. \A s \in Statuses : Posted(wmsg, s)' => Posted(wmsg, s) \/ s = "completed"
      BY <1>s, <1>t, <2>1, PostedThen
    <2> QED BY <1>s, <1>t, <2>1, <2>2 DEF WorkInOrder
  <1>7. CASE BridgeDeclines
    <2>1. /\ wpc = "handling" /\ wpc' = "handling" /\ wmsg' = wmsg /\ wmsg \in Messages
          /\ PostsAbout(wmsg, "no_reply")
          /\ wmsg \in noReplySeen' /\ completedSeen' = completedSeen
      BY <1>7, <1>t DEF BridgeDeclines, Publish, PostsAbout
    <2>2. \A s \in Statuses : Posted(wmsg, s)' => Posted(wmsg, s) \/ s = "no_reply"
      BY <1>s, <1>t, <2>1, PostedThen
    <2> QED BY <1>s, <1>t, <2>1, <2>2 DEF WorkInOrder
  <1>8. CASE HandlerReturns
    <2>1. /\ wpc = "handling" /\ wmsg' = wmsg /\ wmsg \in Messages
          /\ posts' = posts /\ completedSeen' = completedSeen
          /\ wpc' \in {"replying", "closing"}
          /\ wpc' = "replying" => wmsg \notin noReplySeen
      BY <1>8, <1>t DEF HandlerReturns, MayReply
    <2>2. \A s \in Statuses : Posted(wmsg, s)' => Posted(wmsg, s)
      BY <1>p, <2>1
    <2> QED BY <1>s, <1>t, <2>1, <2>2 DEF WorkInOrder
  <1>9. CASE HandlerFails \/ ReplyFails
    <2>1. /\ wpc \in Holding /\ wpc' = "failing" /\ wmsg' = wmsg /\ wmsg \in Messages
          /\ posts' = posts
      BY <1>9, <1>t DEF HandlerFails, ReplyFails
    <2>2. \A s \in Statuses : Posted(wmsg, s)' => Posted(wmsg, s)
      BY <1>p, <2>1
    <2> QED BY <1>s, <1>t, <2>1, <2>2 DEF WorkInOrder
  <1>10. CASE Reply
    <2>1. /\ wpc = "replying" /\ wpc' = "closing" /\ wmsg' = wmsg /\ wmsg \in Messages
          /\ PostsAbout(wmsg, "reply") /\ completedSeen' = completedSeen
      BY <1>10, <1>t DEF Reply, PostsAbout
    <2>2. \A s \in Statuses : Posted(wmsg, s)' => Posted(wmsg, s) \/ s = "reply"
      BY <1>s, <1>t, <2>1, PostedThen
    <2> QED BY <1>s, <1>t, <2>1, <2>2 DEF WorkInOrder
  <1> QED
    BY <1>1, <1>2, <1>3, <1>4, <1>5, <1>6, <1>7, <1>8, <1>9, <1>10
    DEF Next, Listener, Worker, Discarded

-----------------------------------------------------------------------------
(* The theorems                                                            *)

LEMMA RuntimeAlways == Spec => []RuntimeInv
  <1>1. Init => RuntimeInv
    BY TypeInit, PlaceInit, PostsInit DEF RuntimeInv
  <1>2. RuntimeInv /\ [Next]_vars => RuntimeInv'
    BY TypeStep, PlaceStep, OrderStep, WorkStep, DroppedStep, HistoryStep DEF RuntimeInv
  <1> QED BY <1>1, <1>2, PTL DEF Spec

(* Threads, queue and posts are well typed, for any capacity of the queue, *)
(* which a stop never overfills.                                           *)
THEOREM RuntimeTypeCorrect == Spec => []TypeOK
  <1>1. RuntimeInv => TypeOK
    BY DEF RuntimeInv
  <1> QED BY <1>1, RuntimeAlways, PTL

(* No message is answered, completed or failed twice, however often it is  *)
(* delivered and whatever its handler reports.                             *)
THEOREM NoneIsAnsweredTwice == Spec => []AnsweredOnce
  <1>1. RuntimeInv => AnsweredOnce
    <2> SUFFICES ASSUME RuntimeInv, NEW m \in Messages,
                        NEW status \in {"reply", "completed", "error"}
                 PROVE  Times(m, status) <= 1
      BY DEF AnsweredOnce
    <2> DEFINE at == {i \in 1..Len(posts[m]) : posts[m][i] = status}
    <2>1. \A i, j \in at : i = j
      BY DEF RuntimeInv, HistorySound, OnceIn
    <2>2. CASE at = {}
      <3> HIDE DEF at
      <3>1. Cardinality(at) = 0
        BY <2>2, FS_EmptySet
      <3> QED BY <3>1 DEF Times, at
    <2>3. CASE at # {}
      <3> HIDE DEF at
      <3>1. PICK i : at = {i}
        BY <2>1, <2>3
      <3>2. Cardinality(at) = 1
        BY <3>1, FS_Singleton
      <3> QED BY <3>2 DEF Times, at
    <2> QED BY <2>2, <2>3
  <1> QED BY <1>1, RuntimeAlways, PTL

(* After a refusal no reply is posted and no work begins anew.             *)
THEOREM ARefusalIsFinal == Spec => []DeclinedIsFinal
  <1>1. RuntimeInv => DeclinedIsFinal
    BY DEF RuntimeInv, HistorySound, FinalIn, DeclinedIsFinal
  <1> QED BY <1>1, RuntimeAlways, PTL

(* A message dropped at a full queue is never worked on, and nothing more  *)
(* is posted about it.                                                     *)
THEOREM WhatIsDroppedStaysDropped == Spec => []DroppedIsDropped
  <1>1. RuntimeInv => DroppedIsDropped
    BY DEF RuntimeInv, DroppedIsGone, DroppedIsDropped
  <1> QED BY <1>1, RuntimeAlways, PTL
-----------------------------------------------------------------------------
(* The abstract life of a message.  Its end depends on what was told about *)
(* it, which the runtime keeps in three sets and a flag: these agree.      *)

EndsAreTold ==
    /\ lpc = "claimed" => ~Posted(lmsg, "started")
    /\ \A m \in completedSeen : Posted(m, "completed")
    /\ \A m \in noReplySeen : Posted(m, "no_reply")
    /\ wpc \in Holding => wmsg \notin blank
    /\ wpc = "replying" => ~outcome.declined
    /\ wpc = "closing" => (outcome.declined <=> Posted(wmsg, "no_reply"))

LEMMA BlankKept == ASSUME [Next]_vars PROVE blank' = blank
  BY DEF Next, Listener, Worker, Discarded, vars, marks, ListenerTop, Dial, DialFails, StreamEnds,
         Receive, Enqueue, Announce, Drop, WorkerTop, GetNothing, Get, Prepare, BridgeCompletes,
         BridgeDeclines, HandlerReturns, HandlerFails, Reply, ReplyFails, Close, Fail, Stop,
         StopReturns

LEMMA EndsInit == Init => EndsAreTold
  BY DEF Init, EndsAreTold, Holding

LEMMA EndsStep == RuntimeInv /\ EndsAreTold /\ [Next]_vars => EndsAreTold'
  <1> SUFFICES ASSUME RuntimeInv, EndsAreTold, [Next]_vars PROVE EndsAreTold'
    OBVIOUS
  <1> USE MarkAssumption DEF Holding, NextMessage, BackToStream, listenerVars, workerVars, marks
  <1>t. /\ TypeOK /\ InOnePlace /\ WorkInOrder
        /\ wpc \in Holding => wmsg \in Messages
        /\ lpc \in {"claiming", "claimed"} => lmsg \in Messages
        /\ completedSeen \subseteq Messages /\ noReplySeen \subseteq Messages
    BY InHand DEF RuntimeInv, TypeOK
  <1>s. {"started", "dropped", "processing", "completed", "no_reply", "reply", "error"} = Statuses
    BY DEF Statuses
  <1>b. blank' = blank
    BY BlankKept
  <1>p. posts' = posts => \A m \in Messages, s \in Statuses : Posted(m, s)' <=> Posted(m, s)
    BY PostsKept
  <1>1. CASE \/ ListenerTop \/ Dial \/ DialFails \/ StreamEnds \/ (\E m \in Messages : Receive(m))
             \/ Stop \/ StopReturns \/ UNCHANGED vars
    <2>1. /\ UNCHANGED <<workerVars, completedSeen, noReplySeen, posts>>
          /\ lpc' = "claimed" => lpc = "claimed" /\ lmsg' = lmsg
      BY <1>1 DEF ListenerTop, Dial, DialFails, AfterError, StreamEnds, Receive, Stop,
         StopReturns, vars
    <2> QED BY <1>b, <1>p, <1>s, <1>t, <2>1 DEF EndsAreTold
  <1>2. CASE Enqueue
    <2>1. posts[lmsg] = <<>> /\ lmsg \in Messages
      BY <1>2, <1>t DEF Enqueue, RuntimeInv, PostsInOrder
    <2>2. \A s \in Statuses : ~Posted(lmsg, s)
      BY <2>1, EmptySeq DEF Posted
    <2> QED BY <1>2, <1>b, <1>p, <1>s, <1>t, <2>1, <2>2 DEF EndsAreTold, Enqueue
  <1>3. CASE Announce \/ Drop
    <2>1. /\ UNCHANGED <<workerVars, completedSeen, noReplySeen>> /\ lpc' = "stream"
          /\ lmsg \in Messages
          /\ PostsAbout(lmsg, "started") \/ PostsAbout(lmsg, "dropped")
      BY <1>3, <1>t DEF Announce, Drop, Publish, PostsAbout
    <2>2. \A n \in Messages, s \in {"completed", "no_reply"} : Posted(n, s)' <=> Posted(n, s)
      BY <1>s, <1>t, <2>1, PostedThen
    <2> QED BY <1>b, <1>s, <1>t, <2>1, <2>2 DEF EndsAreTold
  <1>w. ASSUME UNCHANGED <<listenerVars, posts>>,
               completedSeen' \subseteq completedSeen, noReplySeen' \subseteq noReplySeen,
               wpc' \in Holding => wmsg' \notin blank,
               wpc' \notin {"replying", "closing"}
        PROVE  EndsAreTold'
    BY <1>w, <1>b, <1>p, <1>s, <1>t DEF EndsAreTold
  <1>4. CASE WorkerTop \/ GetNothing \/ HandlerFails \/ ReplyFails
    BY <1>4, <1>w DEF EndsAreTold, WorkerTop, GetNothing, HandlerFails, ReplyFails
  <1>5. CASE Get
    <2>1. wpc' \in {"done", "top", "starting"}
      BY <1>5 DEF Get
    <2>2. wpc' = "starting" => wmsg' \notin blank
      BY <1>5, <1>t, QueueShrinks DEF Get, Elements, TypeOK
    <2> QED BY <1>5, <1>w, <2>1, <2>2 DEF Get
  <1>6. CASE Prepare \/ BridgeCompletes \/ BridgeDeclines
    <2>1. /\ wpc \in Holding /\ wpc' = "handling" /\ wmsg' = wmsg /\ wmsg \in Messages
          /\ UNCHANGED listenerVars
          /\ \/ /\ PostsAbout(wmsg, "processing")
                /\ completedSeen' = completedSeen /\ noReplySeen' = noReplySeen
             \/ /\ PostsAbout(wmsg, "completed")
                /\ completedSeen' = completedSeen \cup {wmsg} /\ noReplySeen' = noReplySeen
             \/ /\ PostsAbout(wmsg, "no_reply")
                /\ completedSeen' = completedSeen /\ noReplySeen' = noReplySeen \cup {wmsg}
      BY <1>6, <1>t DEF Prepare, BridgeCompletes, BridgeDeclines, Publish, PostsAbout
    <2>2. /\ \A n \in Messages, s \in Statuses : Posted(n, s) => Posted(n, s)'
          /\ PostsAbout(wmsg, "completed") => Posted(wmsg, "completed")'
          /\ PostsAbout(wmsg, "no_reply") => Posted(wmsg, "no_reply")'
          /\ \A n \in Messages : Posted(n, "started")' <=> Posted(n, "started")
      BY <1>s, <1>t, <2>1, PostedThen
    <2> QED BY <1>b, <1>s, <1>t, <2>1, <2>2 DEF EndsAreTold
  <1>7. CASE HandlerReturns
    <2>1. /\ wpc = "handling" /\ wmsg' = wmsg /\ wmsg \in Messages
          /\ wpc' \in {"replying", "closing"}
          /\ wpc' = "replying" => ~outcome'.declined
          /\ outcome'.declined <=> wmsg \in noReplySeen
          /\ noReplySeen' \subseteq noReplySeen
          /\ UNCHANGED <<posts, completedSeen, listenerVars>>
      <3>1. PICK text \in BOOLEAN :
              /\ outcome' = [text |-> text, declined |-> wmsg \in noReplySeen]
              /\ wpc' = IF MayReply(outcome') THEN "replying" ELSE "closing"
        BY <1>7 DEF HandlerReturns
      <3>2. outcome'.declined <=> wmsg \in noReplySeen
        BY <3>1
      <3>3. wpc' \in {"replying", "closing"} /\ (wpc' = "replying" => ~outcome'.declined)
        BY <3>1 DEF MayReply
      <3> QED BY <1>7, <1>t, <3>2, <3>3 DEF HandlerReturns
    <2>2. Posted(wmsg, "no_reply") <=> wmsg \in noReplySeen
      BY <1>t, <2>1 DEF EndsAreTold, WorkInOrder
    <2> QED BY <1>b, <1>p, <1>s, <1>t, <2>1, <2>2 DEF EndsAreTold
  <1>8. CASE Reply
    <2>1. /\ wpc = "replying" /\ wpc' = "closing" /\ wmsg' = wmsg /\ wmsg \in Messages
          /\ UNCHANGED <<outcome, completedSeen, noReplySeen, listenerVars>>
          /\ PostsAbout(wmsg, "reply")
      BY <1>8, <1>t DEF Reply, PostsAbout
    <2>2. \A n \in Messages, s \in Statuses \ {"reply"} : Posted(n, s)' <=> Posted(n, s)
      BY <1>t, <2>1, PostedThen, <1>s
    <2> QED BY <1>b, <1>s, <1>t, <2>1, <2>2 DEF EndsAreTold, WorkInOrder
  <1>9. CASE Close \/ Fail
    <2>1. /\ wpc' = "top" /\ wmsg \in Messages
          /\ UNCHANGED listenerVars
          /\ completedSeen' \subseteq completedSeen /\ noReplySeen' = noReplySeen
          /\ posts' = posts \/ PostsAbout(wmsg, "completed") \/ PostsAbout(wmsg, "error")
      BY <1>9, <1>t DEF Close, Fail, Publish, PostsAbout
    <2>2. /\ \A n \in Messages, s \in Statuses : Posted(n, s) => Posted(n, s)'
          /\ \A n \in Messages : Posted(n, "started")' <=> Posted(n, "started")
      BY <1>p, <1>s, <1>t, <2>1, PostedThen
    <2> QED BY <1>b, <1>s, <1>t, <2>1, <2>2 DEF EndsAreTold
  <1> QED
    BY <1>1, <1>2, <1>3, <1>4, <1>5, <1>6, <1>7, <1>8, <1>9 DEF Next, Listener, Worker, Discarded

LEMMA LifeKept ==
  ASSUME NEW n, seen' \cap {n} = seen \cap {n}, Works(n)' <=> Works(n), Waits(n)' <=> Waits(n)
  PROVE  LifeOf(n)' = LifeOf(n)
  BY DEF LifeOf

(* Where a message is, and that a waiting one is not worked on.            *)
LEMMA LifeIs ==
  ASSUME InOnePlace, NEW n \in Messages
  PROVE  /\ LifeOf(n) = "unheard" <=> n \notin seen
         /\ LifeOf(n) = "working" <=> Works(n)
         /\ LifeOf(n) = "waiting" <=> Waits(n)
         /\ Lives[n] = LifeOf(n)
  <1>1. (Works(n) \/ Waits(n) => n \in seen) /\ ~(Works(n) /\ Waits(n))
    BY DEF InOnePlace, Works, Waits, Holding
  <1> QED BY <1>1 DEF LifeOf, Lives

LEMMA LivesKept ==
  ASSUME \A n \in Messages : LifeOf(n)' = LifeOf(n)
  PROVE  Lives' = Lives
  BY DEF Lives

(* One message moves on and the others stay where they are.                *)
LEMMA OneMoves ==
  ASSUME InOnePlace, InOnePlace', seen' = seen, NEW m \in Messages,
         \A n \in Messages \ {m} : (Works(n)' <=> Works(n)) /\ (Waits(n)' <=> Waits(n)),
         NEW from, NEW to,
         LifeOf(m) = from, LifeOf(m)' = to
  PROVE  Life!Goes(m, from, to)
  <1>1. \A n \in Messages \ {m} : LifeOf(n)' = LifeOf(n)
    BY LifeKept
  <1> QED BY <1>1, LifeIs DEF Life!Goes, Lives

(* A step that takes no message anywhere.                                  *)
LEMMA NoneMoves ==
  ASSUME seen' = seen, \A n \in Messages : (Works(n)' <=> Works(n)) /\ (Waits(n)' <=> Waits(n))
  PROVE  Lives' = Lives
  BY LifeKept, LivesKept

(* A step that posts s about m tells s about m.                            *)
LEMMA PostTells ==
  ASSUME NEW m \in Messages, NEW s, PostsAbout(m, s), ~Posted(m, s)
  PROVE  Life!Tell(m, s)
  BY DEF Life!Tell, Life!Told, Posted, PostsAbout

LEMMA LifeStep ==
  RuntimeInv /\ RuntimeInv' /\ EndsAreTold /\ [Next]_vars => [Life!Next]_(Life!vars)
  <1> SUFFICES ASSUME RuntimeInv, RuntimeInv', EndsAreTold, [Next]_vars
               PROVE  \/ \E m \in Messages :
                           \/ Life!TakeUp(m) \/ Life!Announce(m) \/ Life!Drop(m)
                           \/ Life!PassOver(m) \/ Life!Begin(m) \/ Life!Complete(m)
                           \/ Life!Decline(m) \/ Life!Answer(m) \/ Life!End(m) \/ Life!Fail(m)
                      \/ Lives' = Lives /\ posts' = posts
    BY BlankKept DEF Life!Next, Life!vars
  <1> USE MarkAssumption DEF NextMessage, BackToStream, listenerVars, workerVars, marks
  <1>t. /\ TypeOK /\ InOnePlace /\ InOnePlace' /\ WorkInOrder /\ PostsInOrder /\ DroppedIsGone
        /\ wpc \in Holding => wmsg \in Messages /\ wmsg \in seen
        /\ lpc \in {"claiming", "claimed"} => lmsg \in Messages /\ lmsg \in seen
        /\ seen \subseteq Messages
    BY InHand DEF RuntimeInv, TypeOK, InOnePlace
  <1>b. blank' = blank
    BY BlankKept
  <1>q. queue' = queue => \A n : Queued(n)' <=> Queued(n)
    BY QueueKept
  <1>l. \A m, s : Posted(m, s) <=> Life!Told(m, s)
    BY DEF Posted, Life!Told
  <1>1. CASE \/ ListenerTop \/ Dial \/ DialFails \/ StreamEnds \/ WorkerTop \/ GetNothing
             \/ HandlerReturns \/ HandlerFails \/ ReplyFails \/ StopReturns \/ UNCHANGED vars
    <2>1. /\ UNCHANGED <<seen, queue, lmsg, wmsg, posts>>
          /\ lpc' = "claiming" <=> lpc = "claiming"
          /\ wpc' = "starting" <=> wpc = "starting"
          /\ wpc' \in {"handling", "replying", "closing", "failing"}
               <=> wpc \in {"handling", "replying", "closing", "failing"}
      BY <1>1 DEF ListenerTop, Dial, DialFails, AfterError, StreamEnds, WorkerTop, GetNothing,
         HandlerReturns, HandlerFails, ReplyFails, StopReturns, vars
    <2> QED BY <1>q, <2>1, NoneMoves DEF Works, Waits
  <1>2. CASE Stop
    <2>1. /\ UNCHANGED <<seen, lpc, lmsg, wpc, wmsg, posts>>
          /\ queue' = queue \/ queue' = Append(queue, StopMark)
      BY <1>2 DEF Stop
    <2>2. StopMark \in Elements
      BY DEF Elements
    <2>3. \A n \in Messages : Queued(n)' <=> Queued(n)
      BY <1>q, <1>t, <2>1, <2>2, QueueGrows
    <2> QED BY <2>1, <2>3, NoneMoves DEF Works, Waits
  <1>3. ASSUME NEW m \in Messages, Receive(m) PROVE Life!TakeUp(m)
    <2>1. /\ m \notin seen /\ seen' = seen \cup {m} /\ lpc = "stream"
          /\ lpc' = "claiming" /\ lmsg' = m /\ lmsg = NoMessage
          /\ UNCHANGED <<queue, wpc, wmsg, posts>>
      BY <1>3, <1>t DEF Receive, InOnePlace
    <2>2. \A n \in Messages \ {m} : LifeOf(n)' = LifeOf(n)
      BY <1>q, <2>1, LifeKept DEF Works, Waits
    <2>3. LifeOf(m) = "unheard"
      BY <1>t, <2>1, LifeIs
    <2>4. LifeOf(m)' = "waiting"
      <3>1. Waits(m)' /\ ~Works(m)' /\ m \in seen'
        BY <1>t, <2>1 DEF Waits, Works, InOnePlace, Holding
      <3> QED BY <3>1 DEF LifeOf
    <2>5. Life!Goes(m, "unheard", "waiting")
      BY <2>2, <2>3, <2>4 DEF Life!Goes, Lives
    <2> QED BY <1>b, <2>1, <2>5 DEF Life!TakeUp
  <1>4. CASE Enqueue
    <2>1. /\ lpc = "claiming" /\ lpc' = "claimed" /\ queue' = Append(queue, lmsg)
          /\ UNCHANGED <<seen, lmsg, wpc, wmsg, posts>>
          /\ lmsg \in Elements /\ ~Queued(lmsg)
      BY <1>4, <1>t DEF Enqueue, Elements, InOnePlace
    <2>2. \A n : Queued(n)' <=> Queued(n) \/ n = lmsg
      BY <1>t, <2>1, QueueGrows
    <2> QED BY <2>1, <2>2, NoneMoves DEF Works, Waits
  <1>5. CASE Announce
    <2>1. /\ lpc = "claimed" /\ lpc' = "stream" /\ lmsg \in Messages /\ lmsg \in seen
          /\ PostsAbout(lmsg, "started")
          /\ UNCHANGED <<seen, queue, wpc, wmsg>>
      BY <1>5, <1>t DEF Announce, Publish, PostsAbout
    <2>2. Lives' = Lives
      BY <1>q, <2>1, NoneMoves DEF Works, Waits
    <2>3. ~Posted(lmsg, "started") /\ ~Posted(lmsg, "dropped") /\ Lives[lmsg] # "unheard"
      BY <1>t, <2>1, LifeIs DEF EndsAreTold, DroppedIsGone
    <2>4. Life!Announce(lmsg)
      BY <1>b, <1>l, <2>1, <2>2, <2>3, PostTells DEF Life!Announce
    <2> QED BY <2>1, <2>4
  <1>6. CASE Drop
    <2>1. /\ lpc = "claiming" /\ lpc' = "stream" /\ lmsg \in Messages /\ lmsg \in seen
          /\ lmsg' = NoMessage
          /\ lmsg # wmsg /\ ~Queued(lmsg) /\ posts[lmsg] = <<>>
          /\ PostsAbout(lmsg, "dropped")
          /\ UNCHANGED <<seen, queue, wpc, wmsg>>
      BY <1>6, <1>t DEF Drop, Publish, PostsAbout, InOnePlace, PostsInOrder
    <2>2. PICK m \in Messages : m = lmsg
      BY <2>1
    <2>3. LifeOf(m) = "waiting"
      BY <1>t, <2>1, <2>2, LifeIs DEF Waits
    <2>4. LifeOf(m)' = "over"
      <3>1. ~Works(m)' /\ ~Waits(m)' /\ m \in seen'
        BY <1>q, <2>1, <2>2 DEF Works, Waits
      <3> QED BY <3>1 DEF LifeOf
    <2>5. \A n \in Messages \ {m} : (Works(n)' <=> Works(n)) /\ (Waits(n)' <=> Waits(n))
      BY <1>q, <2>1, <2>2 DEF Works, Waits
    <2>6. Life!Goes(m, "waiting", "over")
      BY <1>t, <2>1, <2>3, <2>4, <2>5, OneMoves
    <2>7. Life!Tell(m, "dropped")
      <3>1. ~Posted(m, "dropped")
        BY <2>1, <2>2, EmptySeq DEF Posted
      <3> QED BY <2>1, <2>2, <3>1, PostTells
    <2>8. Life!Drop(m)
      BY <1>b, <2>1, <2>2, <2>6, <2>7 DEF Life!Drop
    <2> QED BY <2>8
  <1>7. CASE Get
    <2> DEFINE h == Head(queue)
    <2>1. /\ h \in Elements /\ Queued(h)
          /\ \A n \in Messages : n = h => ~Queued(n)'
          /\ wpc = "getting" /\ wmsg = NoMessage
          /\ wmsg' = IF h \in Messages \ blank THEN h ELSE NoMessage
          /\ wpc' = CASE h = StopMark -> "done" [] h \in blank -> "top" [] OTHER -> "starting"
          /\ UNCHANGED <<seen, lpc, lmsg, posts>>
      BY <1>7, <1>t, QueueShrinks DEF Get, InOnePlace, Holding
    <2>2. \A n : Queued(n)' <=> Queued(n) /\ (n = h => Queued(n)')
      <3>1. queue \in Seq(Elements) /\ queue # <<>> /\ queue' = Tail(queue)
        BY <1>7, <1>t DEF Get, TypeOK, Elements
      <3>2. \A n : Queued(n)' => Queued(n)
        BY <1>7, <1>t, QueueShrinks DEF Get
      <3>3. ASSUME NEW n, Queued(n), n # h PROVE Queued(n)'
        <4>1. PICK i \in 1..Len(queue) : queue[i] = n
          BY <3>3 DEF Queued
        <4>2. /\ Len(queue') = Len(queue) - 1 /\ Len(queue) \in Nat /\ i # 1
              /\ \A j \in 1..Len(queue') : queue'[j] = queue[j + 1]
          BY <3>1, <3>3, <4>1, TakenQueue
        <4>3. i - 1 \in 1..Len(queue') /\ (i - 1) + 1 = i
          BY <4>2
        <4> QED BY <4>1, <4>2, <4>3 DEF Queued
      <3> QED BY <3>2, <3>3
    <2>3. h \in Messages => h \in seen /\ (lpc = "claiming" => h # lmsg)
      BY <1>t, <2>1 DEF InOnePlace
    <2> HIDE DEF h
    <2>4. blank \subseteq Messages
      BY <1>t DEF TypeOK
    <2>5. CASE h \notin blank
      <3>1. CASE h = StopMark
        <4>1. wmsg' = NoMessage /\ wpc' = "done"
          BY <2>1, <2>5, <3>1
        <4> QED BY <2>1, <2>2, <3>1, <4>1, NoneMoves DEF Works, Waits
      <3>2. CASE h \in Messages
        <4>1. wmsg' = h /\ wpc' = "starting"
          BY <2>1, <2>5, <3>2
        <4> QED BY <2>1, <2>2, <3>2, <4>1, NoneMoves DEF Works, Waits
      <3> QED BY <2>1, <3>1, <3>2 DEF Elements
    <2>6. CASE h \in blank
      <3>1. wmsg' = NoMessage /\ wpc' = "top" /\ h \in Messages
        BY <2>1, <2>4, <2>6
      <3>2. PICK m \in Messages : m = h
        BY <3>1
      <3>3. LifeOf(m) = "waiting"
        BY <1>t, <2>1, <3>2, LifeIs DEF Waits
      <3>4. LifeOf(m)' = "over"
        <4>1. ~Works(m)' /\ ~Waits(m)' /\ m \in seen'
          BY <2>1, <2>3, <3>1, <3>2 DEF Works, Waits
        <4> QED BY <4>1 DEF LifeOf
      <3>5. \A n \in Messages \ {m} : (Works(n)' <=> Works(n)) /\ (Waits(n)' <=> Waits(n))
        BY <2>1, <2>2, <3>1, <3>2 DEF Works, Waits
      <3>6. Life!Goes(m, "waiting", "over")
        BY <1>t, <2>1, <3>3, <3>4, <3>5, OneMoves
      <3>7. Life!PassOver(m)
        BY <1>b, <2>1, <2>6, <3>2, <3>6 DEF Life!PassOver
      <3> QED BY <3>7
    <2> QED BY <2>5, <2>6
  <1>8. CASE Prepare
    <2>1. /\ wpc = "starting" /\ wpc' = "handling" /\ wmsg' = wmsg /\ wmsg \in Messages
          /\ wmsg \in seen /\ ~Queued(wmsg) /\ (lpc = "claiming" => wmsg # lmsg)
          /\ PostsAbout(wmsg, "processing") /\ ~Posted(wmsg, "processing") /\ wmsg \notin blank
          /\ UNCHANGED <<seen, queue, lpc, lmsg>>
      BY <1>8, <1>t DEF Prepare, Publish, PostsAbout, InOnePlace, Holding, WorkInOrder, Unworked,
         EndsAreTold, Statuses
    <2>2. PICK m \in Messages : m = wmsg
      BY <2>1
    <2>3. LifeOf(m) = "waiting"
      BY <1>t, <2>1, <2>2, LifeIs DEF Waits
    <2>4. LifeOf(m)' = "working"
      <3>1. Works(m)' /\ ~Waits(m)' /\ m \in seen'
        BY <1>q, <2>1, <2>2 DEF Works, Waits
      <3> QED BY <3>1 DEF LifeOf
    <2>5. \A n \in Messages \ {m} : (Works(n)' <=> Works(n)) /\ (Waits(n)' <=> Waits(n))
      BY <1>q, <2>1, <2>2 DEF Works, Waits
    <2>6. Life!Goes(m, "waiting", "working")
      BY <1>t, <2>1, <2>3, <2>4, <2>5, OneMoves
    <2>7. \A n \in Messages : Lives[n] # "working"
      BY <1>t, <2>1, LifeIs DEF Works
    <2>8. Life!Begin(m)
      BY <1>b, <2>1, <2>2, <2>6, <2>7, PostTells DEF Life!Begin
    <2> QED BY <2>8
  <1>9. CASE BridgeCompletes \/ BridgeDeclines \/ Reply
    <2>1. /\ Works(wmsg) /\ wmsg \in Messages
          /\ UNCHANGED <<seen, queue, lpc, lmsg, wmsg>>
          /\ wpc \in {"handling", "replying"} /\ wpc' \in {"handling", "closing"}
          /\ ~Posted(wmsg, "reply")
          /\ \/ PostsAbout(wmsg, "completed") /\ ~Posted(wmsg, "completed")
             \/ PostsAbout(wmsg, "no_reply") /\ ~Posted(wmsg, "no_reply")
             \/ PostsAbout(wmsg, "reply") /\ ~Posted(wmsg, "no_reply")
      BY <1>9, <1>t DEF BridgeCompletes, BridgeDeclines, Reply, Publish, PostsAbout, Works,
         Holding, WorkInOrder
    <2>2. Lives' = Lives
      BY <1>q, <2>1, NoneMoves DEF Works, Waits
    <2>3. Lives[wmsg] = "working"
      BY <1>t, <2>1, LifeIs
    <2>4. Life!Complete(wmsg) \/ Life!Decline(wmsg) \/ Life!Answer(wmsg)
      BY <1>b, <1>l, <2>1, <2>2, <2>3, PostTells DEF Life!Complete, Life!Decline, Life!Answer
    <2> QED BY <2>1, <2>4
  <1>10. CASE Close \/ Fail
    <2>1. /\ Works(wmsg) /\ wmsg \in Messages /\ wmsg \in seen
          /\ ~Queued(wmsg) /\ (lpc = "claiming" => wmsg # lmsg)
          /\ wpc' = "top" /\ wmsg' = NoMessage /\ wpc \notin {"starting"}
          /\ UNCHANGED <<seen, queue, lpc, lmsg>>
      BY <1>10, <1>t DEF Close, Fail, Publish, InOnePlace, Holding, Works
    <2>2. PICK m \in Messages : m = wmsg
      BY <2>1
    <2>3. LifeOf(m) = "working"
      BY <1>t, <2>1, <2>2, LifeIs
    <2>4. LifeOf(m)' = "over"
      <3>1. ~Works(m)' /\ ~Waits(m)' /\ m \in seen'
        BY <1>q, <2>1, <2>2 DEF Works, Waits
      <3> QED BY <3>1 DEF LifeOf
    <2>5. \A n \in Messages \ {m} : (Works(n)' <=> Works(n)) /\ (Waits(n)' <=> Waits(n))
      BY <1>q, <2>1, <2>2 DEF Works, Waits
    <2>6. Life!Goes(m, "working", "over")
      BY <1>t, <2>1, <2>3, <2>4, <2>5, OneMoves
    <2>7. CASE Close
      <3>1. /\ wpc = "closing"
            /\ wmsg \in completedSeen <=> Posted(wmsg, "completed")
            /\ outcome.declined <=> Posted(wmsg, "no_reply")
        BY <1>t, <2>7 DEF Close, EndsAreTold, WorkInOrder
      <3>2. IF Posted(wmsg, "completed") \/ Posted(wmsg, "no_reply") THEN posts' = posts
            ELSE PostsAbout(wmsg, "completed")
        BY <2>7, <3>1 DEF Close, Publish, PostsAbout
      <3>3. Life!End(m)
        BY <1>b, <1>l, <2>2, <2>6, <3>2, PostTells DEF Life!End
      <3> QED BY <3>3
    <2>8. CASE Fail
      <3>1. PostsAbout(wmsg, "error") /\ ~Posted(wmsg, "error")
        BY <1>t, <2>8 DEF Fail, Publish, PostsAbout, WorkInOrder, Holding
      <3>2. Life!Fail(m)
        BY <1>b, <2>2, <2>6, <3>1, PostTells DEF Life!Fail
      <3> QED BY <3>2
    <2> QED BY <1>10, <2>7, <2>8
  <1> QED
    BY <1>1, <1>2, <1>3, <1>4, <1>5, <1>6, <1>7, <1>8, <1>9, <1>10
    DEF Next, Listener, Worker, Discarded

(* The two threads and their stop implement the abstract life of messages. *)
THEOREM ImplementsMessageLife == Spec => EachMessageLivesOnce
  <1>1. Init => EndsAreTold /\ Life!Init
    <2>1. ASSUME Init, NEW m \in Messages PROVE LifeOf(m) = "unheard"
      <3>1. m \notin seen /\ ~Works(m) /\ ~Waits(m)
        BY <2>1, EmptySeq DEF Init, Works, Waits, Queued
      <3> QED BY <3>1 DEF LifeOf
    <2> QED BY <2>1, EndsInit DEF Init, Life!Init, Lives
  <1>2. RuntimeInv /\ EndsAreTold /\ [Next]_vars => EndsAreTold'
    BY EndsStep
  <1>3. RuntimeInv /\ RuntimeInv' /\ EndsAreTold /\ [Next]_vars => [Life!Next]_(Life!vars)
    BY LifeStep
  <1> QED BY <1>1, <1>2, <1>3, RuntimeAlways, PTL DEF Spec, EachMessageLivesOnce, Life!Spec
=============================================================================
