------------------------------ MODULE MessageLife ------------------------------
(***************************************************************************)
(* What a runtime promises of the messages it takes up.  A message waits,  *)
(* is worked on, one at a time, and is over; it never goes back.  What is  *)
(* told about it is told once: that it started at any time after it was    *)
(* taken up, the rest while it is worked on.  It is answered or declined,  *)
(* never both, and the work on it ends with a word on how it went.         *)
(***************************************************************************)
EXTENDS Naturals, Sequences

CONSTANT Messages

VARIABLES
    blank,  \* the messages that ask for nothing
    life,   \* of each message: unheard, waiting, working or over
    told    \* what was told about each message, in order

vars == <<blank, life, told>>

Init ==
    /\ blank \in SUBSET Messages
    /\ life = [m \in Messages |-> "unheard"]
    /\ told = [m \in Messages |-> <<>>]

Told(m, what) == \E i \in 1..Len(told[m]) : told[m][i] = what

Tell(m, what) == ~Told(m, what) /\ told' = [told EXCEPT ![m] = Append(@, what)]

Goes(m, from, to) == life[m] = from /\ life' = [life EXCEPT ![m] = to]

TakeUp(m) == Goes(m, "unheard", "waiting") /\ UNCHANGED <<blank, told>>

Announce(m) ==
    /\ life[m] # "unheard" /\ ~Told(m, "dropped")
    /\ Tell(m, "started")
    /\ UNCHANGED <<blank, life>>

Drop(m) ==
    /\ told[m] = <<>>
    /\ Goes(m, "waiting", "over") /\ Tell(m, "dropped")
    /\ UNCHANGED blank

PassOver(m) == m \in blank /\ Goes(m, "waiting", "over") /\ UNCHANGED <<blank, told>>

Begin(m) ==
    /\ m \notin blank /\ \A n \in Messages : life[n] # "working"
    /\ Goes(m, "waiting", "working") /\ Tell(m, "processing")
    /\ UNCHANGED blank

(* An answer is followed by no word that there is none.                    *)
Complete(m) == life[m] = "working" /\ Tell(m, "completed") /\ UNCHANGED <<blank, life>>

Decline(m) ==
    /\ life[m] = "working" /\ ~Told(m, "reply")
    /\ Tell(m, "no_reply")
    /\ UNCHANGED <<blank, life>>

Answer(m) ==
    /\ life[m] = "working" /\ ~Told(m, "no_reply")
    /\ Tell(m, "reply")
    /\ UNCHANGED <<blank, life>>

(* The work ends: with a word that it is complete, unless the handler gave *)
(* one or declined; or with an error.                                      *)
End(m) ==
    /\ Goes(m, "working", "over")
    /\ IF Told(m, "completed") \/ Told(m, "no_reply") THEN UNCHANGED told
       ELSE Tell(m, "completed")
    /\ UNCHANGED blank

Fail(m) == Goes(m, "working", "over") /\ Tell(m, "error") /\ UNCHANGED blank

Next == \E m \in Messages :
    \/ TakeUp(m)
    \/ Announce(m)
    \/ Drop(m)
    \/ PassOver(m)
    \/ Begin(m)
    \/ Complete(m)
    \/ Decline(m)
    \/ Answer(m)
    \/ End(m)
    \/ Fail(m)

Spec == Init /\ [][Next]_vars
=============================================================================
