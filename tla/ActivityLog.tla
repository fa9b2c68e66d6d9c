----------------------------- MODULE ActivityLog -----------------------------
(***************************************************************************)
(* What the activity log promises its readers: a chain.  Every event is    *)
(* appended atomically, numbered from 1 without gaps, and carries the hash *)
(* of the line before it, however many processes record events.  Where     *)
(* writes may be cut short the chain may start afresh, and nothing else.   *)
(***************************************************************************)
EXTENDS Naturals, Sequences

CONSTANTS
    Ids,        \* the events; an event's line is hashed to its id
    MayBreak    \* may a line be lost to a crash, and the chain with it?

VARIABLE chain

(* prev_hash is null for the first record.                                 *)
NoHash == 0

LastHash(s) == IF s = <<>> THEN NoHash ELSE s[Len(s)].id

Link(s, i) == [kind |-> "record", seq |-> Len(s) + 1, prev |-> LastHash(s), id |-> i]

Init == chain = <<>>

Record(i) == chain' = Append(chain, Link(chain, i))

Restart == MayBreak /\ chain' = <<>>

Next == (\E i \in Ids : Record(i)) \/ Restart

Spec == Init /\ [][Next]_chain
=============================================================================
