------------------------------ MODULE MCMailbox ------------------------------
(***************************************************************************)
(* Instances of Mailbox for TLC.                                           *)
(***************************************************************************)
EXTENDS Mailbox, TLC

CallerSymmetry == Permutations(Callers)

MailboxSymmetry == CallerSymmetry \cup Permutations(Messages)
=============================================================================
