----------------------------- MODULE MailboxSpec -----------------------------
(***************************************************************************)
(* What a webhook mailbox promises, without schedules, drains or copies: a *)
(* webhook that was accepted waits until its region has settled it or its  *)
(* attempts are used up, a mailbox is settled in order up to the threads   *)
(* of a parallel drain, and what has left never waits again.               *)
(***************************************************************************)
EXTENDS Integers, FiniteSets

CONSTANTS Id, Box, Threads, MaxAttempts

VARIABLES
    accepted,    \* webhooks that were answered 202
    waiting,     \* those that have not left
    settled,     \* those their region took or told to drop, or too old
    tries        \* attempts made

Init ==
    /\ accepted = {} /\ waiting = {} /\ settled = {}
    /\ tries = [m \in Id |-> 0]

Before(m) == {k \in waiting \ settled : k < m /\ Box[k] = Box[m]}

\* Webhooks are numbered in the order they come.
Accept(m) ==
    /\ m \notin accepted
    /\ \A k \in Id : k < m => k \in accepted
    /\ accepted' = accepted \cup {m}
    /\ waiting' = waiting \cup {m}
    /\ UNCHANGED <<settled, tries>>

Try(m) ==
    /\ m \in accepted
    /\ tries[m] < MaxAttempts
    /\ tries' = [tries EXCEPT ![m] = @ + 1]
    /\ UNCHANGED <<accepted, waiting, settled>>

\* The region may get a webhook again later, also one that has left.
Settle(m) ==
    /\ m \in accepted \ settled
    /\ Cardinality(Before(m)) < Threads
    /\ settled' = settled \cup {m}
    /\ UNCHANGED <<accepted, waiting, tries>>

Leave(m) ==
    /\ m \in waiting
    /\ m \in settled \/ tries[m] >= MaxAttempts
    /\ waiting' = waiting \ {m}
    /\ UNCHANGED <<accepted, settled, tries>>

\* The webhooks of a mailbox up to m are too old.
Expire(m) ==
    LET old == {k \in waiting : k <= m /\ Box[k] = Box[m]}
    IN  /\ m \in waiting
        /\ waiting' = waiting \ old
        /\ settled' = settled \cup old
        /\ UNCHANGED <<accepted, tries>>

Next == \E m \in Id : Accept(m) \/ Try(m) \/ Settle(m) \/ Leave(m) \/ Expire(m)

Spec == Init /\ [][Next]_<<accepted, waiting, settled, tries>>
=============================================================================
