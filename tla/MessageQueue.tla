---------------------------- MODULE MessageQueue ----------------------------
(***************************************************************************)
(* What a mailbox promises its users: senders put messages in, the owner   *)
(* takes out the first one that a filter of its choice accepts, and        *)
(* neither of them ever touches anything else.                             *)
(***************************************************************************)
EXTENDS MessageList

CONSTANTS Senders, Kinds

VARIABLES queue, \* the messages put in and not yet taken out
          sent,  \* how many messages each sender has put in
          taken  \* the messages taken out, in order

vars == <<queue, sent, taken>>

Init ==
    /\ queue = <<>>
    /\ sent = [s \in Senders |-> 0]
    /\ taken = <<>>

Put(s, k) ==
    /\ sent' = [sent EXCEPT ![s] = @ + 1]
    /\ queue' = Append(queue, [from |-> s, kind |-> k, nr |-> sent'[s]])
    /\ UNCHANGED taken

Take(kinds) ==
    /\ Acceptable(queue, kinds) # {}
    /\ taken' = Append(taken, Found(queue, kinds))
    /\ queue' = Unlinked(queue, kinds)
    /\ UNCHANGED sent

Next ==
    \/ \E s \in Senders, k \in Kinds : Put(s, k)
    \/ \E kinds \in SUBSET Kinds : Take(kinds)

Spec == Init /\ [][Next]_vars
=============================================================================
