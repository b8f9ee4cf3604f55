------------------------------ MODULE Mailbox ------------------------------
(***************************************************************************)
(* The mailbox of one agent (agent.c: agent_send, agent_recv and           *)
(* agent_recv_filter): a list, a mutex and a condition variable.  Any      *)
(* thread may send; only the thread of the agent receives.  Every call     *)
(* holds the mutex except while it sleeps in pthread_cond_wait, so it is   *)
(* one step up to its wait and one step from the wait on.  A signal that   *)
(* finds nobody asleep has no effect, and a sleeper that was signaled has  *)
(* to get the mutex back: other sends may come in between.                 *)
(***************************************************************************)
EXTENDS MessageList

CONSTANTS Senders,    \* the threads that send to this agent
          Kinds,      \* the message types they send
          Calls,      \* the receive functions the agent uses
          SpuriousIn, \* the calls whose condition wait may end without a signal
          MaxSends    \* bound: messages of each sender

ASSUME CallsAssumption == Calls \subseteq {"recv", "recv_filter"}
ASSUME SpuriousAssumption == SpuriousIn \subseteq Calls
ASSUME MaxSendsAssumption == MaxSends \in Nat

VARIABLES queue,    \* r->msg_queue
          sent,     \* history: how many messages each sender has sent
          taken,    \* history: the messages received
          receiver, \* the receiving thread: what it does
          call,     \* ... which function it called last
          want      \* ... and which kinds the filter of that call accepts

mailboxVars == <<queue, sent, taken, receiver, call, want>>

Messages == [from : Senders, kind : Kinds, nr : Nat]

(* A receiver that has read the head of an empty list as a message is in   *)
(* the state "corrupt", which is not a state it should be in.              *)
TypeOK ==
    /\ queue \in Seq(Messages)
    /\ sent \in [Senders -> Nat]
    /\ taken \in Seq(Messages)
    /\ receiver \in {"idle", "asleep", "awake"}
    /\ call \in {"recv", "recv_filter"}
    /\ want \in SUBSET Kinds

Init ==
    /\ queue = <<>>
    /\ sent = [s \in Senders |-> 0]
    /\ taken = <<>>
    /\ receiver = "idle"
    /\ call = "recv_filter"
    /\ want = {}

(* Names with an underscore are deliberately wrong variants: each of them   *)
(* breaks a property that the variant it is named after satisfies.  Here   *)
(* only a message to an empty list is signaled.                            *)
Send_SignalIfEmpty(s, k) ==
    /\ sent[s] < MaxSends
    /\ sent' = [sent EXCEPT ![s] = @ + 1]
    /\ queue' = Append(queue, [from |-> s, kind |-> k, nr |-> sent'[s]])
    /\ receiver' = IF receiver = "asleep" /\ queue = <<>> THEN "awake" ELSE receiver
    /\ UNCHANGED <<taken, call, want>>

Send(s, k) ==
    /\ sent[s] < MaxSends
    /\ sent' = [sent EXCEPT ![s] = @ + 1]
    /\ queue' = Append(queue, [from |-> s, kind |-> k, nr |-> sent'[s]])
    /\ receiver' = IF receiver = "asleep" THEN "awake" ELSE receiver
    /\ UNCHANGED <<taken, call, want>>

(* The head of the list is unlinked in place of the message. *)
Deliver_UnlinksHead(kinds) ==
    /\ taken' = Append(taken, Found(queue, kinds))
    /\ queue' = Tail(queue)
    /\ receiver' = "idle"

Deliver(kinds) ==
    /\ taken' = Append(taken, Found(queue, kinds))
    /\ queue' = Unlinked(queue, kinds)
    /\ receiver' = "idle"

Sleep == receiver' = "asleep" /\ UNCHANGED <<queue, taken>>

(* The part of a call before its first wait.  agent_recv takes what comes. *)
Receive(c, kinds) ==
    /\ c \in Calls
    /\ receiver = "idle"
    /\ call' = c
    /\ want' = kinds
    /\ IF Acceptable(queue, kinds) = {} THEN Sleep ELSE Deliver(kinds)
    /\ UNCHANGED sent

Recv == Receive("recv", Kinds)

RecvFilter == \E kinds \in SUBSET Kinds : Receive("recv_filter", kinds)

(* The filtering call does not search again either. *)
Resume_Once ==
    /\ receiver = "awake"
    /\ IF Acceptable(queue, want) # {}
          THEN Deliver(want)
          ELSE receiver' = "corrupt" /\ UNCHANGED <<queue, taken>>
    /\ UNCHANGED <<sent, call, want>>

(* The part after a wait.  agent_recv_filter searches the list again and   *)
(* may go back to sleep; agent_recv takes the first entry unconditionally. *)
Resume ==
    /\ receiver = "awake"
    /\ IF Acceptable(queue, want) # {}
          THEN Deliver(want)
          ELSE /\ receiver' = IF call = "recv_filter" THEN "asleep" ELSE "corrupt"
               /\ UNCHANGED <<queue, taken>>
    /\ UNCHANGED <<sent, call, want>>

(* POSIX lets a condition wait end without any signal. *)
WakeSpuriously ==
    /\ receiver = "asleep"
    /\ call \in SpuriousIn
    /\ receiver' = "awake"
    /\ UNCHANGED <<queue, sent, taken, call, want>>

Next ==
    \/ \E s \in Senders, k \in Kinds : Send(s, k)
    \/ Recv
    \/ RecvFilter
    \/ Resume
    \/ WakeSpuriously

(* The operating system schedules a receiver that has been woken. *)
Spec == Init /\ [][Next]_mailboxVars /\ WF_mailboxVars(Resume)

-----------------------------------------------------------------------------
(* The receiver never sleeps on a message it waits for, however the sends  *)
(* fall between its search, its wait and its wakeup.                       *)
NoLostWakeup == receiver = "asleep" => Acceptable(queue, want) = {}

(* agent_recv calls list_first_entry only on a list that is not empty.     *)
FirstEntryExists ==
    receiver = "awake" /\ call = "recv" => queue # <<>>

(* With its mutex and condition variable the mailbox is the atomic queue   *)
(* that the protocols on top of it (Mgm.tla) are modelled with.            *)
Queue == INSTANCE MessageQueue
IsMessageQueue == Queue!Spec

(* A call returns once there is a message it accepts. *)
CallsReturn ==
    (receiver \in {"asleep", "awake"} /\ Acceptable(queue, want) # {})
        ~> receiver = "idle"
=============================================================================
