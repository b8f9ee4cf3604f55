--------------------------- MODULE MailboxProofs ---------------------------
(***************************************************************************)
(* Proofs about the mailbox, for any senders, message types and bound.     *)
(* They hold as long as the condition wait of agent_recv ends only when it *)
(* is signaled; that of agent_recv_filter may end spuriously.              *)
(***************************************************************************)
EXTENDS Mailbox, MessageListProofs

WaitsAreSafe == "recv" \notin SpuriousIn

(* The call in progress is one the owner makes, and agent_recv accepts any *)
(* kind of message.                                                        *)
CallInProgress ==
    receiver # "idle" => call \in Calls /\ (call = "recv" => want = Kinds)

IInv == TypeOK /\ CallInProgress /\ NoLostWakeup /\ FirstEntryExists

LEMMA InitIInv == Init => IInv
BY DEF Init, IInv, TypeOK, CallInProgress, NoLostWakeup, FirstEntryExists

-----------------------------------------------------------------------------
(* A list of messages that is not empty holds one that agent_recv accepts. *)
LEMMA AnyKindAcceptable ==
    ASSUME NEW list \in Seq(Messages), list # <<>>
    PROVE  Acceptable(list, Kinds) # {}
<1>1. 1 \in DOMAIN list /\ list[1] \in Messages
  OBVIOUS
<1>. QED
  BY <1>1 DEF Acceptable, Messages

LEMMA DeliverType ==
    ASSUME TypeOK, NEW kinds, Acceptable(queue, kinds) # {}, Deliver(kinds)
    PROVE  taken' \in Seq(Messages) /\ queue' \in Seq(Messages) /\ receiver' = "idle"
<1>1. Found(queue, kinds) \in Messages
  BY FoundType DEF TypeOK
<1>2. Unlinked(queue, kinds) \in Seq(Messages)
  BY UnlinkedType DEF TypeOK
<1>3. Append(taken, Found(queue, kinds)) \in Seq(Messages)
  BY <1>1, AppendProperties DEF TypeOK
<1>. QED
  BY <1>2, <1>3 DEF Deliver

LEMMA SendIInv ==
    ASSUME IInv, NEW s \in Senders, NEW k \in Kinds, Send(s, k)
    PROVE  IInv'
<1>1. sent[s] + 1 \in Nat /\ sent' \in [Senders -> Nat] /\ sent'[s] \in Nat
  BY DEF Send, IInv, TypeOK
<1>2. [from |-> s, kind |-> k, nr |-> sent'[s]] \in Messages
  BY <1>1 DEF Messages
<1>3. queue' \in Seq(Messages) /\ queue' # <<>>
  BY <1>2, AppendProperties DEF Send, IInv, TypeOK
<1>. QED
  BY <1>1, <1>3
  DEF Send, IInv, TypeOK, CallInProgress, NoLostWakeup, FirstEntryExists

LEMMA ReceiveIInv ==
    ASSUME IInv, NEW c, NEW kinds \in SUBSET Kinds, Receive(c, kinds),
           c = "recv" => kinds = Kinds
    PROVE  IInv'
<1>t. TypeOK /\ c \in {"recv", "recv_filter"}
  BY CallsAssumption DEF Receive, IInv
<1>1. CASE Acceptable(queue, kinds) = {}
  BY <1>1, <1>t DEF Receive, Sleep, IInv, TypeOK, CallInProgress,
                    NoLostWakeup, FirstEntryExists
<1>2. CASE Acceptable(queue, kinds) # {}
  <2>1. Deliver(kinds)
    BY <1>2 DEF Receive
  <2>2. taken' \in Seq(Messages) /\ queue' \in Seq(Messages) /\ receiver' = "idle"
    BY <1>2, <1>t, <2>1, DeliverType
  <2>. QED
    BY <1>t, <2>2 DEF Receive, IInv, TypeOK, CallInProgress,
                      NoLostWakeup, FirstEntryExists
<1>. QED
  BY <1>1, <1>2

LEMMA ResumeIInv ==
    ASSUME IInv, Resume
    PROVE  IInv'
<1>t. TypeOK /\ receiver = "awake"
  BY DEF Resume, IInv
<1>1. CASE Acceptable(queue, want) = {}
  <2>1. call = "recv_filter"
    BY <1>1, <1>t, AnyKindAcceptable
    DEF IInv, TypeOK, CallInProgress, FirstEntryExists
  <2>. QED
    BY <1>1, <1>t, <2>1 DEF Resume, IInv, TypeOK, CallInProgress,
                            NoLostWakeup, FirstEntryExists
<1>2. CASE Acceptable(queue, want) # {}
  <2>1. Deliver(want)
    BY <1>2 DEF Resume
  <2>2. taken' \in Seq(Messages) /\ queue' \in Seq(Messages) /\ receiver' = "idle"
    BY <1>2, <1>t, <2>1, DeliverType
  <2>. QED
    BY <1>t, <2>2 DEF Resume, IInv, TypeOK, CallInProgress,
                      NoLostWakeup, FirstEntryExists
<1>. QED
  BY <1>1, <1>2

LEMMA NextIInv ==
    ASSUME WaitsAreSafe
    PROVE  IInv /\ [Next]_mailboxVars => IInv'
<1>. SUFFICES ASSUME IInv, [Next]_mailboxVars PROVE IInv'
  OBVIOUS
<1>1. ASSUME NEW s \in Senders, NEW k \in Kinds, Send(s, k) PROVE IInv'
  BY <1>1, SendIInv
<1>2. CASE Recv
  BY <1>2, ReceiveIInv DEF Recv
<1>3. CASE RecvFilter
  BY <1>3, ReceiveIInv DEF RecvFilter
<1>4. CASE Resume
  BY <1>4, ResumeIInv
<1>5. CASE WakeSpuriously
  BY <1>5 DEF WakeSpuriously, WaitsAreSafe, IInv, TypeOK, CallInProgress,
              NoLostWakeup, FirstEntryExists
<1>6. CASE UNCHANGED mailboxVars
  BY <1>6 DEF mailboxVars, IInv, TypeOK, CallInProgress, NoLostWakeup,
              FirstEntryExists
<1>. QED
  BY <1>1, <1>2, <1>3, <1>4, <1>5, <1>6 DEF Next

(* No receive call reads the head of an empty list as a message: the state *)
(* "corrupt", which is none of the types, is not reached.                  *)
THEOREM MailboxTypes ==
    ASSUME WaitsAreSafe
    PROVE  Spec => [](TypeOK /\ FirstEntryExists)
<1>1. IInv => TypeOK /\ FirstEntryExists
  BY DEF IInv
<1>. QED
  BY <1>1, InitIInv, NextIInv, PTL DEF Spec

(* A receiver never sleeps on a message that it waits for, however sends   *)
(* fall between its search, its wait and its wakeup.                       *)
THEOREM ReceiversAreSafe ==
    ASSUME WaitsAreSafe
    PROVE  Spec => []NoLostWakeup
<1>1. IInv => NoLostWakeup
  BY DEF IInv
<1>. QED
  BY <1>1, InitIInv, NextIInv, PTL DEF Spec

-----------------------------------------------------------------------------
(* Both modules search and unlink with the operators of MessageList.tla.   *)
LEMMA SameOperators ==
    ASSUME NEW kinds
    PROVE  /\ Queue!Acceptable(queue, kinds) = Acceptable(queue, kinds)
           /\ Queue!Found(queue, kinds) = Found(queue, kinds)
           /\ Queue!Unlinked(queue, kinds) = Unlinked(queue, kinds)
<1>1. Queue!Acceptable(queue, kinds) = Acceptable(queue, kinds)
  BY DEF Queue!Acceptable, Acceptable
<1>2. Queue!FirstAcceptable(queue, kinds) = FirstAcceptable(queue, kinds)
  BY <1>1 DEF Queue!FirstAcceptable, FirstAcceptable
<1>. QED
  BY <1>1, <1>2 DEF Queue!Found, Found, Queue!Unlinked, Unlinked,
                    Queue!RemoveAt, RemoveAt

(* Every step of the mailbox is a step of the atomic queue, or stutters.   *)
LEMMA QueueStep ==
    ASSUME IInv, [Next]_mailboxVars
    PROVE  [Queue!Next]_(Queue!vars)
<1>1. ASSUME NEW s \in Senders, NEW k \in Kinds, Send(s, k) PROVE Queue!Next
  BY <1>1 DEF Send, Queue!Next, Queue!Put
<1>2. ASSUME NEW c, NEW kinds \in SUBSET Kinds, Receive(c, kinds)
      PROVE  [Queue!Next]_(Queue!vars)
  BY <1>2, SameOperators DEF Receive, Sleep, Deliver, Queue!Next, Queue!Take, Queue!vars
<1>3. CASE Resume
  <2>1. want \in SUBSET Kinds
    BY DEF IInv, TypeOK
  <2>. QED
    BY <1>3, <2>1, SameOperators DEF Resume, Deliver, Queue!Next, Queue!Take, Queue!vars
<1>4. CASE WakeSpuriously
  BY <1>4 DEF WakeSpuriously, Queue!vars
<1>5. CASE UNCHANGED mailboxVars
  BY <1>5 DEF mailboxVars, Queue!vars
<1>. QED
  BY <1>1, <1>2, <1>3, <1>4, <1>5 DEF Next, Recv, RecvFilter

(* The mailbox implements the atomic queue of messages.                    *)
THEOREM MailboxIsMessageQueue ==
    ASSUME WaitsAreSafe
    PROVE  Spec => IsMessageQueue
<1>1. Init => Queue!Init
  BY DEF Init, Queue!Init
<1>. QED
  BY <1>1, InitIInv, NextIInv, QueueStep, PTL DEF Spec, IsMessageQueue, Queue!Spec
=============================================================================
