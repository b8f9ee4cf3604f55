-------------------------- MODULE DistrmCoreProofs --------------------------
(***************************************************************************)
(* That no invasion of Distrm.tla loses a core or gives it two owners, for *)
(* any number of agents and cores, and that the agents implement the       *)
(* ownership of CoreOwnership.tla.                                         *)
(***************************************************************************)
EXTENDS DistrmElectionProofs

(* What an agent is still to get in an invasion: requests and questions    *)
(* that it has sent, and offers to it.                                     *)
Due(b) ==
    {p \in Mailboxes \X Messages :
        \/ p[2].kind = "OFFER" /\ p[1] = b
        \/ p[2].kind \in {"MAKE_OFFER", "REQUEST"} /\ p[2].from = b
        \/ p[2].kind = "FORWARD" /\ p[2].invader = b}
ManagersFor(b) == {h \in Holders : request[h].invader = b}
DueInv ==
    \A b \in Holders :
        UnderWay(Due(b)) + Cardinality(ManagersFor(b)) = plan[b].awaited + request[b].left

(* Requests are those of an invader.                                       *)
ForInvader(x) ==
    {p \in Mailboxes \X Messages :
        \/ p[2].kind = "REQUEST" /\ p[2].from = x
        \/ p[2].kind \in {"FORWARD", "MAKE_OFFER"} /\ p[2].invader = x}
InvaderInv ==
    \A x \in Agents : plan[x].core = None =>
        UnderWay(ForInvader(x)) = 0 /\ ManagersFor(x) = {}

(* Nobody asks an invader for offers to itself, and offers and answers go  *)
(* to agents.                                                              *)
Misled ==
    {p \in Mailboxes \X Messages :
        \/ p[2].kind = "MAKE_OFFER" /\ p[2].invader = p[1]
        \/ p[2].kind = "FORWARD" /\ p[2].invader \in p[2].neighbors
        \/ p[2].kind \in {"OFFER", "ACCEPT", "REJECT"} /\ p[1] \notin Holders}

(* Whose core c is, according to an offer or a collection of offers.       *)
Says(view, c, h) == c \in DOMAIN view /\ view[c] = h

(* Where it is written that h has put core c aside.                        *)
Tokens(c, h) ==
    {p \in Mailboxes \X Messages :
        \/ p[2].kind = "OFFER" /\ Says(p[2].cores, c, h)
        \/ p[2].kind \in {"ACCEPT", "REJECT"} /\ p[2].core = c /\ p[1] = h}
Responding(c, h) ==
    {b \in Holders : Says(request[b].response, c, h)}
Collecting(c, h) ==
    {b \in Holders : Says(plan[b].offers, c, h)}
TokenInv ==
    \A c \in Cores, h \in Holders :
        UnderWay(Tokens(c, h)) + Cardinality(Responding(c, h)) + Cardinality(Collecting(c, h))
            = (IF c \in reserved[h] THEN 1 ELSE 0)

(* Each core has one holder. *)
HolderInv ==
    \A c \in Cores :
        /\ \E h \in Holders : Has(h, c)
        /\ \A h, k \in Holders : Has(h, c) /\ Has(k, c) => h = k
ApartInv == \A h \in Holders : owned[h] \cap reserved[h] = {}

(* An agent has read all answers when it takes part in the next election,  *)
(* and an invader has nothing put aside.                                   *)
IsAnswer(m) == m.kind \in {"ACCEPT", "REJECT"}
Ordered(list) ==
    \A i, j \in DOMAIN list : i < j /\ list[i].kind = "INVADE" => ~ IsAnswer(list[j])
OrderInv == \A b \in Agents : Ordered(queue[b])
AnswersTo(b) == {p \in Mailboxes \X Messages : p[1] = b /\ IsAnswer(p[2])}
ReadyInv == \A b \in Electing : UnderWay(AnswersTo(b)) = 0
FreeInv == \A b \in Agents : Active(b) => reserved[b] = {}

CoreInv ==
    /\ DueInv /\ InvaderInv /\ UnderWay(Misled) = 0
    /\ TokenInv /\ HolderInv /\ ApartInv
    /\ OrderInv /\ ReadyInv /\ FreeInv

-----------------------------------------------------------------------------
(* Counting.                                                               *)

(* Sets that differ in one element at most.                                *)
LEMMA OneDiffers ==
    ASSUME NEW S, IsFiniteSet(S), NEW T, NEW a, \A x : x # a => (x \in S <=> x \in T)
    PROVE  /\ IsFiniteSet(T) /\ Cardinality(S) \in Nat /\ Cardinality(T) \in Nat
           /\ Cardinality(T) = Cardinality(S) - Unit(a, S) + Unit(a, T)
<1>. DEFINE R == S \ {a}
<1>1. IsFiniteSet(R) /\ Cardinality(R) \in Nat /\ a \notin R
  BY FS_Subset, FS_CardinalityType
<1>2. IsFiniteSet(R \union {a}) /\ Cardinality(R \union {a}) = Cardinality(R) + 1
  BY <1>1, FS_AddElement
<1>3. (a \in S => S = R \union {a}) /\ (a \notin S => S = R)
  OBVIOUS
<1>4. (a \in T => T = R \union {a}) /\ (a \notin T => T = R)
  OBVIOUS
<1>. HIDE DEF R
<1>5. Cardinality(S) = Cardinality(R) + Unit(a, S)
  <2>1. CASE a \in S
    BY <1>2, <1>3, <2>1 DEF Unit
  <2>2. CASE a \notin S
    <3>1. S = R /\ Unit(a, S) = 0
      BY <1>3, <2>2 DEF Unit
    <3>. QED
      BY <1>1, <3>1
  <2>. QED
    BY <2>1, <2>2
<1>6. IsFiniteSet(T) /\ Cardinality(T) = Cardinality(R) + Unit(a, T)
  <2>1. CASE a \in T
    BY <1>2, <1>4, <2>1 DEF Unit
  <2>2. CASE a \notin T
    <3>1. T = R /\ Unit(a, T) = 0
      BY <1>4, <2>2 DEF Unit
    <3>. QED
      BY <1>1, <3>1
  <2>. QED
    BY <2>1, <2>2
<1>7. Unit(a, S) \in {0, 1} /\ Unit(a, T) \in {0, 1}
  BY UnitType
<1>. QED
  BY <1>1, <1>5, <1>6, <1>7

LEMMA HoldersAreCounted ==
    ASSUME NEW S, S \subseteq Holders
    PROVE  IsFiniteSet(S) /\ Cardinality(S) \in Nat /\ (Cardinality(S) = 0 <=> S = {})
<1>1. IsFiniteSet(S)
  BY Threads, FS_Subset
<1>. QED
  BY <1>1, FS_CardinalityType, FS_EmptySet

(* What happens to one agent changes the counts of agents by one at most.  *)
ElsewhereSame(a) ==
    \A b \in Holders \ {a} : request'[b] = request[b] /\ plan'[b] = plan[b]

LEMMA ManagersChange ==
    ASSUME NEW a \in Holders, ElsewhereSame(a), NEW b
    PROVE  /\ Cardinality(ManagersFor(b)) \in Nat /\ Cardinality(ManagersFor(b)') \in Nat
           /\ Cardinality(ManagersFor(b)') = Cardinality(ManagersFor(b))
                 - (IF request[a].invader = b THEN 1 ELSE 0)
                 + (IF request'[a].invader = b THEN 1 ELSE 0)
<1>. DEFINE S == ManagersFor(b)
            T == ManagersFor(b)'
<1>1. IsFiniteSet(S)
  BY HoldersAreCounted DEF ManagersFor
<1>2. \A x : x # a => (x \in S <=> x \in T)
  BY DEF ManagersFor, ElsewhereSame
<1>3. /\ Unit(a, S) = IF request[a].invader = b THEN 1 ELSE 0
      /\ Unit(a, T) = IF request'[a].invader = b THEN 1 ELSE 0
  BY DEF ManagersFor, Unit
<1>. HIDE DEF S, T
<1>4. /\ Cardinality(S) \in Nat /\ Cardinality(T) \in Nat
      /\ Cardinality(T) = Cardinality(S) - Unit(a, S) + Unit(a, T)
  BY <1>1, <1>2, OneDiffers
<1>. QED
  BY <1>3, <1>4 DEF S, T

LEMMA RespondingChange ==
    ASSUME NEW a \in Holders, ElsewhereSame(a), NEW c, NEW h
    PROVE  /\ Cardinality(Responding(c, h)) \in Nat /\ Cardinality(Responding(c, h)') \in Nat
           /\ Cardinality(Responding(c, h)') = Cardinality(Responding(c, h))
                 - (IF Says(request[a].response, c, h) THEN 1 ELSE 0)
                 + (IF Says(request'[a].response, c, h) THEN 1 ELSE 0)
<1>. DEFINE S == Responding(c, h)
            T == Responding(c, h)'
<1>1. IsFiniteSet(S)
  BY HoldersAreCounted DEF Responding
<1>2. \A x : x # a => (x \in S <=> x \in T)
  BY DEF Responding, ElsewhereSame, Says
<1>3. /\ Unit(a, S) = IF Says(request[a].response, c, h) THEN 1 ELSE 0
      /\ Unit(a, T) = IF Says(request'[a].response, c, h) THEN 1 ELSE 0
  BY DEF Responding, Unit, Says
<1>. HIDE DEF S, T
<1>4. /\ Cardinality(S) \in Nat /\ Cardinality(T) \in Nat
      /\ Cardinality(T) = Cardinality(S) - Unit(a, S) + Unit(a, T)
  BY <1>1, <1>2, OneDiffers
<1>. QED
  BY <1>3, <1>4 DEF S, T

LEMMA CollectingChange ==
    ASSUME NEW a \in Holders, ElsewhereSame(a), NEW c, NEW h
    PROVE  /\ Cardinality(Collecting(c, h)) \in Nat /\ Cardinality(Collecting(c, h)') \in Nat
           /\ Cardinality(Collecting(c, h)') = Cardinality(Collecting(c, h))
                 - (IF Says(plan[a].offers, c, h) THEN 1 ELSE 0)
                 + (IF Says(plan'[a].offers, c, h) THEN 1 ELSE 0)
<1>. DEFINE S == Collecting(c, h)
            T == Collecting(c, h)'
<1>1. IsFiniteSet(S)
  BY HoldersAreCounted DEF Collecting
<1>2. \A x : x # a => (x \in S <=> x \in T)
  BY DEF Collecting, ElsewhereSame, Says
<1>3. /\ Unit(a, S) = IF Says(plan[a].offers, c, h) THEN 1 ELSE 0
      /\ Unit(a, T) = IF Says(plan'[a].offers, c, h) THEN 1 ELSE 0
  BY DEF Collecting, Unit, Says
<1>. HIDE DEF S, T
<1>4. /\ Cardinality(S) \in Nat /\ Cardinality(T) \in Nat
      /\ Cardinality(T) = Cardinality(S) - Unit(a, S) + Unit(a, T)
  BY <1>1, <1>2, OneDiffers
<1>. QED
  BY <1>3, <1>4 DEF S, T

-----------------------------------------------------------------------------
(* Messages under way.                                                     *)
LEMMA NoneUnderWay ==
    \A P : MailTypes =>
        (UnderWay(P) = 0 <=>
            /\ \A r \in Mailboxes : \A i \in DOMAIN queue[r] : <<r, queue[r][i]>> \notin P
            /\ \A b \in Holders : \A i \in DOMAIN out[b] :
                  <<out[b][i].to, out[b][i].msg>> \notin P)
<1>. SUFFICES ASSUME NEW P, MailTypes
              PROVE  UnderWay(P) = 0 <=>
                        /\ \A r \in Mailboxes : \A i \in DOMAIN queue[r] :
                              <<r, queue[r][i]>> \notin P
                        /\ \A b \in Holders : \A i \in DOMAIN out[b] :
                              <<out[b][i].to, out[b][i].msg>> \notin P
  OBVIOUS
<1>1. Count(queue, P) = 0 <=>
         \A r \in Mailboxes : \A i \in DOMAIN queue[r] : <<r, queue[r][i]>> \notin P
  BY MailLists, CountIsZero
<1>2. Count(out, Unposted(P)) = 0 <=>
         \A b \in Holders : \A i \in DOMAIN out[b] : <<b, out[b][i]>> \notin Unposted(P)
  BY MailLists, CountIsZero
<1>3. ASSUME NEW b \in Holders, NEW i \in DOMAIN out[b]
      PROVE  <<b, out[b][i]>> \in Unposted(P) <=> <<out[b][i].to, out[b][i].msg>> \in P
  <2>1. out[b] \in Seq(Posts)
    BY DEF MailTypes
  <2>2. out[b][i] \in Posts
    BY <2>1
  <2>. QED
    BY <2>2 DEF Unposted
<1>4. Count(queue, P) \in Nat /\ Count(out, Unposted(P)) \in Nat
  BY UnderWayType
<1>5. UnderWay(P) = 0 <=> Count(queue, P) = 0 /\ Count(out, Unposted(P)) = 0
  BY <1>4 DEF UnderWay
<1>. QED
  BY <1>1, <1>2, <1>3, <1>5

(* Where there is none of many there is none of fewer.                     *)
LEMMA NoneOfFewer ==
    ASSUME MailTypes, NEW P, NEW Q, UnderWay(Q) = 0, \A p \in P : p \in Q
    PROVE  UnderWay(P) = 0
<1>1. /\ \A r \in Mailboxes : \A i \in DOMAIN queue[r] : <<r, queue[r][i]>> \notin Q
      /\ \A b \in Holders : \A i \in DOMAIN out[b] : <<out[b][i].to, out[b][i].msg>> \notin Q
  BY NoneUnderWay
<1>2. /\ \A r \in Mailboxes : \A i \in DOMAIN queue[r] : <<r, queue[r][i]>> \notin P
      /\ \A b \in Holders : \A i \in DOMAIN out[b] : <<out[b][i].to, out[b][i].msg>> \notin P
  BY <1>1
<1>. QED
  BY <1>2, NoneUnderWay

(* A message that can be taken is under way.                               *)
LEMMA MessageIsUnderWay ==
    ASSUME MailTypes, NEW a \in Holders, CanTake(a), NEW P
    PROVE  UnderWay(P) \in Nat /\ UnderWay(P) >= Unit(<<a, Message(a)>>, P)
<1>1. /\ Lists(Taken(a), Mailboxes, Messages)
      /\ Count(Taken(a), P) = Count(queue, P) - Unit(<<a, Message(a)>>, P)
  BY TakenCounts
<1>2. Count(Taken(a), P) \in Nat
  BY <1>1, PlacesAreFinite
<1>. QED
  BY <1>1, <1>2, UnderWayType, UnitType DEF UnderWay

Acceptances(c, h) ==
    {p \in Mailboxes \X Messages : p[1] = h /\ p[2].kind = "ACCEPT" /\ p[2].core = c}

LEMMA ReleasedIsUnderWay ==
    \A h \in Holders, c \in Cores : MailTypes =>
        (Released(h, c) <=> UnderWay(Acceptances(c, h)) # 0)
<1>. SUFFICES ASSUME NEW h \in Holders, NEW c \in Cores, MailTypes
              PROVE  Released(h, c) <=> UnderWay(Acceptances(c, h)) # 0
  OBVIOUS
<1>. DEFINE P == Acceptances(c, h)
<1>0. h \in Mailboxes /\ queue[h] \in Seq(Messages)
  BY MailboxesAreFinite DEF MailTypes
<1>1. ASSUME NEW r \in Mailboxes, NEW i \in DOMAIN queue[r]
      PROVE  <<r, queue[r][i]>> \in P
                <=> r = h /\ queue[r][i].kind = "ACCEPT" /\ queue[r][i].core = c
  <2>1. queue[r] \in Seq(Messages)
    BY DEF MailTypes
  <2>2. queue[r][i] \in Messages
    BY <2>1
  <2>. QED
    BY <2>2 DEF Acceptances
<1>2. ASSUME NEW b \in Holders, NEW i \in DOMAIN out[b]
      PROVE  <<out[b][i].to, out[b][i].msg>> \in P
                <=> out[b][i].to = h /\ out[b][i].msg.kind = "ACCEPT" /\ out[b][i].msg.core = c
  <2>1. out[b] \in Seq(Posts)
    BY DEF MailTypes
  <2>2. out[b][i] \in Posts
    BY <2>1
  <2>3. out[b][i].to \in Mailboxes /\ out[b][i].msg \in Messages
    BY <2>2 DEF Posts
  <2>. QED
    BY <2>3 DEF Acceptances
<1>. HIDE DEF P
<1>3. UnderWay(P) = 0 <=>
            /\ \A r \in Mailboxes : \A i \in DOMAIN queue[r] : <<r, queue[r][i]>> \notin P
            /\ \A b \in Holders : \A i \in DOMAIN out[b] :
                  <<out[b][i].to, out[b][i].msg>> \notin P
  BY NoneUnderWay
<1>4. (\E m \in ToSet(queue[h]) : m.kind = "ACCEPT" /\ m.core = c)
         <=> \E i \in DOMAIN queue[h] : queue[h][i].kind = "ACCEPT" /\ queue[h][i].core = c
  BY DEF ToSet
<1>5. (\E b \in Holders : \E s \in ToSet(out[b]) :
             s.to = h /\ s.msg.kind = "ACCEPT" /\ s.msg.core = c)
         <=> \E b \in Holders : \E i \in DOMAIN out[b] :
                out[b][i].to = h /\ out[b][i].msg.kind = "ACCEPT" /\ out[b][i].msg.core = c
  BY DEF ToSet
<1>6. (\E i \in DOMAIN queue[h] : queue[h][i].kind = "ACCEPT" /\ queue[h][i].core = c)
         <=> \E r \in Mailboxes : \E i \in DOMAIN queue[r] : <<r, queue[r][i]>> \in P
  BY <1>0, <1>1
<1>7. (\E b \in Holders : \E i \in DOMAIN out[b] :
            out[b][i].to = h /\ out[b][i].msg.kind = "ACCEPT" /\ out[b][i].msg.core = c)
         <=> \E b \in Holders : \E i \in DOMAIN out[b] :
                <<out[b][i].to, out[b][i].msg>> \in P
  BY <1>2
<1>8. Released(h, c) <=> UnderWay(P) # 0
  BY <1>3, <1>4, <1>5, <1>6, <1>7 DEF Released
<1>. QED
  BY <1>8 DEF P

LEMMA ReleasedNext ==
    (\A h \in Holders, c \in Cores : MailTypes =>
        (Released(h, c) <=> UnderWay(Acceptances(c, h)) # 0))'
BY ReleasedIsUnderWay, PTL

(* Steps that do not touch messages of some kinds.                         *)
Kept(kinds) == \A P : (\A p \in P : p[2].kind \in kinds) => UnderWay(P)' = UnderWay(P)

LEMMA OtherKind ==
    ASSUME NEW r, NEW m, NEW kinds, m.kind \notin kinds, NEW P, \A p \in P : p[2].kind \in kinds
    PROVE  Unit(<<r, m>>, P) = 0
BY DEF Unit

LEMMA FewerKinds ==
    ASSUME NEW kinds, Kept(kinds), NEW fewer, fewer \subseteq kinds
    PROVE  Kept(fewer)
BY DEF Kept

LEMMA ReceiveKeeps ==
    ASSUME MailTypes, NEW a \in Holders, CanTake(a), queue' = Taken(a), UNCHANGED out,
           NEW kinds, Message(a).kind \notin kinds
    PROVE  MailTypes' /\ Kept(kinds)
<1>1. ASSUME NEW P, \A p \in P : p[2].kind \in kinds
      PROVE  UnderWay(P)' = UnderWay(P)
  <2>1. UnderWay(P)' = UnderWay(P) - Unit(<<a, Message(a)>>, P) /\ UnderWay(P) \in Nat
    BY ReceiveStep, UnderWayType
  <2>2. Unit(<<a, Message(a)>>, P) = 0
    BY <1>1, OtherKind
  <2>. QED
    BY <2>1, <2>2
<1>2. MailTypes'
  BY ReceiveStep
<1>. QED
  BY <1>1, <1>2 DEF Kept

LEMMA SendKeeps ==
    ASSUME MailTypes, NEW s \in Posts, queue' = With(queue, s), UNCHANGED out,
           NEW kinds, s.msg.kind \notin kinds
    PROVE  MailTypes' /\ Kept(kinds)
<1>1. ASSUME NEW P, \A p \in P : p[2].kind \in kinds
      PROVE  UnderWay(P)' = UnderWay(P)
  <2>1. UnderWay(P)' = UnderWay(P) + Unit(<<s.to, s.msg>>, P) /\ UnderWay(P) \in Nat
    BY SendStep, UnderWayType
  <2>2. Unit(<<s.to, s.msg>>, P) = 0
    BY <1>1, OtherKind
  <2>. QED
    BY <2>1, <2>2
<1>2. MailTypes'
  BY SendStep
<1>. QED
  BY <1>1, <1>2 DEF Kept

LEMMA AnswerKeeps ==
    ASSUME MailTypes, NEW a \in Holders, CanTake(a), NEW s \in Posts,
           queue' = With(Taken(a), s), UNCHANGED out,
           NEW kinds, Message(a).kind \notin kinds, s.msg.kind \notin kinds
    PROVE  MailTypes' /\ Kept(kinds)
<1>1. ASSUME NEW P, \A p \in P : p[2].kind \in kinds
      PROVE  UnderWay(P)' = UnderWay(P)
  <2>1. /\ UnderWay(P)'
              = UnderWay(P) - Unit(<<a, Message(a)>>, P) + Unit(<<s.to, s.msg>>, P)
        /\ UnderWay(P) \in Nat
    BY AnswerStep, UnderWayType
  <2>2. Unit(<<s.to, s.msg>>, P) = 0 /\ Unit(<<a, Message(a)>>, P) = 0
    BY <1>1, OtherKind
  <2>. QED
    BY <2>1, <2>2
<1>2. MailTypes'
  BY AnswerStep
<1>. QED
  BY <1>1, <1>2 DEF Kept

LEMMA NoOtherKind ==
    ASSUME NEW list, NEW kinds, \A i \in DOMAIN list : list[i].msg.kind \notin kinds,
           NEW P, \A p \in P : p[2].kind \in kinds
    PROVE  Matching(list, P) = 0
<1>1. \A i \in DOMAIN list : <<list[i].to, list[i].msg>> \notin P
  OBVIOUS
<1>. QED
  BY <1>1, NoneMatches

LEMMA FillKeeps ==
    ASSUME MailTypes, NEW a \in Holders, out[a] = <<>>, NEW list \in Seq(Posts),
           Sends(a, list), UNCHANGED queue,
           NEW kinds, \A i \in DOMAIN list : list[i].msg.kind \notin kinds
    PROVE  MailTypes' /\ Kept(kinds)
<1>1. ASSUME NEW P, \A p \in P : p[2].kind \in kinds
      PROVE  UnderWay(P)' = UnderWay(P)
  <2>1. UnderWay(P)' = UnderWay(P) + Matching(list, P) /\ UnderWay(P) \in Nat
    BY FillStep, UnderWayType
  <2>2. Matching(list, P) = 0
    BY <1>1, NoOtherKind
  <2>. QED
    BY <2>1, <2>2
<1>2. MailTypes'
  BY FillStep
<1>. QED
  BY <1>1, <1>2 DEF Kept

LEMMA ReceiveAndFillKeeps ==
    ASSUME MailTypes, NEW a \in Holders, CanTake(a), NEW list \in Seq(Posts),
           Sends(a, list), queue' = Taken(a), NEW kinds, Message(a).kind \notin kinds,
           \A i \in DOMAIN list : list[i].msg.kind \notin kinds
    PROVE  MailTypes' /\ Kept(kinds)
<1>1. ASSUME NEW P, \A p \in P : p[2].kind \in kinds
      PROVE  UnderWay(P)' = UnderWay(P)
  <2>1. /\ UnderWay(P)' = UnderWay(P) - Unit(<<a, Message(a)>>, P) + Matching(list, P)
        /\ UnderWay(P) \in Nat
    BY ReceiveAndFillStep, UnderWayType
  <2>2. Matching(list, P) = 0 /\ Unit(<<a, Message(a)>>, P) = 0
    BY <1>1, NoOtherKind, OtherKind
  <2>. QED
    BY <2>1, <2>2
<1>2. MailTypes'
  BY ReceiveAndFillStep
<1>. QED
  BY <1>1, <1>2 DEF Kept

LEMMA SendNextKeepsAll ==
    ASSUME MailTypes, NEW a \in Holders, SendNext(a), NEW kinds
    PROVE  MailTypes' /\ Kept(kinds)
BY SendNextStep DEF Kept

LEMMA NoMailKeepsAll ==
    ASSUME MailTypes, UNCHANGED <<queue, out>>, NEW kinds
    PROVE  MailTypes' /\ Kept(kinds)
BY NoMailStep DEF Kept

(* What the steps of other threads than agents do to the mailboxes.        *)
Without1st(d) == [queue EXCEPT ![d] = Tail(queue[d])]
Information(d) ==
    LET m == Head(queue[d])
    IN  [to |-> m.from, msg |-> [kind |-> "INFO", from |-> d, core |-> m.core,
                                 agent |-> directory[m.core]]]

LEMMA DirectoryAct ==
    ASSUME EInv, NEW d \in Directories, DirectoryStep(d)
    PROVE  /\ queue[d] # <<>> /\ Head(queue[d]) \in Messages
           /\ Head(queue[d]).kind \in {"REGISTER", "LOCATE", "END"}
           /\ UNCHANGED <<out, pc, owned, reserved, request, plan, self, why,
                          shutdown, electionVars, roiReady, roi, mainVars, crashed>>
           /\ Head(queue[d]).kind # "LOCATE" => queue' = Without1st(d)
           /\ Head(queue[d]).kind = "LOCATE" =>
                 /\ Head(queue[d]).from \in Holders /\ Head(queue[d]).core \in Cores
                 /\ Information(d) \in Posts
                 /\ queue' = With(Without1st(d), Information(d))
<1>. DEFINE m == Head(queue[d])
<1>0. /\ queue[d] # <<>> /\ m.kind \in {"REGISTER", "LOCATE", "END"}
      /\ UNCHANGED <<out, pc, owned, reserved, request, plan, self, why,
                     shutdown, electionVars, roiReady, roi, mainVars, crashed>>
  BY DEF DirectoryStep, DirectoryRegisters, DirectoryAnswers, DirectoryEnds, DirectoryTakes
<1>m. MailTypes /\ ClusterTypes
  BY DEF EInv
<1>1. m \in Messages
  BY <1>0, <1>m, DirectoryMail
<1>2. m.kind # "END" => m.from \in Holders /\ m.core \in Cores
  BY <1>0, <1>1, MessageParts
<1>3. m.kind = "LOCATE" => Information(d) \in Posts
  <2>1. m.kind = "LOCATE" => m.from \in Mailboxes
    BY <1>2, MailboxesAreFinite
  <2>2. m.kind = "LOCATE" => directory[m.core] \in Holders \union {Null}
    BY <1>2, <1>m DEF ClusterTypes
  <2>. QED
    BY <2>1, <2>2, <1>2 DEF Posts, Messages, Information
<1>4. m.kind # "LOCATE" => queue' = Without1st(d)
  <2>1. m.kind # "LOCATE" => DirectoryRegisters(d) \/ DirectoryEnds(d)
    BY DEF DirectoryStep, DirectoryAnswers, DirectoryTakes
  <2>. QED
    BY <2>1 DEF DirectoryRegisters, DirectoryEnds, Without1st
<1>5. ASSUME m.kind = "LOCATE"
      PROVE  queue' = With(Without1st(d), Information(d))
  <2>1. DirectoryAnswers(d)
    BY <1>5 DEF DirectoryStep, DirectoryRegisters, DirectoryEnds, DirectoryTakes
  <2>2. m.from # d
    BY <1>2, <1>5, DirectoryIsNoHolder
  <2>3. queue' = [queue EXCEPT ![d] = Tail(queue[d]),
                               ![m.from] = Append(queue[m.from], Information(d).msg)]
    BY <2>1, <2>2 DEF DirectoryAnswers, Information
  <2>4. With(Without1st(d), Information(d))
           = [Without1st(d) EXCEPT ![m.from] = Append(Without1st(d)[m.from], Information(d).msg)]
    BY DEF With, Information
  <2>5. Without1st(d)[m.from] = queue[m.from]
    BY <2>2 DEF Without1st
  <2>. QED
    BY <2>3, <2>4, <2>5 DEF Without1st
<1>. QED
  BY <1>0, <1>1, <1>2, <1>3, <1>4, <1>5

LEMMA DirectoryKeepsOthers ==
    ASSUME EInv, NEW d \in Directories, DirectoryStep(d),
           NEW kinds, kinds \cap {"REGISTER", "LOCATE", "END", "INFO"} = {}
    PROVE  MailTypes' /\ Kept(kinds)
<1>. DEFINE m == Head(queue[d])
            s == Information(d)
<1>0. /\ queue[d] # <<>> /\ m.kind \in {"REGISTER", "LOCATE", "END"} /\ UNCHANGED out
      /\ m.kind # "LOCATE" => queue' = Without1st(d)
      /\ m.kind = "LOCATE" => s \in Posts /\ queue' = With(Without1st(d), s)
  BY DirectoryAct
<1>m. MailTypes
  BY DEF EInv
<1>s. s.msg.kind = "INFO"
  BY DEF Information
<1>. HIDE DEF m, s
<1>1. ASSUME NEW P, \A p \in P : p[2].kind \in kinds
      PROVE  MailTypes' /\ UnderWay(P)' = UnderWay(P)
  <2>1. Unit(<<d, m>>, P) = 0 /\ Unit(<<s.to, s.msg>>, P) = 0
    <3>1. m.kind \notin kinds /\ s.msg.kind \notin kinds
      BY <1>0, <1>s
    <3>. QED
      BY <1>1, <3>1, OtherKind
  <2>2. UnderWay(P) \in Nat
    BY <1>m, UnderWayType
  <2>3. CASE m.kind = "LOCATE"
    <3>1. MailTypes' /\ UnderWay(P)' = UnderWay(P) - Unit(<<d, m>>, P) + Unit(<<s.to, s.msg>>, P)
      BY <1>0, <1>m, <2>3, DirectoryMail DEF m, Without1st
    <3>. QED
      BY <2>1, <2>2, <3>1
  <2>4. CASE m.kind # "LOCATE"
    <3>1. MailTypes' /\ UnderWay(P)' = UnderWay(P) - Unit(<<d, m>>, P)
      BY <1>0, <1>m, <2>4, DirectoryMail DEF m, Without1st
    <3>. QED
      BY <2>1, <2>2, <3>1
  <2>. QED
    BY <2>3, <2>4
<1>2. MailTypes'
  <2>1. \A p \in {} : p[2].kind \in kinds
    OBVIOUS
  <2>. QED
    BY <1>1, <2>1
<1>. QED
  BY <1>1, <1>2 DEF Kept

LEMMA ClusterStopKeepsOthers ==
    ASSUME MailTypes, ClusterStop, UNCHANGED out, NEW kinds, "END" \notin kinds
    PROVE  MailTypes' /\ Kept(kinds)
<1>1. ASSUME NEW P, \A p \in P : p[2].kind \in kinds
      PROVE  MailTypes' /\ UnderWay(P)' = UnderWay(P)
  <2>1. \A r : <<r, Control("END")>> \notin P
    BY <1>1 DEF Control
  <2>. QED
    BY <2>1, ClusterStopMail
<1>2. MailTypes'
  BY ClusterStopInvitesNobody
<1>. QED
  BY <1>1, <1>2 DEF Kept

-----------------------------------------------------------------------------
(* Answers and invitations keep their order.                               *)
LEMMA OrderedUnlinked ==
    ASSUME NEW list \in Seq(Messages), NEW kinds, Acceptable(list, kinds) # {}, Ordered(list)
    PROVE  Ordered(Unlinked(list, kinds))
<1>. DEFINE k == FirstAcceptable(list, kinds)
            rest == Unlinked(list, kinds)
            old(i) == IF i < k THEN i ELSE i + 1
<1>1. k \in 1 .. Len(list) /\ Len(list) \in Nat
  BY FirstAcceptableProperties
<1>2. /\ rest \in Seq(Messages) /\ Len(rest) = Len(list) - 1
      /\ \A j \in 1 .. Len(list) - 1 : rest[j] = IF j < k THEN list[j] ELSE list[j + 1]
  BY <1>1, RemoveAtType DEF Unlinked
<1>3. DOMAIN rest = 1 .. Len(list) - 1 /\ DOMAIN list = 1 .. Len(list)
  BY <1>2
<1>. HIDE DEF k, rest
<1>4. ASSUME NEW i \in DOMAIN rest, NEW j \in DOMAIN rest, i < j, rest[i].kind = "INVADE"
      PROVE  ~ IsAnswer(rest[j])
  <2>1. old(i) \in DOMAIN list /\ old(j) \in DOMAIN list /\ old(i) < old(j)
    BY <1>1, <1>3, <1>4
  <2>2. rest[i] = list[old(i)] /\ rest[j] = list[old(j)]
    BY <1>2, <1>3
  <2>. QED
    BY <1>4, <2>1, <2>2 DEF Ordered
<1>. QED
  BY <1>4 DEF Ordered, rest

LEMMA OrderedAppend ==
    ASSUME NEW list \in Seq(Messages), NEW m, Ordered(list),
           ~ IsAnswer(m) \/ \A i \in DOMAIN list : list[i].kind # "INVADE"
    PROVE  Ordered(Append(list, m))
<1>. DEFINE all == Append(list, m)
<1>1. /\ Len(list) \in Nat /\ DOMAIN list = 1 .. Len(list) /\ DOMAIN all = 1 .. Len(list) + 1
      /\ \A i \in 1 .. Len(list) : all[i] = list[i]
      /\ all[Len(list) + 1] = m
  OBVIOUS
<1>. HIDE DEF all
<1>2. ASSUME NEW i \in DOMAIN all, NEW j \in DOMAIN all, i < j, all[i].kind = "INVADE"
      PROVE  ~ IsAnswer(all[j])
  <2>1. i \in DOMAIN list /\ all[i] = list[i]
    BY <1>1, <1>2
  <2>2. CASE j = Len(list) + 1
    BY <1>1, <1>2, <2>1, <2>2
  <2>3. CASE j # Len(list) + 1
    <3>1. j \in DOMAIN list /\ all[j] = list[j]
      BY <1>1, <2>3
    <3>. QED
      BY <1>2, <2>1, <3>1 DEF Ordered
  <2>. QED
    BY <2>2, <2>3
<1>. QED
  BY <1>2 DEF Ordered, all

InOrder(q) == \A b \in Agents : Ordered(q[b])

LEMMA AgentMailbox ==
    ASSUME MailTypes, NEW b \in Agents
    PROVE  b \in Holders /\ b \in Mailboxes /\ queue[b] \in Seq(Messages)
BY Threads, MailboxesAreFinite DEF MailTypes

LEMMA OrderTaken ==
    ASSUME MailTypes, NEW a \in Holders, CanTake(a), OrderInv
    PROVE  InOrder(Taken(a))
<1>1. ASSUME NEW b \in Agents PROVE Ordered(Taken(a)[b])
  <2>1. Ordered(queue[b]) /\ queue[b] \in Seq(Messages) /\ b \in Mailboxes
    BY AgentMailbox DEF OrderInv
  <2>2. CASE b = a
    <3>1. Taken(a)[b] = Unlinked(queue[b], Accepts(pc[b]))
      BY <2>1, <2>2 DEF Taken, MailTypes
    <3>. QED
      BY <2>1, <2>2, <3>1, OrderedUnlinked DEF CanTake
  <2>3. CASE b # a
    BY <2>1, <2>3 DEF Taken, MailTypes
  <2>. QED
    BY <2>2, <2>3
<1>. QED
  BY <1>1 DEF InOrder

LEMMA OrderWith ==
    ASSUME NEW q \in [Mailboxes -> Seq(Messages)], InOrder(q), NEW s \in Posts,
           \/ ~ IsAnswer(s.msg)
           \/ \A b \in Agents : \A i \in DOMAIN q[b] : q[b][i].kind # "INVADE"
    PROVE  InOrder(With(q, s))
<1>1. ASSUME NEW b \in Agents PROVE Ordered(With(q, s)[b])
  <2>1. Ordered(q[b]) /\ b \in Mailboxes /\ q[b] \in Seq(Messages)
    BY Threads, MailboxesAreFinite DEF InOrder
  <2>2. CASE b = s.to
    <3>1. With(q, s)[b] = Append(q[b], s.msg)
      BY <2>1, <2>2 DEF With
    <3>. QED
      BY <2>1, <3>1, OrderedAppend
  <2>3. CASE b # s.to
    BY <2>1, <2>3 DEF With
  <2>. QED
    BY <2>2, <2>3
<1>. QED
  BY <1>1 DEF InOrder

LEMMA OrderReceive ==
    ASSUME MailTypes, OrderInv, NEW a \in Holders, CanTake(a), queue' = Taken(a)
    PROVE  OrderInv'
BY OrderTaken DEF InOrder, OrderInv

LEMMA OrderSend ==
    ASSUME MailTypes, OrderInv, NEW s \in Posts, ~ IsAnswer(s.msg), queue' = With(queue, s)
    PROVE  OrderInv'
<1>1. queue \in [Mailboxes -> Seq(Messages)] /\ InOrder(queue)
  BY DEF MailTypes, InOrder, OrderInv
<1>2. InOrder(With(queue, s))
  BY <1>1, OrderWith
<1>. QED
  BY <1>2 DEF InOrder, OrderInv

LEMMA OrderAnswer ==
    ASSUME MailTypes, OrderInv, NEW a \in Holders, CanTake(a), NEW s \in Posts,
           ~ IsAnswer(s.msg), queue' = With(Taken(a), s)
    PROVE  OrderInv'
<1>1. Taken(a) \in [Mailboxes -> Seq(Messages)] /\ InOrder(Taken(a))
  <2>1. Lists(Taken(a), Mailboxes, Messages)
    BY TakenCounts
  <2>. QED
    BY <2>1, OrderTaken DEF Lists
<1>2. InOrder(With(Taken(a), s))
  BY <1>1, OrderWith
<1>. QED
  BY <1>2 DEF InOrder, OrderInv

LEMMA OrderDirectory ==
    ASSUME EInv, OrderInv, NEW d \in Directories, DirectoryStep(d)
    PROVE  OrderInv'
<1>. DEFINE m == Head(queue[d])
            s == Information(d)
<1>0. /\ m.kind # "LOCATE" => queue' = Without1st(d)
      /\ m.kind = "LOCATE" => s \in Posts /\ queue' = With(Without1st(d), s)
      /\ queue[d] # <<>>
  BY DirectoryAct
<1>s. s.msg.kind = "INFO"
  BY DEF Information
<1>1. Without1st(d) \in [Mailboxes -> Seq(Messages)]
  <2>1. queue \in [Mailboxes -> Seq(Messages)] /\ queue[d] \in Seq(Messages)
    BY MailboxesAreFinite DEF EInv, MailTypes
  <2>2. Tail(queue[d]) \in Seq(Messages)
    BY <1>0, <2>1
  <2>. QED
    BY <2>1, <2>2 DEF Without1st
<1>2. InOrder(Without1st(d))
  <2>1. ASSUME NEW b \in Agents PROVE Ordered(Without1st(d)[b])
    <3>1. b # d /\ b \in Mailboxes
      BY Threads, DirectoryIsNoHolder, MailboxesAreFinite
    <3>2. Without1st(d)[b] = queue[b]
      BY <3>1 DEF Without1st, EInv, MailTypes
    <3>. QED
      BY <3>2 DEF OrderInv
  <2>. QED
    BY <2>1 DEF InOrder
<1>. HIDE DEF m, s
<1>3. InOrder(queue')
  <2>1. CASE m.kind = "LOCATE"
    <3>1. ~ IsAnswer(s.msg) /\ s \in Posts
      BY <1>0, <1>s, <2>1 DEF IsAnswer
    <3>2. InOrder(With(Without1st(d), s))
      BY <1>1, <1>2, <3>1, OrderWith
    <3>. QED
      BY <1>0, <2>1, <3>2
  <2>2. CASE m.kind # "LOCATE"
    BY <1>0, <1>2, <2>2
  <2>. QED
    BY <2>1, <2>2
<1>. QED
  BY <1>3 DEF InOrder, OrderInv

LEMMA OrderClusterStop ==
    ASSUME MailTypes, OrderInv, ClusterStop
    PROVE  OrderInv'
<1>1. ASSUME NEW b \in Agents PROVE queue'[b] = queue[b]
  <2>1. b \in Mailboxes /\ b \notin Directories
    BY Threads, DirectoryIsNoHolder, MailboxesAreFinite
  <2>. QED
    BY <2>1 DEF ClusterStop, MailTypes
<1>. QED
  BY <1>1 DEF OrderInv

-----------------------------------------------------------------------------
(* What a step leaves alone.                                               *)
Business == {"REQUEST", "FORWARD", "MAKE_OFFER", "OFFER", "ACCEPT", "REJECT"}
Dealings == {"REQUEST", "FORWARD", "MAKE_OFFER", "OFFER"}
Claims == {"OFFER", "ACCEPT", "REJECT"}

LEMMA DueStays ==
    ASSUME Kept(Dealings), DueInv, InvaderInv,
           \A b \in Holders :
              /\ request'[b].invader = request[b].invader /\ request'[b].left = request[b].left
              /\ plan'[b].awaited = plan[b].awaited
              /\ plan'[b].core = None => plan[b].core = None
    PROVE  DueInv' /\ InvaderInv'
<1>1. ASSUME NEW b PROVE UnderWay(Due(b))' = UnderWay(Due(b))
  <2>1. \A p \in Due(b) : p[2].kind \in Dealings
    BY DEF Due, Dealings
  <2>. QED
    BY <2>1 DEF Kept
<1>2. ASSUME NEW b PROVE UnderWay(ForInvader(b))' = UnderWay(ForInvader(b))
  <2>1. \A p \in ForInvader(b) : p[2].kind \in Dealings
    BY DEF ForInvader, Dealings
  <2>. QED
    BY <2>1 DEF Kept
<1>3. ASSUME NEW b PROVE ManagersFor(b)' = ManagersFor(b)
  BY DEF ManagersFor
<1>4. DueInv'
  BY <1>1, <1>3 DEF DueInv
<1>5. ASSUME NEW x \in Agents, plan'[x].core = None
      PROVE  UnderWay(ForInvader(x))' = 0 /\ ManagersFor(x)' = {}
  <2>1. plan[x].core = None
    BY <1>5, Threads
  <2>. QED
    BY <1>2, <1>3, <2>1 DEF InvaderInv
<1>. QED
  BY <1>4, <1>5 DEF InvaderInv

LEMMA TokensStay ==
    ASSUME Kept(Claims), TokenInv, UNCHANGED reserved,
           \A b \in Holders :
              request'[b].response = request[b].response /\ plan'[b].offers = plan[b].offers
    PROVE  TokenInv'
<1>1. ASSUME NEW c, NEW h PROVE UnderWay(Tokens(c, h))' = UnderWay(Tokens(c, h))
  <2>1. \A p \in Tokens(c, h) : p[2].kind \in Claims
    BY DEF Tokens, Claims
  <2>. QED
    BY <2>1 DEF Kept
<1>2. ASSUME NEW c, NEW h
      PROVE  Responding(c, h)' = Responding(c, h) /\ Collecting(c, h)' = Collecting(c, h)
  BY DEF Responding, Collecting
<1>. QED
  BY <1>1, <1>2 DEF TokenInv

LEMMA MisledStays ==
    ASSUME Kept(Business), UnderWay(Misled) = 0
    PROVE  (UnderWay(Misled) = 0)'
<1>1. \A p \in Misled : p[2].kind \in Business
  BY DEF Misled, Business
<1>. QED
  BY <1>1 DEF Kept

LEMMA ReadyStays ==
    ASSUME Kept({"ACCEPT", "REJECT"}), ReadyInv, Electing' \subseteq Electing
    PROVE  ReadyInv'
<1>1. ASSUME NEW b PROVE UnderWay(AnswersTo(b))' = UnderWay(AnswersTo(b))
  <2>1. \A p \in AnswersTo(b) : p[2].kind \in {"ACCEPT", "REJECT"}
    BY DEF AnswersTo, IsAnswer
  <2>. QED
    BY <2>1 DEF Kept
<1>. QED
  BY <1>1 DEF ReadyInv

(* Who holds which core. *)
LEMMA SameReleases ==
    ASSUME MailTypes, MailTypes', NEW h \in Holders, NEW c \in Cores,
           UnderWay(Acceptances(c, h))' = UnderWay(Acceptances(c, h))
    PROVE  Released(h, c)' <=> Released(h, c)
<1>1. Released(h, c) <=> UnderWay(Acceptances(c, h)) # 0
  BY ReleasedIsUnderWay
<1>2. Released(h, c)' <=> UnderWay(Acceptances(c, h))' # 0
  BY ReleasedNext
<1>. QED
  BY <1>1, <1>2

LEMMA ReleasesStay ==
    ASSUME MailTypes, MailTypes', Kept({"ACCEPT"})
    PROVE  \A h \in Holders, c \in Cores : Released(h, c)' <=> Released(h, c)
<1>1. ASSUME NEW h \in Holders, NEW c \in Cores
      PROVE  Released(h, c)' <=> Released(h, c)
  <2>1. \A p \in Acceptances(c, h) : p[2].kind \in {"ACCEPT"}
    BY DEF Acceptances
  <2>2. UnderWay(Acceptances(c, h))' = UnderWay(Acceptances(c, h))
    BY <2>1 DEF Kept
  <2>. QED
    BY <2>2, SameReleases
<1>. QED
  BY <1>1

SameHolders == \A h \in Holders, c \in Cores : Has(h, c)' <=> Has(h, c)

LEMMA HoldersStay ==
    ASSUME HolderInv, SameHolders
    PROVE  HolderInv'
BY DEF HolderInv, SameHolders

LEMMA PossessionsStay ==
    ASSUME MailTypes, MailTypes', Kept({"ACCEPT"}), UNCHANGED <<owned, reserved>>
    PROVE  SameHolders
BY ReleasesStay DEF SameHolders, Has

LEMMA ApartStays ==
    ASSUME ApartInv, UNCHANGED <<owned, reserved>>
    PROVE  ApartInv'
BY DEF ApartInv

(* A step that has nothing to do with cores.                               *)
LEMMA IdleStep ==
    ASSUME EInv, CoreInv, MailTypes', OrderInv', Kept(Business), UNCHANGED <<owned, reserved>>,
           Electing' \subseteq Electing,
           \A b \in Agents : Active(b)' => Active(b),
           \A b \in Holders :
              /\ request'[b].invader = request[b].invader /\ request'[b].left = request[b].left
              /\ request'[b].response = request[b].response
              /\ plan'[b].awaited = plan[b].awaited /\ plan'[b].offers = plan[b].offers
              /\ plan'[b].core = None => plan[b].core = None
    PROVE  CoreInv' /\ SameHolders
<1>0. MailTypes
  BY DEF EInv
<1>k. Kept(Dealings) /\ Kept(Claims) /\ Kept({"ACCEPT", "REJECT"}) /\ Kept({"ACCEPT"})
  BY FewerKinds DEF Business, Dealings, Claims
<1>1. DueInv' /\ InvaderInv'
  BY <1>k, DueStays DEF CoreInv
<1>2. (UnderWay(Misled) = 0)'
  BY MisledStays DEF CoreInv
<1>3. TokenInv'
  BY <1>k, TokensStay DEF CoreInv
<1>4. SameHolders /\ HolderInv' /\ ApartInv'
  BY <1>0, <1>k, PossessionsStay, HoldersStay, ApartStays DEF CoreInv
<1>5. ReadyInv'
  BY <1>k, ReadyStays DEF CoreInv
<1>6. FreeInv'
  BY DEF CoreInv, FreeInv
<1>. QED
  BY <1>1, <1>2, <1>3, <1>4, <1>5, <1>6 DEF CoreInv

(* Outside of an election one agent invades, and all have been invited.    *)
LEMMA InvaderIsAlone ==
    ASSUME EInv, NEW x \in Agents, Active(x)
    PROVE  /\ ready = N /\ Decided /\ invading_agent = x /\ Electing = {}
           /\ \A b \in Agents : Active(b) <=> b = x
<1>h. x \in Holders /\ N \in Nat
  BY Threads
<1>m. ElectionInv /\ ElectionTypes
  BY DEF EInv
<1>1. ~ Gathering
  BY DEF Gathering
<1>2. ready = N
  <2>1. ready \in Nat /\ ready <= N /\ ~ (ready < N)
    BY <1>m, <1>1 DEF ElectionInv, ElectionTypes
  <2>2. N \in Nat
    BY <1>h
  <2>. QED
    BY <2>1, <2>2, NotLess, Zenon
<1>3. Decided
  BY <1>m, <1>2 DEF ElectionInv
<1>4. pc[x] \notin {"unwon", "ending", "last", "stopped"}
  <2>1. PlanInHand(x, pc[x], plan[x])
    BY <1>h, AgentParts, InHandParts
  <2>. QED
    BY <2>1 DEF PlanInHand, Active, Planning, Managing
<1>5. invading_agent # None
  BY <1>3, <1>4 DEF Decided
<1>6. \A b \in Agents : Active(b) <=> b = invading_agent
  BY <1>3, <1>5 DEF Decided
<1>. QED
  BY <1>2, <1>3, <1>6 DEF Decided

LEMMA NobodyIsInvited ==
    ASSUME EInv, NEW x \in Agents, Active(x)
    PROVE  \A b \in Agents : \A i \in DOMAIN queue[b] : queue[b][i].kind # "INVADE"
<1>1. ASSUME NEW b \in Agents, NEW i \in DOMAIN queue[b] PROVE queue[b][i].kind # "INVADE"
  <2>m. MailTypes
    BY DEF EInv
  <2>1. Invitations(b) = 0 /\ UnderWay(InvadeTo(b)) \in Nat
    BY <2>m, InvaderIsAlone, InvitationsType DEF Decided
  <2>2. UnderWay(InvadeTo(b)) = 0
    BY <2>1 DEF Invitations
  <2>3. b \in Mailboxes /\ queue[b] \in Seq(Messages)
    BY <2>m, AgentMailbox
  <2>4. <<b, queue[b][i]>> \notin InvadeTo(b)
    BY <2>m, <2>2, <2>3, NoneUnderWay
  <2>5. queue[b][i] \in Messages
    BY <2>3
  <2>. QED
    BY <2>3, <2>4, <2>5 DEF InvadeTo
<1>. QED
  BY <1>1

(* Steps of one agent that concern no core.                                *)
LEMMA IdleAgentStep ==
    ASSUME EInv, CoreInv, NEW a \in Holders, MailTypes', OrderInv', Kept(Business),
           UNCHANGED <<owned, reserved>>,
           \A b \in Holders \ {a} :
              pc'[b] = pc[b] /\ request'[b] = request[b] /\ plan'[b] = plan[b],
           pc'[a] # "electing", Active(a)' => Active(a),
           request'[a].invader = request[a].invader /\ request'[a].left = request[a].left,
           request'[a].response = request[a].response,
           plan'[a].awaited = plan[a].awaited /\ plan'[a].offers = plan[a].offers,
           plan'[a].core = None => plan[a].core = None
    PROVE  CoreInv' /\ SameHolders
<1>1. Electing' \subseteq Electing
  BY Threads DEF Electing
<1>2. ASSUME NEW b \in Agents, Active(b)' PROVE Active(b)
  <2>1. CASE b = a
    BY <1>2, <2>1
  <2>2. CASE b # a
    <3>1. b \in Holders \ {a}
      BY <2>2, Threads
    <3>. QED
      BY <1>2, <3>1 DEF Active
  <2>. QED
    BY <2>1, <2>2
<1>3. \A b \in Holders :
              /\ request'[b].invader = request[b].invader /\ request'[b].left = request[b].left
              /\ request'[b].response = request[b].response
              /\ plan'[b].awaited = plan[b].awaited /\ plan'[b].offers = plan[b].offers
              /\ plan'[b].core = None => plan[b].core = None
  OBVIOUS
<1>. QED
  BY <1>1, <1>2, <1>3, IdleStep

LEMMA LocateCoreIsIdle ==
    ASSUME EInv, CoreInv, NEW a \in Holders, LocateCore(a)
    PROVE  CoreInv' /\ SameHolders
<1>0. /\ queue' = With(queue, Locate(a, Min(Unlocated(a)))) /\ pc[a] = "cores"
      /\ pc' = [pc EXCEPT ![a] = "owner"] /\ Unlocated(a) # {}
      /\ UNCHANGED <<out, owned, reserved, request, plan>>
  BY DEF LocateCore, Goto, At
<1>m. MailTypes /\ AgentTypes /\ InHand(a) /\ request[a] \in Requests
  BY AgentParts
<1>. DEFINE s == Locate(a, Min(Unlocated(a)))
<1>1. s \in Posts /\ s.msg.kind = "LOCATE"
  <2>1. Unlocated(a) \subseteq Cores
    BY <1>m DEF Unlocated, Requests, RegionsHere
  <2>2. IsFiniteSet(Unlocated(a)) /\ Unlocated(a) \subseteq Int
    BY <2>1, SubsetOfCores
  <2>3. Min(Unlocated(a)) \in Cores
    BY <1>0, <2>1, <2>2, LeastElement
  <2>. QED
    BY <2>3, PostsMade DEF Locate
<1>. HIDE DEF s
<1>2. MailTypes' /\ Kept(Business) /\ OrderInv'
  <2>1. s.msg.kind \notin Business /\ ~ IsAnswer(s.msg)
    BY <1>1 DEF Business, IsAnswer
  <2>2. queue' = With(queue, s) /\ UNCHANGED out
    BY <1>0 DEF s
  <2>. QED
    BY <1>m, <1>1, <2>1, <2>2, SendKeeps, OrderSend DEF CoreInv
<1>3. pc'[a] = "owner" /\ \A b \in Holders \ {a} : pc'[b] = pc[b]
  BY <1>0, <1>m DEF AgentTypes
<1>4. Active(a)' => Active(a)
  BY <1>0, <1>3 DEF Active
<1>. QED
  BY <1>0, <1>2, <1>3, <1>4, IdleAgentStep

LEMMA CoreLocatedIsIdle ==
    ASSUME EInv, CoreInv, NEW a \in Holders, CoreLocated(a)
    PROVE  CoreInv' /\ SameHolders
<1>0. /\ CanTake(a) /\ Message(a).kind = "INFO" /\ queue' = Taken(a) /\ pc[a] = "owner"
      /\ pc' = [pc EXCEPT ![a] = "cores"]
      /\ UNCHANGED <<out, owned, reserved, plan>>
  BY DEF CoreLocated, Goto, Takes
<1>m. MailTypes /\ AgentTypes /\ request[a] \in Requests
  BY AgentParts
<1>1. \E found : request' = [request EXCEPT ![a].found = found]
  BY DEF CoreLocated
<1>2. /\ \A b \in Holders \ {a} : request'[b] = request[b]
      /\ request'[a].invader = request[a].invader /\ request'[a].left = request[a].left
      /\ request'[a].response = request[a].response
  BY <1>1, <1>m DEF AgentTypes, Requests
<1>3. MailTypes' /\ Kept(Business) /\ OrderInv'
  <2>1. Message(a).kind \notin Business
    BY <1>0 DEF Business
  <2>. QED
    BY <1>0, <1>m, <2>1, ReceiveKeeps, OrderReceive DEF CoreInv
<1>4. pc'[a] = "cores" /\ \A b \in Holders \ {a} : pc'[b] = pc[b]
  BY <1>0, <1>m DEF AgentTypes
<1>5. Active(a)' => Active(a)
  BY <1>0, <1>4 DEF Active
<1>. QED
  BY <1>0, <1>2, <1>3, <1>4, <1>5, IdleAgentStep

LEMMA EndIsIdle ==
    ASSUME EInv, CoreInv, NEW a \in Holders, End(a)
    PROVE  CoreInv' /\ SameHolders
<1>0. /\ CanTake(a) /\ Message(a).kind = "END" /\ queue' = Taken(a) /\ pc[a] = "loop"
      /\ pc' = [pc EXCEPT ![a] = IF a = Idle THEN "stopped" ELSE "ending"]
      /\ UNCHANGED <<out, owned, reserved, request, plan>>
  BY DEF End, Goto, Takes
<1>m. MailTypes /\ AgentTypes
  BY AgentParts
<1>1. MailTypes' /\ Kept(Business) /\ OrderInv'
  <2>1. Message(a).kind \notin Business
    BY <1>0 DEF Business
  <2>. QED
    BY <1>0, <1>m, <2>1, ReceiveKeeps, OrderReceive DEF CoreInv
<1>2. pc'[a] \in {"stopped", "ending"} /\ \A b \in Holders \ {a} : pc'[b] = pc[b]
  BY <1>0, <1>m DEF AgentTypes
<1>3. pc'[a] # "electing" /\ (Active(a)' => Active(a))
  BY <1>0, <1>2 DEF Active
<1>. QED
  BY <1>0, <1>1, <1>2, <1>3, IdleAgentStep

(* An answer is not sent while an invitation is unread.                    *)
LEMMA SendNextIsIdle ==
    ASSUME EInv, CoreInv, NEW a \in Holders, SendNext(a)
    PROVE  CoreInv' /\ SameHolders
<1>. DEFINE s == Head(out[a])
<1>0. /\ queue' = With(queue, s) /\ out[a] # <<>>
      /\ UNCHANGED <<pc, owned, reserved, request, plan>>
  BY DEF SendNext
<1>m. MailTypes /\ AgentTypes /\ InHand(a) /\ out[a] \in Seq(Posts)
  BY AgentParts
<1>1. MailTypes' /\ Kept(Business)
  BY <1>m, SendNextKeepsAll
<1>2. s \in Posts /\ 1 \in DOMAIN out[a] /\ s = out[a][1]
  BY <1>0, <1>m
<1>. HIDE DEF s
<1>3. ~ IsAnswer(s.msg) \/ \A b \in Agents : \A i \in DOMAIN queue[b] : queue[b][i].kind # "INVADE"
  <2>1. CASE IsAnswer(s.msg)
    <3>1. Outgoing(pc[a], s.msg.kind)
      BY <1>m, <1>2, InHandParts DEF OutInHand
    <3>2. pc[a] = "round over"
      BY <2>1, <3>1 DEF Outgoing, IsAnswer
    <3>3. a \in Agents /\ Active(a)
      BY <1>m, <3>2, InHandParts DEF PlanInHand, Planning, Active
    <3>. QED
      BY <3>3, NobodyIsInvited
  <2>. QED
    BY <2>1
<1>4. OrderInv'
  <2>1. queue \in [Mailboxes -> Seq(Messages)] /\ InOrder(queue)
    BY <1>m DEF MailTypes, InOrder, CoreInv, OrderInv
  <2>2. InOrder(With(queue, s))
    BY <1>2, <1>3, <2>1, OrderWith
  <2>. QED
    BY <1>0, <2>2 DEF InOrder, OrderInv
<1>5. Electing' \subseteq Electing /\ \A b \in Agents : Active(b)' => Active(b)
  BY <1>0 DEF Electing, Active
<1>. QED
  BY <1>0, <1>1, <1>4, <1>5, IdleStep

LEMMA LookForWinnerIsIdle ==
    ASSUME EInv, CoreInv, NEW a \in Agents, LookForWinner(a)
    PROVE  CoreInv' /\ SameHolders
<1>h. a \in Holders
  BY Threads
<1>0. /\ \E place \in {"ending", "loop"} : pc' = [pc EXCEPT ![a] = place]
      /\ UNCHANGED <<queue, out, owned, reserved, request, plan>>
  BY DEF LookForWinner, Goto
<1>m. MailTypes /\ AgentTypes
  BY <1>h, AgentParts
<1>1. MailTypes' /\ Kept(Business) /\ OrderInv'
  BY <1>0, <1>m, NoMailKeepsAll DEF CoreInv, OrderInv
<1>2. pc'[a] \in {"ending", "loop"} /\ \A b \in Holders \ {a} : pc'[b] = pc[b]
  BY <1>h, <1>0, <1>m DEF AgentTypes
<1>3. pc'[a] # "electing" /\ (Active(a)' => Active(a))
  BY <1>0, <1>2 DEF Active
<1>. QED
  BY <1>h, <1>0, <1>1, <1>2, <1>3, IdleAgentStep

LEMMA SeedIsIdle ==
    ASSUME EInv, CoreInv, NEW a \in Agents, Seed(a)
    PROVE  CoreInv' /\ SameHolders
<1>h. a \in Holders
  BY Threads
<1>m. MailTypes /\ AgentTypes /\ InHand(a) /\ owned[a] \subseteq Cores
  BY <1>h, AgentParts
<1>0. /\ pc' = [pc EXCEPT ![a] = "try"] /\ pc[a] = "seed"
      /\ UNCHANGED <<queue, out, owned, reserved, request>>
  BY DEF Seed, Goto, At
<1>1. PICK c \in Cores : plan' = [plan EXCEPT ![a] = Planned(c, 0)]
  BY <1>m DEF Seed
<1>2. plan[a] = NoPlan
  BY <1>m, <1>0, InHandParts DEF PlanInHand, Planning, Managing
<1>3. /\ \A b \in Holders \ {a} : plan'[b] = plan[b]
      /\ plan'[a].awaited = plan[a].awaited /\ plan'[a].offers = plan[a].offers
      /\ plan'[a].core # None
  <2>1. plan'[a] = Planned(c, 0) /\ \A b \in Holders \ {a} : plan'[b] = plan[b]
    BY <1>h, <1>m, <1>1 DEF AgentTypes
  <2>2. NoPlan.awaited = 0 /\ NoPlan.offers = <<>>
    BY DEF NoPlan, Planned
  <2>3. 0 \in 0 .. Cardinality(Cores)
    BY CoresAreNumbers
  <2>4. /\ Planned(c, 0).awaited = 0 /\ Planned(c, 0).offers = <<>>
        /\ Planned(c, 0).core # None
    BY <2>3, PlansMade
  <2>. QED
    BY <1>2, <2>1, <2>2, <2>4
<1>4. MailTypes' /\ Kept(Business) /\ OrderInv'
  BY <1>0, <1>m, NoMailKeepsAll DEF CoreInv, OrderInv
<1>5. pc'[a] = "try" /\ \A b \in Holders \ {a} : pc'[b] = pc[b]
  BY <1>h, <1>0, <1>m DEF AgentTypes
<1>6. pc'[a] # "electing" /\ Active(a)
  BY <1>0, <1>5 DEF Active
<1>. QED
  BY <1>h, <1>0, <1>3, <1>4, <1>5, <1>6, IdleAgentStep

LEMMA NewTodo ==
    ASSUME AgentTypes, NEW a \in Holders, NEW todo, plan' = [plan EXCEPT ![a].todo = todo]
    PROVE  /\ \A b \in Holders \ {a} : plan'[b] = plan[b]
           /\ plan'[a].awaited = plan[a].awaited /\ plan'[a].offers = plan[a].offers
           /\ plan'[a].core = plan[a].core
<1>1. plan[a] \in Plans /\ DOMAIN plan = Holders
  BY DEF AgentTypes
<1>2. plan'[a] = [plan[a] EXCEPT !.todo = todo] /\ \A b \in Holders \ {a} : plan'[b] = plan[b]
  BY <1>1
<1>. QED
  BY <1>1, <1>2 DEF Plans

LEMMA TryIsIdle ==
    ASSUME EInv, CoreInv, NEW a \in Agents, Try(a)
    PROVE  CoreInv' /\ SameHolders
<1>h. a \in Holders
  BY Threads
<1>m. MailTypes /\ AgentTypes /\ InHand(a) /\ plan[a] \in Plans
  BY <1>h, AgentParts
<1>0. /\ pc' = [pc EXCEPT ![a] = "next"] /\ pc[a] = "try"
      /\ UNCHANGED <<queue, out, owned, reserved, request>>
  BY DEF Try, Goto, At
<1>1. \E todo : plan' = [plan EXCEPT ![a].todo = todo]
  BY DEF Try
<1>2. /\ \A b \in Holders \ {a} : plan'[b] = plan[b]
      /\ plan'[a].awaited = plan[a].awaited /\ plan'[a].offers = plan[a].offers
      /\ plan'[a].core = plan[a].core
  BY <1>h, <1>m, <1>1, NewTodo
<1>3. MailTypes' /\ Kept(Business) /\ OrderInv'
  BY <1>0, <1>m, NoMailKeepsAll DEF CoreInv, OrderInv
<1>4. pc'[a] = "next" /\ \A b \in Holders \ {a} : pc'[b] = pc[b]
  BY <1>h, <1>0, <1>m DEF AgentTypes
<1>5. pc'[a] # "electing" /\ (Active(a)' => Active(a))
  BY <1>2, <1>4 DEF Active
<1>. QED
  BY <1>h, <1>0, <1>2, <1>3, <1>4, <1>5, IdleAgentStep

LEMMA AllRequestedIsIdle ==
    ASSUME EInv, CoreInv, NEW a \in Agents, AllRequested(a)
    PROVE  CoreInv' /\ SameHolders
<1>h. a \in Holders
  BY Threads
<1>m. MailTypes /\ AgentTypes
  BY <1>h, AgentParts
<1>0. /\ pc' = [pc EXCEPT ![a] = "responses"]
      /\ UNCHANGED <<queue, out, owned, reserved, request, plan>>
  BY DEF AllRequested, Goto
<1>1. MailTypes' /\ Kept(Business) /\ OrderInv'
  BY <1>0, <1>m, NoMailKeepsAll DEF CoreInv, OrderInv
<1>2. pc'[a] = "responses" /\ \A b \in Holders \ {a} : pc'[b] = pc[b]
  BY <1>h, <1>0, <1>m DEF AgentTypes
<1>3. pc'[a] # "electing" /\ (Active(a)' => Active(a))
  BY <1>0, <1>2 DEF Active
<1>. QED
  BY <1>h, <1>0, <1>1, <1>2, <1>3, IdleAgentStep

LEMMA TryAgainIsIdle ==
    ASSUME EInv, CoreInv, NEW a \in Agents, TryAgain(a)
    PROVE  CoreInv' /\ SameHolders
<1>h. a \in Holders
  BY Threads
<1>m. MailTypes /\ AgentTypes /\ plan[a] \in Plans
  BY <1>h, AgentParts
<1>0. /\ pc' = [pc EXCEPT ![a] = "try"]
      /\ plan' = [plan EXCEPT ![a].tries = @ + 1]
      /\ UNCHANGED <<queue, out, owned, reserved, request>>
  BY DEF TryAgain, Goto
<1>1. /\ \A b \in Holders \ {a} : plan'[b] = plan[b]
      /\ plan'[a].awaited = plan[a].awaited /\ plan'[a].offers = plan[a].offers
      /\ plan'[a].core = plan[a].core
  BY <1>h, <1>m, <1>0 DEF AgentTypes, Plans
<1>2. MailTypes' /\ Kept(Business) /\ OrderInv'
  BY <1>0, <1>m, NoMailKeepsAll DEF CoreInv, OrderInv
<1>3. pc'[a] = "try" /\ \A b \in Holders \ {a} : pc'[b] = pc[b]
  BY <1>h, <1>0, <1>m DEF AgentTypes
<1>4. pc'[a] # "electing" /\ (Active(a)' => Active(a))
  BY <1>1, <1>3 DEF Active
<1>. QED
  BY <1>h, <1>0, <1>1, <1>2, <1>3, <1>4, IdleAgentStep

LEMMA LocateCenterIsIdle ==
    ASSUME EInv, CoreInv, NEW a \in Agents, LocateCenter(a)
    PROVE  CoreInv' /\ SameHolders
<1>h. a \in Holders
  BY Threads
<1>m. MailTypes /\ AgentTypes /\ plan[a] \in Plans
  BY <1>h, AgentParts
<1>0. /\ pc' = [pc EXCEPT ![a] = "center"] /\ plan[a].todo # <<>>
      /\ UNCHANGED <<out, owned, reserved, request, plan>>
  BY DEF LocateCenter, Goto
<1>1. PICK center \in CenterRead(a) : queue' = With(queue, Locate(a, center))
  BY DEF LocateCenter
<1>c. center \in Cores
  BY <1>h, <1>m, <1>0, <1>1, CenterReadType
<1>. DEFINE s == Locate(a, center)
<1>4. s \in Posts /\ s.msg.kind = "LOCATE" /\ queue' = With(queue, s)
  BY <1>1, <1>c, <1>h, PostsMade DEF Locate
<1>. HIDE DEF s
<1>5. MailTypes' /\ Kept(Business) /\ OrderInv'
  <2>1. s.msg.kind \notin Business /\ ~ IsAnswer(s.msg)
    BY <1>4 DEF Business, IsAnswer
  <2>. QED
    BY <1>m, <1>4, <1>0, <2>1, SendKeeps, OrderSend DEF CoreInv
<1>6. pc'[a] = "center" /\ \A b \in Holders \ {a} : pc'[b] = pc[b]
  BY <1>h, <1>0, <1>m DEF AgentTypes
<1>7. pc'[a] # "electing" /\ (Active(a)' => Active(a))
  BY <1>0, <1>6 DEF Active
<1>. QED
  BY <1>h, <1>0, <1>5, <1>6, <1>7, IdleAgentStep

LEMMA StopIsIdle ==
    ASSUME EInv, CoreInv, NEW a \in Agents, Stop(a)
    PROVE  CoreInv' /\ SameHolders
<1>h. a \in Holders
  BY Threads
<1>m. MailTypes /\ AgentTypes
  BY <1>h, AgentParts
<1>. DEFINE s == [to |-> Idle, msg |-> [kind |-> "END", from |-> a]]
<1>0. /\ \E place \in {"stopped", "last"} : pc' = [pc EXCEPT ![a] = place]
      /\ UNCHANGED queue \/ queue' = With(queue, s)
      /\ UNCHANGED <<out, owned, reserved, request, plan>>
  BY DEF Stop, Goto
<1>1. s \in Posts /\ s.msg.kind = "END"
  BY <1>h, Threads, MailboxesAreFinite DEF Posts, Messages
<1>. HIDE DEF s
<1>2. MailTypes' /\ Kept(Business) /\ OrderInv'
  <2>1. CASE UNCHANGED queue
    BY <1>0, <1>m, <2>1, NoMailKeepsAll DEF CoreInv, OrderInv
  <2>2. CASE queue' = With(queue, s)
    <3>1. s.msg.kind \notin Business /\ ~ IsAnswer(s.msg)
      BY <1>1 DEF Business, IsAnswer
    <3>. QED
      BY <1>m, <1>1, <1>0, <2>2, <3>1, SendKeeps, OrderSend DEF CoreInv
  <2>. QED
    BY <1>0, <2>1, <2>2
<1>3. pc'[a] \in {"stopped", "last"} /\ \A b \in Holders \ {a} : pc'[b] = pc[b]
  BY <1>h, <1>0, <1>m DEF AgentTypes
<1>4. pc'[a] # "electing" /\ (Active(a)' => Active(a))
  BY <1>0, <1>3 DEF Active
<1>. QED
  BY <1>h, <1>0, <1>2, <1>3, <1>4, IdleAgentStep

LEMMA StopClusterIsIdle ==
    ASSUME EInv, CoreInv, NEW a \in Agents, StopCluster(a)
    PROVE  CoreInv' /\ SameHolders
<1>h. a \in Holders
  BY Threads
<1>m. MailTypes /\ AgentTypes
  BY <1>h, AgentParts
<1>0. /\ pc' = [pc EXCEPT ![a] = "stopped"] /\ ClusterStop
      /\ UNCHANGED <<out, owned, reserved, request, plan>>
  BY DEF StopCluster, Goto
<1>2. MailTypes' /\ Kept(Business) /\ OrderInv'
  <2>1. "END" \notin Business
    BY DEF Business
  <2>. QED
    BY <1>m, <1>0, <2>1, ClusterStopKeepsOthers, OrderClusterStop DEF CoreInv
<1>3. pc'[a] = "stopped" /\ \A b \in Holders \ {a} : pc'[b] = pc[b]
  BY <1>h, <1>0, <1>m DEF AgentTypes
<1>4. pc'[a] # "electing" /\ (Active(a)' => Active(a))
  BY <1>0, <1>3 DEF Active
<1>. QED
  BY <1>h, <1>0, <1>2, <1>3, <1>4, IdleAgentStep

(* Steps that leave the agents where they are.                             *)
LEMMA QuietStep ==
    ASSUME EInv, CoreInv, MailTypes', OrderInv', Kept(Business),
           UNCHANGED <<pc, owned, reserved, request, plan>>
    PROVE  CoreInv' /\ SameHolders
<1>1. Electing' \subseteq Electing /\ \A b \in Agents : Active(b)' => Active(b)
  BY DEF Electing, Active
<1>. QED
  BY <1>1, IdleStep

LEMMA SilentStep ==
    ASSUME EInv, CoreInv, UNCHANGED <<queue, out, pc, owned, reserved, request, plan>>
    PROVE  CoreInv' /\ SameHolders
<1>m. MailTypes
  BY DEF EInv
<1>1. MailTypes' /\ Kept(Business) /\ OrderInv'
  BY <1>m, NoMailKeepsAll DEF CoreInv, OrderInv
<1>. QED
  BY <1>1, QuietStep

LEMMA SilentSteps ==
    ASSUME EInv, CoreInv,
           \/ \E a \in Holders : Crash(a)
           \/ \E a \in Agents : EnterRegion(a) \/ LeaveRegion(a) \/ PassBarrier(a)
           \/ Miss \/ Unload \/ Join
           \/ UNCHANGED vars
    PROVE  CoreInv' /\ SameHolders
<1>1. UNCHANGED <<queue, out, pc, owned, reserved, request, plan>>
  BY DEF Crash, Miss, MissCenter, MissLocated, FollowNull, EnterRegion, LeaveRegion, PassBarrier, Unload, Join, vars, agentVars
<1>. QED
  BY <1>1, SilentStep

LEMMA DirectoryIsIdle ==
    ASSUME EInv, CoreInv, NEW d \in Directories, DirectoryStep(d)
    PROVE  CoreInv' /\ SameHolders
<1>1. UNCHANGED <<pc, owned, reserved, request, plan>>
  BY DirectoryAct
<1>2. Business \cap {"REGISTER", "LOCATE", "END", "INFO"} = {}
  BY DEF Business
<1>3. MailTypes' /\ Kept(Business)
  BY <1>2, DirectoryKeepsOthers
<1>4. OrderInv'
  BY OrderDirectory DEF CoreInv
<1>. QED
  BY <1>1, <1>3, <1>4, QuietStep

LEMMA SendInvadeIsIdle ==
    ASSUME EInv, CoreInv, SendInvade
    PROVE  CoreInv' /\ SameHolders
<1>m. MailTypes /\ MainTypes
  BY DEF EInv
<1>. DEFINE s == [to |-> main.next, msg |-> Control("INVADE")]
<1>0. /\ queue' = With(queue, s) /\ main.phase = "start"
      /\ UNCHANGED <<out, pc, owned, reserved, request, plan>>
  BY DEF SendInvade, With
<1>1. s \in Posts /\ s.msg.kind = "INVADE"
  BY <1>0, <1>m, Threads, MailboxesAreFinite DEF Posts, Messages, MainTypes, Control
<1>. HIDE DEF s
<1>2. MailTypes' /\ Kept(Business) /\ OrderInv'
  <2>1. s.msg.kind \notin Business /\ ~ IsAnswer(s.msg)
    BY <1>1 DEF Business, IsAnswer
  <2>. QED
    BY <1>m, <1>1, <1>0, <2>1, SendKeeps, OrderSend DEF CoreInv
<1>. QED
  BY <1>0, <1>2, QuietStep

LEMMA SendKillIsIdle ==
    ASSUME EInv, CoreInv, SendKill
    PROVE  CoreInv' /\ SameHolders
<1>m. MailTypes /\ MainTypes
  BY DEF EInv
<1>. DEFINE s == [to |-> kill, msg |-> Control("END")]
<1>0. /\ kill <= N + 1 => queue' = With(queue, s)
      /\ ~ (kill <= N + 1) => ClusterStop
      /\ UNCHANGED <<out, pc, owned, reserved, request, plan>>
  BY DEF SendKill, With
<1>1. kill <= N + 1 => s \in Posts /\ s.msg.kind = "END"
  <2>1. kill <= N + 1 => kill \in Holders
    BY <1>m, Threads DEF MainTypes
  <2>. QED
    BY <2>1, MailboxesAreFinite DEF Posts, Messages, Control
<1>. HIDE DEF s
<1>2. MailTypes' /\ Kept(Business) /\ OrderInv'
  <2>1. CASE kill <= N + 1
    <3>1. s.msg.kind \notin Business /\ ~ IsAnswer(s.msg)
      BY <1>1, <2>1 DEF Business, IsAnswer
    <3>. QED
      BY <1>m, <1>1, <1>0, <2>1, <3>1, SendKeeps, OrderSend DEF CoreInv
  <2>2. CASE ~ (kill <= N + 1)
    <3>1. "END" \notin Business
      BY DEF Business
    <3>. QED
      BY <1>m, <1>0, <2>2, <3>1, ClusterStopKeepsOthers, OrderClusterStop DEF CoreInv
  <2>. QED
    BY <2>1, <2>2
<1>. QED
  BY <1>0, <1>2, QuietStep

-----------------------------------------------------------------------------
(* Requests.                                                               *)
LEMMA InHandAreNumbers ==
    EInv => \A b \in Holders : plan[b].awaited \in Nat /\ request[b].left \in Nat
<1>. SUFFICES ASSUME EInv, NEW b \in Holders
              PROVE  plan[b].awaited \in Nat /\ request[b].left \in Nat
  OBVIOUS
<1>1. plan[b] \in Plans /\ request[b] \in Requests
  BY AgentParts
<1>2. plan[b].awaited \in Nat
  BY <1>1 DEF Plans
<1>3. request[b].left \in 0 .. N + 1 /\ N \in Nat
  BY <1>1, Threads DEF Requests
<1>. QED
  BY <1>2, <1>3

LEMMA InHandAreNumbersNext ==
    (EInv => \A b \in Holders : plan[b].awaited \in Nat /\ request[b].left \in Nat)'
BY InHandAreNumbers, PTL

LEMMA DueChanges ==
    ASSUME EInv, EInv', DueInv, NEW a \in Holders, ElsewhereSame(a),
           \A b \in Holders :
              UnderWay(Due(b))' + (IF request'[a].invader = b THEN 1 ELSE 0)
                 + (IF b = a THEN plan[a].awaited + request[a].left ELSE 0)
              = UnderWay(Due(b)) + (IF request[a].invader = b THEN 1 ELSE 0)
                 + (IF b = a THEN plan'[a].awaited + request'[a].left ELSE 0)
    PROVE  DueInv'
<1>1. ASSUME NEW b \in Holders
      PROVE  UnderWay(Due(b))' + Cardinality(ManagersFor(b)')
                = plan'[b].awaited + request'[b].left
  <2>m. MailTypes /\ MailTypes' /\ AgentTypes /\ AgentTypes'
    BY DEF EInv
  <2>1. UnderWay(Due(b)) \in Nat /\ UnderWay(Due(b))' \in Nat
    BY <2>m, UnderWayType, UnderWayTypeNext
  <2>2. /\ plan[b].awaited \in Nat /\ request[b].left \in Nat
        /\ plan'[b].awaited \in Nat /\ request'[b].left \in Nat
        /\ plan[a].awaited \in Nat /\ request[a].left \in Nat
        /\ plan'[a].awaited \in Nat /\ request'[a].left \in Nat
    BY InHandAreNumbers, InHandAreNumbersNext
  <2>3. /\ Cardinality(ManagersFor(b)) \in Nat /\ Cardinality(ManagersFor(b)') \in Nat
        /\ Cardinality(ManagersFor(b)') = Cardinality(ManagersFor(b))
                 - (IF request[a].invader = b THEN 1 ELSE 0)
                 + (IF request'[a].invader = b THEN 1 ELSE 0)
    BY ManagersChange
  <2>4. UnderWay(Due(b)) + Cardinality(ManagersFor(b)) = plan[b].awaited + request[b].left
    BY DEF DueInv
  <2>5. b # a => plan'[b] = plan[b] /\ request'[b] = request[b]
    BY DEF ElsewhereSame
  <2>. DEFINE was == IF request[a].invader = b THEN 1 ELSE 0
              is == IF request'[a].invader = b THEN 1 ELSE 0
  <2>6. was \in 0 .. 1 /\ is \in 0 .. 1
    OBVIOUS
  <2>7. CASE b = a
    <3>1. UnderWay(Due(b))' + is + (plan[a].awaited + request[a].left)
             = UnderWay(Due(b)) + was + (plan'[a].awaited + request'[a].left)
      BY <2>7
    <3>2. /\ Cardinality(ManagersFor(b)') = Cardinality(ManagersFor(b)) - was + is
      BY <2>3
    <3>3. UnderWay(Due(b)) + Cardinality(ManagersFor(b)) = plan[a].awaited + request[a].left
      BY <2>4, <2>7
    <3>. HIDE DEF was, is
    <3>4. Cardinality(ManagersFor(b)) \in Nat /\ Cardinality(ManagersFor(b)') \in Nat
      BY <2>3
    <3>5. UnderWay(Due(b))' + Cardinality(ManagersFor(b)') = plan'[a].awaited + request'[a].left
      BY <2>1, <2>2, <2>6, <3>1, <3>2, <3>3, <3>4
    <3>. QED
      BY <2>7, <3>5
  <2>8. CASE b # a
    <3>1. UnderWay(Due(b))' + is + 0 = UnderWay(Due(b)) + was + 0
      BY <2>8
    <3>2. /\ Cardinality(ManagersFor(b)') = Cardinality(ManagersFor(b)) - was + is
      BY <2>3
    <3>3. UnderWay(Due(b)) + Cardinality(ManagersFor(b)) = plan'[b].awaited + request'[b].left
      BY <2>4, <2>5, <2>8
    <3>. HIDE DEF was, is
    <3>. QED
      BY <2>1, <2>2, <2>3, <2>6, <3>1, <3>2, <3>3
  <2>. QED
    BY <2>7, <2>8
<1>. QED
  BY <1>1 DEF DueInv

LEMMA InvadersChange ==
    ASSUME InvaderInv, NEW a \in Holders, ElsewhereSame(a),
           \A x \in Agents : plan'[x].core = None => plan[x].core = None,
           \A x \in Agents : plan'[x].core = None /\ UnderWay(ForInvader(x)) = 0
                             /\ request[a].invader # x =>
              UnderWay(ForInvader(x))' = 0 /\ request'[a].invader # x
    PROVE  InvaderInv'
<1>1. ASSUME NEW x \in Agents, plan'[x].core = None
      PROVE  UnderWay(ForInvader(x))' = 0 /\ ManagersFor(x)' = {}
  <2>1. UnderWay(ForInvader(x)) = 0 /\ ManagersFor(x) = {}
    BY <1>1 DEF InvaderInv
  <2>2. \A h \in Holders : request[h].invader # x
    BY <2>1 DEF ManagersFor
  <2>3. UnderWay(ForInvader(x))' = 0 /\ request'[a].invader # x
    BY <1>1, <2>1, <2>2
  <2>4. \A h \in Holders : request'[h].invader # x
    BY <2>2, <2>3 DEF ElsewhereSame
  <2>. QED
    BY <2>3, <2>4 DEF ManagersFor
<1>. QED
  BY <1>1 DEF InvaderInv

(* What a step that is not part of an election does to who is free. *)
LEMMA ElectionStays ==
    ASSUME EInv, NEW a \in Holders, ReadyInv, FreeInv, Kept({"ACCEPT", "REJECT"}),
           pc'[a] # "electing", ElsewhereSame(a), \A b \in Holders \ {a} : pc'[b] = pc[b],
           Active(a)' => Active(a),
           \A b \in Agents : Active(b) => reserved'[b] \subseteq reserved[b]
    PROVE  ReadyInv' /\ FreeInv'
<1>1. Electing' \subseteq Electing
  BY Threads DEF Electing
<1>2. ASSUME NEW b \in Agents, Active(b)' PROVE Active(b)
  <2>1. CASE b = a
    BY <1>2, <2>1
  <2>2. CASE b # a
    <3>1. b \in Holders \ {a}
      BY <2>2, Threads
    <3>. QED
      BY <1>2, <3>1 DEF Active, ElsewhereSame
  <2>. QED
    BY <2>1, <2>2
<1>3. FreeInv'
  <2>1. ASSUME NEW b \in Agents, Active(b)' PROVE reserved'[b] = {}
    BY <2>1, <1>2 DEF FreeInv
  <2>. QED
    BY <2>1 DEF FreeInv
<1>. QED
  BY <1>1, <1>3, ReadyStays

LEMMA RequestStep ==
    ASSUME EInv, EInv', CoreInv, NEW a \in Holders, Kept(Claims), OrderInv',
           UNCHANGED <<owned, reserved>>, ElsewhereSame(a), pc'[a] # "electing",
           \A b \in Holders \ {a} : pc'[b] = pc[b],
           Active(a)' => Active(a),
           request'[a].response = request[a].response, plan'[a].offers = plan[a].offers,
           DueInv', InvaderInv', (UnderWay(Misled) = 0)'
    PROVE  CoreInv' /\ SameHolders
<1>0. MailTypes /\ MailTypes'
  BY DEF EInv
<1>k. Kept({"ACCEPT", "REJECT"}) /\ Kept({"ACCEPT"})
  BY FewerKinds DEF Claims
<1>1. TokenInv'
  <2>1. \A b \in Holders :
            request'[b].response = request[b].response /\ plan'[b].offers = plan[b].offers
    BY DEF ElsewhereSame
  <2>. QED
    BY <2>1, TokensStay DEF CoreInv
<1>2. SameHolders /\ HolderInv' /\ ApartInv'
  BY <1>0, <1>k, PossessionsStay, HoldersStay, ApartStays DEF CoreInv
<1>3. ReadyInv' /\ FreeInv'
  BY <1>k, ElectionStays DEF CoreInv
<1>. QED
  BY <1>1, <1>2, <1>3 DEF CoreInv

(* Where a message and a post belong.                                      *)
LEMMA DuePairs ==
    ASSUME NEW b, NEW r \in Mailboxes, NEW m \in Messages
    PROVE  /\ <<r, m>> \in Due(b) <=>
                 \/ m.kind = "OFFER" /\ r = b
                 \/ m.kind \in {"MAKE_OFFER", "REQUEST"} /\ m.from = b
                 \/ m.kind = "FORWARD" /\ m.invader = b
           /\ <<r, m>> \in ForInvader(b) <=>
                 \/ m.kind = "REQUEST" /\ m.from = b
                 \/ m.kind \in {"FORWARD", "MAKE_OFFER"} /\ m.invader = b
           /\ <<r, m>> \in Misled <=>
                 \/ m.kind = "MAKE_OFFER" /\ m.invader = r
                 \/ m.kind = "FORWARD" /\ m.invader \in m.neighbors
                 \/ m.kind \in {"OFFER", "ACCEPT", "REJECT"} /\ r \notin Holders
BY DEF Due, ForInvader, Misled

LEMMA UnitIs == \A x, P : (x \in P => Unit(x, P) = 1) /\ (x \notin P => Unit(x, P) = 0)
BY DEF Unit

(* Where nobody misleads, nobody has been misled.                          *)
LEMMA NotMisled ==
    ASSUME MailTypes, NEW a \in Holders, CanTake(a), NEW P, UnderWay(P) = 0
    PROVE  <<a, Message(a)>> \notin P
<1>1. UnderWay(P) >= Unit(<<a, Message(a)>>, P)
  BY MessageIsUnderWay
<1>2. <<a, Message(a)>> \in P => Unit(<<a, Message(a)>>, P) = 1
  BY UnitIs
<1>. QED
  BY <1>1, <1>2

LEMMA NoneIsNobody == None \notin Holders
BY NoneAssumption

LEMMA StaysPassive ==
    ASSUME NEW a, pc'[a] # "seed", plan'[a].core = plan[a].core
    PROVE  Active(a)' => Active(a)
BY DEF Active

(* The questions to the neighbors.                                         *)
LEMMA QuestionsCount ==
    ASSUME NEW a \in Holders, NEW neighbors, neighbors \subseteq Holders,
           NEW region \in RegionsHere, NEW invader \in Agents,
           NEW list, list = Questions(a, neighbors, region, invader),
           NEW n, n = Cardinality(neighbors)
    PROVE  /\ list \in Seq(Posts) /\ n \in Nat
           /\ \A i \in DOMAIN list : list[i].msg.kind = "MAKE_OFFER"
           /\ \A b : Matching(list, Due(b)) = IF b = a THEN n ELSE 0
           /\ \A x : x # invader => Matching(list, ForInvader(x)) = 0
           /\ invader \notin neighbors => Matching(list, Misled) = 0
<1>1. /\ list \in Seq(Posts) /\ n \in 0 .. N + 1 /\ DOMAIN list = 1 .. n
      /\ \A i \in 1 .. n : /\ list[i].to \in neighbors
                           /\ list[i].msg.kind = "MAKE_OFFER" /\ list[i].msg.from = a
                           /\ list[i].msg.invader = invader
  <2>1. /\ list \in Seq(Posts) /\ n \in 0 .. N + 1 /\ DOMAIN list = 1 .. n
    BY QuestionsType
  <2>2. ASSUME NEW i \in 1 .. n
        PROVE  /\ list[i].to \in neighbors
               /\ list[i].msg.kind = "MAKE_OFFER" /\ list[i].msg.from = a
               /\ list[i].msg.invader = invader
    BY <2>2, QuestionsType
  <2>. QED
    BY <2>1, <2>2
<1>n. n \in Nat
  BY <1>1, Threads
<1>2. ASSUME NEW i \in DOMAIN list
      PROVE  list[i].to \in Mailboxes /\ list[i].msg \in Messages
  <2>1. list[i] \in Posts
    BY <1>1
  <2>. QED
    BY <2>1 DEF Posts
<1>3. ASSUME NEW b PROVE Matching(list, Due(b)) = IF b = a THEN n ELSE 0
  <2>1. \A i \in DOMAIN list : <<list[i].to, list[i].msg>> \in Due(b) <=> b = a
    BY <1>1, <1>2, DuePairs
  <2>2. CASE b = a
    <3>1. {i \in DOMAIN list : <<list[i].to, list[i].msg>> \in Due(b)} = 1 .. n
      BY <1>1, <2>1, <2>2
    <3>2. Cardinality(1 .. n) = n
      BY <1>n, FS_Interval
    <3>. QED
      BY <2>2, <3>1, <3>2 DEF Matching
  <2>3. CASE b # a
    BY <2>1, <2>3, NoneMatches
  <2>. QED
    BY <2>2, <2>3
<1>4. ASSUME NEW x, x # invader PROVE Matching(list, ForInvader(x)) = 0
  <2>1. ASSUME NEW i \in DOMAIN list PROVE <<list[i].to, list[i].msg>> \notin ForInvader(x)
    <3>1. list[i].msg.kind = "MAKE_OFFER" /\ list[i].msg.invader # x
      BY <1>1, <1>4
    <3>. QED
      BY <1>2, <3>1, DuePairs
  <2>. QED
    BY <2>1, NoneMatches
<1>5. ASSUME invader \notin neighbors PROVE Matching(list, Misled) = 0
  <2>1. ASSUME NEW i \in DOMAIN list PROVE <<list[i].to, list[i].msg>> \notin Misled
    <3>1. list[i].msg.kind = "MAKE_OFFER" /\ list[i].msg.invader # list[i].to
      BY <1>1, <1>5
    <3>. QED
      BY <1>2, <3>1, DuePairs
  <2>. QED
    BY <2>1, NoneMatches
<1>. QED
  BY <1>1, <1>n, <1>3, <1>4, <1>5

LEMMA RequestIsSafe ==
    ASSUME EInv, EInv', CoreInv, NEW a \in Holders, Request(a)
    PROVE  CoreInv' /\ SameHolders
<1>. DEFINE m == Message(a)
<1>0. /\ CanTake(a) /\ pc[a] = "loop" /\ m.kind = "REQUEST" /\ queue' = Taken(a)
      /\ request' = [request EXCEPT ![a] = Handling(m.region, m.from, 0)]
      /\ pc' = [pc EXCEPT ![a] = "cores"]
      /\ UNCHANGED <<out, owned, reserved, plan>>
  BY BeginIsHandling DEF Request, Takes
<1>m. MailTypes /\ AgentTypes /\ InHand(a)
  BY AgentParts
<1>1. m \in Messages /\ m.from \in Agents /\ m.region \in RegionsHere /\ a \in Mailboxes
  BY <1>0, <1>m, MessageType, MessageParts, MailboxesAreFinite
<1>. HIDE DEF m
<1>2. /\ request[a].invader = None /\ request[a].left = 0 /\ request[a].response = <<>>
      /\ request'[a].invader = m.from /\ request'[a].left = 0 /\ request'[a].response = <<>>
  <2>1. request[a] = NoRequest
    BY <1>0, <1>m, InHandParts DEF RequestInHand, Managing
  <2>2. request'[a] = Handling(m.region, m.from, 0)
    BY <1>0, <1>m DEF AgentTypes
  <2>. QED
    BY <2>1, <2>2 DEF NoRequest, Handling
<1>3. ElsewhereSame(a) /\ pc'[a] = "cores" /\ \A b \in Holders \ {a} : pc'[b] = pc[b]
  BY <1>0, <1>m DEF ElsewhereSame, AgentTypes
<1>4. Kept(Claims) /\ OrderInv'
  <2>1. m.kind \notin Claims
    BY <1>0 DEF Claims
  <2>. QED
    BY <1>0, <1>m, <2>1, ReceiveKeeps, OrderReceive DEF CoreInv, m
<1>5. ASSUME NEW P
      PROVE  UnderWay(P) \in Nat /\ UnderWay(P)' = UnderWay(P) - Unit(<<a, m>>, P)
  BY <1>0, <1>m, ReceiveStep, UnderWayType DEF m
<1>6. ASSUME NEW b PROVE Unit(<<a, m>>, Due(b)) = IF m.from = b THEN 1 ELSE 0
  BY <1>0, <1>1, DuePairs, UnitIs
<1>7. DueInv'
  <2>1. ASSUME NEW b \in Holders
        PROVE  UnderWay(Due(b))' + (IF request'[a].invader = b THEN 1 ELSE 0)
                  + (IF b = a THEN plan[a].awaited + request[a].left ELSE 0)
               = UnderWay(Due(b)) + (IF request[a].invader = b THEN 1 ELSE 0)
                  + (IF b = a THEN plan'[a].awaited + request'[a].left ELSE 0)
    <3>1. /\ UnderWay(Due(b)) \in Nat
          /\ UnderWay(Due(b))' = UnderWay(Due(b)) - (IF m.from = b THEN 1 ELSE 0)
      BY <1>5, <1>6
    <3>2. /\ request[a].invader # b
          /\ request'[a].invader = m.from /\ plan'[a].awaited = plan[a].awaited
          /\ request[a].left = 0 /\ request'[a].left = 0 /\ plan[a].awaited \in Nat
      BY <1>0, <1>2, NoneIsNobody, InHandAreNumbers
    <3>. QED
      BY <3>1, <3>2
  <2>. QED
    BY <1>3, <2>1, DueChanges DEF CoreInv
<1>8. InvaderInv'
  <2>1. ASSUME NEW x \in Agents, UnderWay(ForInvader(x)) = 0
        PROVE  UnderWay(ForInvader(x))' = 0 /\ m.from # x
    <3>1. <<a, m>> \notin ForInvader(x)
      BY <1>0, <1>m, <2>1, NotMisled DEF m
    <3>2. Unit(<<a, m>>, ForInvader(x)) = 0
      BY <3>1, UnitIs
    <3>3. m.from # x
      BY <1>0, <1>1, <3>1, DuePairs
    <3>. QED
      BY <1>5, <2>1, <3>2, <3>3
  <2>. QED
    BY <1>0, <1>2, <1>3, <2>1, InvadersChange DEF CoreInv
<1>9. (UnderWay(Misled) = 0)'
  <2>1. <<a, m>> \notin Misled
    BY <1>0, <1>m, NotMisled DEF CoreInv, m
  <2>. QED
    BY <1>5, <2>1, UnitIs DEF CoreInv
<1>10. Active(a)' => Active(a)
  BY <1>0, <1>3, StaysPassive
<1>. QED
  BY <1>0, <1>2, <1>3, <1>4, <1>7, <1>8, <1>9, <1>10, RequestStep

(* Who is asked is not the invader, and nor is who manages for it.         *)
LEMMA InvaderIsNotAsked == \A a : request[a].invader \notin Asked(a)
BY DEF Asked

LEMMA ManageIsSafe ==
    ASSUME EInv, EInv', CoreInv, NEW a \in Holders, Manage(a)
    PROVE  CoreInv' /\ SameHolders
<1>. DEFINE inv == request[a].invader
            who == Asked(a)
            list == Questions(a, who, request[a].region, inv)
            left == Cardinality(who)
<1>0. /\ pc[a] = "cores" /\ out[a] = <<>>
      /\ Sends(a, list)
      /\ request' = [request EXCEPT ![a].left = left, ![a].found = <<>>]
      /\ pc' = [pc EXCEPT ![a] = "offers"]
      /\ UNCHANGED <<queue, owned, reserved, plan>>
  BY AskIsQuestions DEF Manage, At, Goto
<1>m. MailTypes /\ AgentTypes /\ InHand(a) /\ request[a] \in Requests
  BY AgentParts
<1>1. inv \in Agents /\ request[a].left = 0 /\ who \subseteq Holders /\ inv \notin who
  <2>1. inv # None /\ request[a].left = 0
    BY <1>0, <1>m, InHandParts DEF RequestInHand, Managing
  <2>. QED
    BY <1>m, <2>1, HandlerType, InvaderIsNotAsked DEF Requests
<1>2. /\ list \in Seq(Posts) /\ left \in Nat
      /\ \A i \in DOMAIN list : list[i].msg.kind = "MAKE_OFFER"
      /\ \A b : Matching(list, Due(b)) = IF b = a THEN left ELSE 0
      /\ \A x : x # inv => Matching(list, ForInvader(x)) = 0
      /\ Matching(list, Misled) = 0
  <2>. DEFINE region == request[a].region
  <2>1. region \in RegionsHere
    BY <1>m DEF Requests
  <2>. HIDE DEF inv, who, region
  <2>2. list = Questions(a, who, region, inv) /\ left = Cardinality(who)
    BY DEF region
  <2>. HIDE DEF list, left
  <2>. QED
    BY <1>1, <2>1, <2>2, QuestionsCount
<1>. HIDE DEF list, left, who
<1>3. /\ request'[a].invader = inv /\ request'[a].left = left
      /\ request'[a].response = request[a].response
      /\ \A b \in Holders \ {a} : request'[b] = request[b]
  BY <1>0, <1>m DEF AgentTypes, Requests
<1>4. ElsewhereSame(a) /\ pc'[a] = "offers" /\ \A b \in Holders \ {a} : pc'[b] = pc[b]
  BY <1>0, <1>m, <1>3 DEF ElsewhereSame, AgentTypes
<1>5. Kept(Claims) /\ OrderInv'
  <2>1. \A i \in DOMAIN list : list[i].msg.kind \notin Claims
    BY <1>2 DEF Claims
  <2>. QED
    BY <1>0, <1>m, <1>2, <2>1, FillKeeps DEF CoreInv, OrderInv
<1>6. ASSUME NEW P
      PROVE  UnderWay(P) \in Nat /\ UnderWay(P)' = UnderWay(P) + Matching(list, P)
  BY <1>0, <1>m, <1>2, FillStep, UnderWayType
<1>7. DueInv'
  <2>1. ASSUME NEW b \in Holders
        PROVE  UnderWay(Due(b))' + (IF request'[a].invader = b THEN 1 ELSE 0)
                  + (IF b = a THEN plan[a].awaited + request[a].left ELSE 0)
               = UnderWay(Due(b)) + (IF request[a].invader = b THEN 1 ELSE 0)
                  + (IF b = a THEN plan'[a].awaited + request'[a].left ELSE 0)
    <3>1. /\ UnderWay(Due(b)) \in Nat
          /\ UnderWay(Due(b))' = UnderWay(Due(b)) + (IF b = a THEN left ELSE 0)
      BY <1>2, <1>6
    <3>2. /\ request'[a].invader = request[a].invader /\ plan'[a].awaited = plan[a].awaited
          /\ request[a].left = 0 /\ request'[a].left = left /\ plan[a].awaited \in Nat
      BY <1>0, <1>1, <1>3, InHandAreNumbers
    <3>. QED
      BY <1>2, <3>1, <3>2
  <2>. QED
    BY <1>4, <2>1, DueChanges DEF CoreInv
<1>8. InvaderInv'
  <2>1. ASSUME NEW x \in Agents, UnderWay(ForInvader(x)) = 0, inv # x
        PROVE  UnderWay(ForInvader(x))' = 0
    BY <1>2, <1>6, <2>1
  <2>. QED
    BY <1>0, <1>3, <1>4, <2>1, InvadersChange DEF CoreInv
<1>9. (UnderWay(Misled) = 0)'
  BY <1>2, <1>6 DEF CoreInv
<1>10. Active(a)' => Active(a)
  BY <1>0, <1>4, StaysPassive
<1>. QED
  BY <1>0, <1>3, <1>4, <1>5, <1>7, <1>8, <1>9, <1>10, RequestStep

LEMMA ForwardIsSafe ==
    ASSUME EInv, EInv', CoreInv, NEW a \in Holders, Forward(a)
    PROVE  CoreInv' /\ SameHolders
<1>. DEFINE inv == request[a].invader
            place == IF plan[a].core # None THEN "next" ELSE "loop"
            s == [to |-> Handler(a),
                  msg |-> [kind |-> "FORWARD", from |-> a, region |-> request[a].region,
                           invader |-> inv, neighbors |-> Asked(a)]]
<1>0. /\ pc[a] = "cores" /\ out[a] = <<>>
      /\ queue' = With(queue, s)
      /\ request' = [request EXCEPT ![a] = NoRequest]
      /\ pc' = [pc EXCEPT ![a] = place]
      /\ UNCHANGED <<out, owned, reserved, plan>>
  BY DEF Forward, At, Goto
<1>m. MailTypes /\ AgentTypes /\ InHand(a) /\ request[a] \in Requests
  BY AgentParts
<1>1. /\ inv \in Agents /\ request[a].left = 0 /\ request[a].response = <<>>
      /\ Handler(a) \in Mailboxes /\ Asked(a) \subseteq Holders /\ inv \notin Asked(a)
      /\ request[a].region \in RegionsHere
  <2>1. inv # None /\ request[a].left = 0 /\ request[a].response = <<>>
    BY <1>0, <1>m, InHandParts DEF RequestInHand, Managing
  <2>. QED
    BY <1>m, <2>1, HandlerType, MailboxesAreFinite, InvaderIsNotAsked DEF Requests
<1>2. /\ s \in Posts /\ s.to \in Mailboxes /\ s.msg \in Messages
      /\ s.msg.kind = "FORWARD" /\ s.msg.invader = inv /\ s.msg.invader \notin s.msg.neighbors
  BY <1>1 DEF Posts, Messages
<1>3. place \in {"next", "loop"}
  OBVIOUS
<1>. HIDE DEF s, place
<1>4. /\ request'[a].invader = None /\ request'[a].left = 0
      /\ request'[a].response = request[a].response
      /\ \A b \in Holders \ {a} : request'[b] = request[b]
  <2>1. request'[a] = NoRequest /\ \A b \in Holders \ {a} : request'[b] = request[b]
    BY <1>0, <1>m DEF AgentTypes
  <2>. QED
    BY <1>1, <2>1 DEF NoRequest, Handling
<1>5. ElsewhereSame(a) /\ pc'[a] = place /\ \A b \in Holders \ {a} : pc'[b] = pc[b]
  BY <1>0, <1>m, <1>4 DEF ElsewhereSame, AgentTypes
<1>6. Kept(Claims) /\ OrderInv'
  <2>1. s.msg.kind \notin Claims /\ ~ IsAnswer(s.msg)
    BY <1>2 DEF Claims, IsAnswer
  <2>. QED
    BY <1>0, <1>m, <1>2, <2>1, SendKeeps, OrderSend DEF CoreInv
<1>7. ASSUME NEW P
      PROVE  UnderWay(P) \in Nat /\ UnderWay(P)' = UnderWay(P) + Unit(<<s.to, s.msg>>, P)
  BY <1>0, <1>m, <1>2, SendStep, UnderWayType
<1>8. ASSUME NEW b PROVE Unit(<<s.to, s.msg>>, Due(b)) = IF inv = b THEN 1 ELSE 0
  BY <1>2, DuePairs, UnitIs
<1>9. DueInv'
  <2>1. ASSUME NEW b \in Holders
        PROVE  UnderWay(Due(b))' + (IF request'[a].invader = b THEN 1 ELSE 0)
                  + (IF b = a THEN plan[a].awaited + request[a].left ELSE 0)
               = UnderWay(Due(b)) + (IF request[a].invader = b THEN 1 ELSE 0)
                  + (IF b = a THEN plan'[a].awaited + request'[a].left ELSE 0)
    <3>1. /\ UnderWay(Due(b)) \in Nat
          /\ UnderWay(Due(b))' = UnderWay(Due(b)) + (IF request[a].invader = b THEN 1 ELSE 0)
      BY <1>7, <1>8
    <3>2. /\ request'[a].invader # b /\ plan'[a].awaited = plan[a].awaited
          /\ request[a].left = 0 /\ request'[a].left = 0 /\ plan[a].awaited \in Nat
      BY <1>0, <1>1, <1>4, NoneIsNobody, InHandAreNumbers
    <3>. QED
      BY <3>1, <3>2
  <2>. QED
    BY <1>5, <2>1, DueChanges DEF CoreInv
<1>10. InvaderInv'
  <2>1. ASSUME NEW x \in Agents, UnderWay(ForInvader(x)) = 0, inv # x
        PROVE  UnderWay(ForInvader(x))' = 0 /\ None # x
    <3>1. <<s.to, s.msg>> \notin ForInvader(x)
      BY <1>2, <2>1, DuePairs
    <3>. QED
      BY <1>7, <2>1, <3>1, UnitIs, Threads
  <2>. QED
    BY <1>0, <1>4, <1>5, <2>1, InvadersChange DEF CoreInv
<1>11. (UnderWay(Misled) = 0)'
  <2>1. <<s.to, s.msg>> \notin Misled
    BY <1>2, DuePairs
  <2>. QED
    BY <1>7, <2>1, UnitIs DEF CoreInv
<1>12. Active(a)' => Active(a)
  BY <1>0, <1>3, <1>5, StaysPassive
<1>13. pc'[a] # "electing"
  BY <1>3, <1>5
<1>. QED
  BY <1>0, <1>4, <1>5, <1>6, <1>9, <1>10, <1>11, <1>12, <1>13, RequestStep

LEMMA ForwardedIsSafe ==
    ASSUME EInv, EInv', CoreInv, NEW a \in Holders, Forwarded(a)
    PROVE  CoreInv' /\ SameHolders
<1>. DEFINE m == Message(a)
            left == Cardinality(m.neighbors)
            list == Questions(a, m.neighbors, m.region, m.invader)
<1>0. /\ CanTake(a) /\ pc[a] = "loop" /\ m.kind = "FORWARD" /\ queue' = Taken(a)
      /\ Sends(a, list)
      /\ request' = [request EXCEPT ![a] = Handling(m.region, m.invader, left)]
      /\ pc' = [pc EXCEPT ![a] = "offers"]
      /\ UNCHANGED <<owned, reserved, plan>>
  BY AskIsQuestions DEF Forwarded, Takes, Goto
<1>m. MailTypes /\ AgentTypes /\ InHand(a)
  BY AgentParts
<1>1. /\ m \in Messages /\ m.neighbors \subseteq Holders /\ m.region \in RegionsHere
      /\ m.invader \in Agents /\ a \in Mailboxes
  BY <1>0, <1>m, MessageType, MessageParts, MailboxesAreFinite
<1>2. <<a, m>> \notin Misled
  BY <1>0, <1>m, NotMisled DEF CoreInv
<1>. HIDE DEF m
<1>3. m.invader \notin m.neighbors
  BY <1>0, <1>1, <1>2, DuePairs
<1>4. /\ list \in Seq(Posts) /\ left \in Nat
      /\ \A i \in DOMAIN list : list[i].msg.kind = "MAKE_OFFER"
      /\ \A b : Matching(list, Due(b)) = IF b = a THEN left ELSE 0
      /\ \A x : x # m.invader => Matching(list, ForInvader(x)) = 0
      /\ Matching(list, Misled) = 0
  <2>. DEFINE who == m.neighbors region == m.region inv == m.invader
  <2>0. who \subseteq Holders /\ region \in RegionsHere /\ inv \in Agents /\ inv \notin who
    BY <1>1, <1>3
  <2>. HIDE DEF who, region, inv
  <2>1. list = Questions(a, who, region, inv) /\ left = Cardinality(who)
    BY DEF who, region, inv
  <2>. HIDE DEF list, left
  <2>. QED
    BY <2>0, <2>1, QuestionsCount DEF who, inv
<1>. HIDE DEF list, left
<1>5. /\ request[a].invader = None /\ request[a].left = 0 /\ request[a].response = <<>>
      /\ request'[a].invader = m.invader /\ request'[a].left = left
      /\ request'[a].response = <<>>
  <2>1. request[a] = NoRequest
    BY <1>0, <1>m, InHandParts DEF RequestInHand, Managing
  <2>2. request'[a] = Handling(m.region, m.invader, left)
    BY <1>0, <1>m DEF AgentTypes
  <2>. QED
    BY <2>1, <2>2 DEF NoRequest, Handling
<1>6. ElsewhereSame(a) /\ pc'[a] = "offers" /\ \A b \in Holders \ {a} : pc'[b] = pc[b]
  BY <1>0, <1>m DEF ElsewhereSame, AgentTypes
<1>7. Kept(Claims) /\ OrderInv'
  <2>1. m.kind \notin Claims /\ \A i \in DOMAIN list : list[i].msg.kind \notin Claims
    BY <1>0, <1>4 DEF Claims
  <2>. QED
    BY <1>0, <1>m, <1>4, <2>1, ReceiveAndFillKeeps, OrderReceive DEF CoreInv, m
<1>8. ASSUME NEW P
      PROVE  /\ UnderWay(P) \in Nat
             /\ UnderWay(P)' = UnderWay(P) - Unit(<<a, m>>, P) + Matching(list, P)
  BY <1>0, <1>m, <1>4, ReceiveAndFillStep, UnderWayType DEF m
<1>9. ASSUME NEW b PROVE Unit(<<a, m>>, Due(b)) = IF m.invader = b THEN 1 ELSE 0
  BY <1>0, <1>1, DuePairs, UnitIs
<1>10. DueInv'
  <2>1. ASSUME NEW b \in Holders
        PROVE  UnderWay(Due(b))' + (IF request'[a].invader = b THEN 1 ELSE 0)
                  + (IF b = a THEN plan[a].awaited + request[a].left ELSE 0)
               = UnderWay(Due(b)) + (IF request[a].invader = b THEN 1 ELSE 0)
                  + (IF b = a THEN plan'[a].awaited + request'[a].left ELSE 0)
    <3>1. /\ UnderWay(Due(b)) \in Nat
          /\ UnderWay(Due(b))' = UnderWay(Due(b)) - (IF m.invader = b THEN 1 ELSE 0)
                                    + (IF b = a THEN left ELSE 0)
      BY <1>4, <1>8, <1>9
    <3>2. /\ request[a].invader # b
          /\ request'[a].invader = m.invader /\ plan'[a].awaited = plan[a].awaited
          /\ request[a].left = 0 /\ request'[a].left = left /\ plan[a].awaited \in Nat
      BY <1>0, <1>5, NoneIsNobody, InHandAreNumbers
    <3>. QED
      BY <1>4, <3>1, <3>2
  <2>. QED
    BY <1>6, <2>1, DueChanges DEF CoreInv
<1>11. InvaderInv'
  <2>1. ASSUME NEW x \in Agents, UnderWay(ForInvader(x)) = 0
        PROVE  UnderWay(ForInvader(x))' = 0 /\ m.invader # x
    <3>1. <<a, m>> \notin ForInvader(x)
      BY <1>0, <1>m, <2>1, NotMisled DEF m
    <3>2. Unit(<<a, m>>, ForInvader(x)) = 0
      BY <3>1, UnitIs
    <3>3. m.invader # x
      BY <1>0, <1>1, <3>1, DuePairs
    <3>. QED
      BY <1>4, <1>8, <2>1, <3>2, <3>3
  <2>. QED
    BY <1>0, <1>5, <1>6, <2>1, InvadersChange DEF CoreInv
<1>12. (UnderWay(Misled) = 0)'
  BY <1>2, <1>4, <1>8, UnitIs DEF CoreInv
<1>13. Active(a)' => Active(a)
  BY <1>0, <1>6, StaysPassive
<1>. QED
  BY <1>0, <1>5, <1>6, <1>7, <1>10, <1>11, <1>12, <1>13, RequestStep

(* The invader manages a request of its own.                               *)
LEMMA OwnRequestIsSafe ==
    ASSUME EInv, EInv', CoreInv, NEW a \in Agents, Kept(Business), OrderInv',
           pc[a] \notin Managing, plan[a].todo # <<>>, plan[a].core # None,
           NEW region, Begin(a, region, a), plan' = Popped(a), UNCHANGED <<owned, reserved>>
    PROVE  CoreInv' /\ SameHolders
<1>h. a \in Holders
  BY Threads
<1>m. MailTypes /\ AgentTypes /\ InHand(a) /\ plan[a] \in Plans
  BY <1>h, AgentParts
<1>k. Kept(Dealings) /\ Kept(Claims)
  BY FewerKinds DEF Business, Dealings, Claims
<1>0. /\ request' = [request EXCEPT ![a] = Handling(region, a, 0)]
      /\ pc' = [pc EXCEPT ![a] = "cores"]
  BY BeginIsHandling
<1>1. /\ plan'[a].core = plan[a].core /\ plan'[a].awaited = plan[a].awaited + 1
      /\ plan'[a].offers = plan[a].offers
      /\ \A b \in Holders \ {a} : plan'[b] = plan[b]
  <2>1. plan'[a] = Shortened(a) /\ \A b \in Holders \ {a} : plan'[b] = plan[b]
    BY <1>h, <1>m, PoppedIsShortened DEF AgentTypes
  <2>. QED
    BY <1>h, <1>m, <2>1, PoppedIsShortened
<1>2. /\ request[a].invader = None /\ request[a].left = 0 /\ request[a].response = <<>>
      /\ request'[a].invader = a /\ request'[a].left = 0 /\ request'[a].response = <<>>
      /\ \A b \in Holders \ {a} : request'[b] = request[b]
  <2>1. request[a] = NoRequest
    BY <1>m, InHandParts DEF RequestInHand
  <2>2. /\ request'[a] = Handling(region, a, 0)
        /\ \A b \in Holders \ {a} : request'[b] = request[b]
    BY <1>0, <1>h, <1>m DEF AgentTypes
  <2>. QED
    BY <2>1, <2>2 DEF NoRequest, Handling
<1>3. ElsewhereSame(a) /\ pc'[a] = "cores" /\ \A b \in Holders \ {a} : pc'[b] = pc[b]
  BY <1>0, <1>1, <1>2, <1>h, <1>m DEF ElsewhereSame, AgentTypes
<1>4. DueInv'
  <2>1. ASSUME NEW b \in Holders
        PROVE  UnderWay(Due(b))' + (IF request'[a].invader = b THEN 1 ELSE 0)
                  + (IF b = a THEN plan[a].awaited + request[a].left ELSE 0)
               = UnderWay(Due(b)) + (IF request[a].invader = b THEN 1 ELSE 0)
                  + (IF b = a THEN plan'[a].awaited + request'[a].left ELSE 0)
    <3>1. UnderWay(Due(b)) \in Nat /\ UnderWay(Due(b))' = UnderWay(Due(b))
      <4>1. \A p \in Due(b) : p[2].kind \in Dealings
        BY DEF Due, Dealings
      <4>. QED
        BY <1>k, <1>m, <4>1, UnderWayType DEF Kept
    <3>2. /\ request[a].invader # b
          /\ request'[a].invader = a /\ plan'[a].awaited = plan[a].awaited + 1
          /\ request[a].left = 0 /\ request'[a].left = 0 /\ plan[a].awaited \in Nat
      BY <1>h, <1>1, <1>2, NoneIsNobody, InHandAreNumbers
    <3>. QED
      BY <3>1, <3>2
  <2>. QED
    BY <1>h, <1>3, <2>1, DueChanges DEF CoreInv
<1>5. InvaderInv'
  <2>1. ASSUME NEW x \in Agents, UnderWay(ForInvader(x)) = 0
        PROVE  UnderWay(ForInvader(x))' = 0
    <3>1. \A p \in ForInvader(x) : p[2].kind \in Dealings
      BY DEF ForInvader, Dealings
    <3>. QED
      BY <1>k, <2>1, <3>1 DEF Kept
  <2>2. \A x \in Agents : plan'[x].core = None => plan[x].core = None /\ x # a
    BY <1>1, Threads
  <2>. QED
    BY <1>h, <1>2, <1>3, <2>1, <2>2, InvadersChange DEF CoreInv
<1>6. (UnderWay(Misled) = 0)'
  BY MisledStays DEF CoreInv
<1>7. Active(a)' => Active(a)
  BY <1>1, <1>3, StaysPassive
<1>. QED
  BY <1>h, <1>k, <1>1, <1>2, <1>3, <1>4, <1>5, <1>6, <1>7, RequestStep

LEMMA ManageOwnIsSafe ==
    ASSUME EInv, EInv', CoreInv, NEW a \in Agents, ManageOwn(a)
    PROVE  CoreInv' /\ SameHolders
<1>h. a \in Holders
  BY Threads
<1>m. MailTypes /\ InHand(a)
  BY <1>h, AgentParts
<1>0. /\ pc[a] = "next" /\ plan[a].todo # <<>> /\ Begin(a, Piece(a).region, a)
      /\ plan' = Popped(a) /\ UNCHANGED <<queue, out, owned, reserved>>
  BY DEF ManageOwn, At
<1>1. pc[a] \notin Managing /\ plan[a].core # None
  BY <1>0, <1>m, InHandParts DEF PlanInHand, Planning, Managing
<1>2. Kept(Business) /\ OrderInv'
  BY <1>0, <1>m, NoMailKeepsAll DEF CoreInv, OrderInv
<1>. QED
  BY <1>0, <1>1, <1>2, OwnRequestIsSafe

LEMMA CenterLocatedIsSafe ==
    ASSUME EInv, EInv', CoreInv, NEW a \in Agents, CenterLocated(a)
    PROVE  CoreInv' /\ SameHolders
<1>h. a \in Holders
  BY Threads
<1>m. MailTypes /\ AgentTypes /\ InHand(a) /\ plan[a] \in Plans
  BY <1>h, AgentParts
<1>0. /\ CanTake(a) /\ pc[a] = "center" /\ Message(a).kind = "INFO"
      /\ UNCHANGED <<out, owned, reserved>>
  BY DEF CenterLocated, Takes
<1>1. /\ plan[a].todo # <<>> /\ plan[a].core # None
      /\ pc[a] \notin Managing
  BY <1>0, <1>m, InHandParts DEF PlanInHand, Planning, Piece, Managing
<1>2. Message(a).kind \notin Business
  BY <1>0 DEF Business
<1>3. CASE Message(a).agent = a
  <2>1. Begin(a, Piece(a).region, a) /\ plan' = Popped(a) /\ queue' = Taken(a)
    BY <1>3 DEF CenterLocated
  <2>2. Kept(Business) /\ OrderInv'
    BY <1>h, <1>0, <1>m, <1>2, <2>1, ReceiveKeeps, OrderReceive DEF CoreInv
  <2>. QED
    BY <1>0, <1>1, <2>1, <2>2, OwnRequestIsSafe
<1>4. CASE Message(a).agent # a
  <2>0. PICK center \in CenterRead(a) : queue' = With(Taken(a), Locate(a, center))
    BY <1>4 DEF CenterLocated
  <2>c. center \in Cores
    BY <1>h, <1>m, <1>1, <2>0, CenterReadType
  <2>. DEFINE s == Locate(a, center)
  <2>1. pc' = [pc EXCEPT ![a] = "center again"] /\ queue' = With(Taken(a), s)
        /\ UNCHANGED <<plan, request>>
    BY <1>4, <2>0 DEF CenterLocated, Goto
  <2>2. s \in Posts /\ s.msg.kind = "LOCATE"
    BY <2>c, <1>h, PostsMade DEF Locate
  <2>. HIDE DEF s
  <2>3. MailTypes' /\ Kept(Business) /\ OrderInv'
    <3>1. s.msg.kind \notin Business /\ ~ IsAnswer(s.msg)
      BY <2>2 DEF Business, IsAnswer
    <3>. QED
      BY <1>h, <1>0, <1>m, <1>2, <2>1, <2>2, <3>1, AnswerKeeps, OrderAnswer DEF CoreInv
  <2>4. pc'[a] = "center again" /\ \A b \in Holders \ {a} : pc'[b] = pc[b]
    BY <1>h, <1>m, <2>1 DEF AgentTypes
  <2>5. Active(a)' => Active(a)
    BY <2>1, <2>4, StaysPassive
  <2>. QED
    BY <1>h, <1>0, <2>1, <2>3, <2>4, <2>5, IdleAgentStep
<1>. QED
  BY <1>3, <1>4

LEMMA SendRequestIsSafe ==
    ASSUME EInv, EInv', CoreInv, NEW a \in Agents, SendRequest(a)
    PROVE  CoreInv' /\ SameHolders
<1>h. a \in Holders /\ a \in Mailboxes
  BY Threads, MailboxesAreFinite
<1>m. MailTypes /\ AgentTypes /\ InHand(a) /\ plan[a] \in Plans
  BY <1>h, AgentParts
<1>. DEFINE m == Message(a)
            s == [to |-> m.agent,
                  msg |-> [kind |-> "REQUEST", from |-> a, region |-> Piece(a).region]]
<1>0. /\ CanTake(a) /\ pc[a] = "center again" /\ m.kind = "INFO" /\ m.agent # Null
      /\ queue' = With(Taken(a), s) /\ pc' = [pc EXCEPT ![a] = "next"]
      /\ plan' = Popped(a)
      /\ UNCHANGED <<out, owned, reserved, request>>
  BY DEF SendRequest, Takes, Goto
<1>1. plan[a].todo # <<>> /\ plan[a].core # None /\ request[a] = NoRequest
  BY <1>0, <1>m, InHandParts DEF PlanInHand, Planning, RequestInHand, Managing
<1>2. /\ plan'[a].core = plan[a].core /\ plan'[a].awaited = plan[a].awaited + 1
      /\ plan'[a].offers = plan[a].offers
      /\ \A b \in Holders \ {a} : plan'[b] = plan[b]
  <2>1. plan'[a] = Shortened(a) /\ \A b \in Holders \ {a} : plan'[b] = plan[b]
    BY <1>0, <1>1, <1>h, <1>m, PoppedIsShortened DEF AgentTypes
  <2>. QED
    BY <1>1, <1>h, <1>m, <2>1, PoppedIsShortened
<1>3. /\ s \in Posts /\ s.to \in Mailboxes /\ s.msg \in Messages
      /\ s.msg.kind = "REQUEST" /\ s.msg.from = a
  <2>1. m.agent \in Holders
    BY <1>0, <1>h, <1>m, MessageType, MessageParts
  <2>2. m.agent \in Mailboxes
    BY <2>1, MailboxesAreFinite
  <2>3. Piece(a).region \in RegionsHere
    BY <1>1, <1>h, <1>m, PieceType
  <2>. QED
    BY <2>2, <2>3 DEF Posts, Messages
<1>4. m \in Messages
  BY <1>0, <1>h, <1>m, MessageType
<1>. HIDE DEF s, m
<1>5. ElsewhereSame(a) /\ pc'[a] = "next" /\ \A b \in Holders \ {a} : pc'[b] = pc[b]
  BY <1>0, <1>2, <1>h, <1>m DEF ElsewhereSame, AgentTypes
<1>6. Kept(Claims) /\ OrderInv'
  <2>1. s.msg.kind \notin Claims /\ ~ IsAnswer(s.msg) /\ m.kind \notin Claims
    BY <1>0, <1>3 DEF Claims, IsAnswer
  <2>. QED
    BY <1>h, <1>0, <1>m, <1>3, <2>1, AnswerKeeps, OrderAnswer DEF CoreInv, m
<1>7. ASSUME NEW P
      PROVE  /\ UnderWay(P) \in Nat
             /\ UnderWay(P)' = UnderWay(P) - Unit(<<a, m>>, P) + Unit(<<s.to, s.msg>>, P)
  BY <1>h, <1>0, <1>m, <1>3, AnswerStep, UnderWayType DEF m
<1>8. ASSUME NEW b
      PROVE  /\ Unit(<<a, m>>, Due(b)) = 0 /\ Unit(<<s.to, s.msg>>, Due(b)) = IF b = a THEN 1 ELSE 0
             /\ Unit(<<a, m>>, ForInvader(b)) = 0
             /\ b # a => Unit(<<s.to, s.msg>>, ForInvader(b)) = 0
             /\ Unit(<<a, m>>, Misled) = 0 /\ Unit(<<s.to, s.msg>>, Misled) = 0
  <2>1. /\ <<a, m>> \notin Due(b) /\ <<a, m>> \notin ForInvader(b) /\ <<a, m>> \notin Misled
    BY <1>0, <1>4, <1>h, DuePairs
  <2>2. /\ <<s.to, s.msg>> \in Due(b) <=> b = a
        /\ b # a => <<s.to, s.msg>> \notin ForInvader(b)
        /\ <<s.to, s.msg>> \notin Misled
    BY <1>3, DuePairs
  <2>. QED
    BY <2>1, <2>2, UnitIs
<1>9. DueInv'
  <2>1. ASSUME NEW b \in Holders
        PROVE  UnderWay(Due(b))' + (IF request'[a].invader = b THEN 1 ELSE 0)
                  + (IF b = a THEN plan[a].awaited + request[a].left ELSE 0)
               = UnderWay(Due(b)) + (IF request[a].invader = b THEN 1 ELSE 0)
                  + (IF b = a THEN plan'[a].awaited + request'[a].left ELSE 0)
    <3>1. /\ UnderWay(Due(b)) \in Nat
          /\ UnderWay(Due(b))' = UnderWay(Due(b)) + (IF b = a THEN 1 ELSE 0)
      BY <1>7, <1>8
    <3>2. /\ request'[a].invader = request[a].invader /\ request'[a].left = request[a].left
          /\ plan'[a].awaited = plan[a].awaited + 1
          /\ plan[a].awaited \in Nat /\ request[a].left \in Nat
      BY <1>h, <1>0, <1>2, InHandAreNumbers
    <3>. QED
      BY <3>1, <3>2
  <2>. QED
    BY <1>h, <1>5, <2>1, DueChanges DEF CoreInv
<1>10. InvaderInv'
  <2>1. ASSUME NEW x \in Agents, UnderWay(ForInvader(x)) = 0, x # a
        PROVE  UnderWay(ForInvader(x))' = 0
    BY <1>7, <1>8, <2>1
  <2>2. \A x \in Agents : plan'[x].core = None => plan[x].core = None /\ x # a
    BY <1>1, <1>2, Threads
  <2>. QED
    BY <1>h, <1>0, <1>5, <2>1, <2>2, InvadersChange DEF CoreInv
<1>11. (UnderWay(Misled) = 0)'
  BY <1>7, <1>8 DEF CoreInv
<1>12. Active(a)' => Active(a)
  BY <1>2, <1>5, StaysPassive
<1>. QED
  BY <1>h, <1>0, <1>2, <1>5, <1>6, <1>9, <1>10, <1>11, <1>12, RequestStep

-----------------------------------------------------------------------------
(* Offers.                                                                 *)
LEMMA TokensChange ==
    ASSUME EInv, EInv', TokenInv, NEW a \in Holders, ElsewhereSame(a),
           \A c \in Cores, h \in Holders :
              UnderWay(Tokens(c, h))'
                 + (IF Says(request'[a].response, c, h) THEN 1 ELSE 0)
                 + (IF Says(plan'[a].offers, c, h) THEN 1 ELSE 0)
                 + (IF c \in reserved[h] THEN 1 ELSE 0)
              = UnderWay(Tokens(c, h))
                 + (IF Says(request[a].response, c, h) THEN 1 ELSE 0)
                 + (IF Says(plan[a].offers, c, h) THEN 1 ELSE 0)
                 + (IF c \in reserved'[h] THEN 1 ELSE 0)
    PROVE  TokenInv'
<1>m. MailTypes /\ MailTypes'
  BY DEF EInv
<1>1. ASSUME NEW c \in Cores, NEW h \in Holders
      PROVE  UnderWay(Tokens(c, h))' + Cardinality(Responding(c, h)') + Cardinality(Collecting(c, h)')
                = (IF c \in reserved'[h] THEN 1 ELSE 0)
  <2>. DEFINE r == IF Says(request[a].response, c, h) THEN 1 ELSE 0
              rr == IF Says(request'[a].response, c, h) THEN 1 ELSE 0
              o == IF Says(plan[a].offers, c, h) THEN 1 ELSE 0
              oo == IF Says(plan'[a].offers, c, h) THEN 1 ELSE 0
              s == IF c \in reserved[h] THEN 1 ELSE 0
              ss == IF c \in reserved'[h] THEN 1 ELSE 0
  <2>1. UnderWay(Tokens(c, h)) \in Nat /\ UnderWay(Tokens(c, h))' \in Nat
    BY <1>m, UnderWayType, UnderWayTypeNext
  <2>2. /\ Cardinality(Responding(c, h)) \in Nat /\ Cardinality(Responding(c, h)') \in Nat
        /\ Cardinality(Responding(c, h)') = Cardinality(Responding(c, h)) - r + rr
    BY RespondingChange
  <2>3. /\ Cardinality(Collecting(c, h)) \in Nat /\ Cardinality(Collecting(c, h)') \in Nat
        /\ Cardinality(Collecting(c, h)') = Cardinality(Collecting(c, h)) - o + oo
    BY CollectingChange
  <2>4. UnderWay(Tokens(c, h)) + Cardinality(Responding(c, h)) + Cardinality(Collecting(c, h)) = s
    BY DEF TokenInv
  <2>5. UnderWay(Tokens(c, h))' + rr + oo + s = UnderWay(Tokens(c, h)) + r + o + ss
    OBVIOUS
  <2>6. r \in 0 .. 1 /\ rr \in 0 .. 1 /\ o \in 0 .. 1 /\ oo \in 0 .. 1 /\ s \in 0 .. 1 /\ ss \in 0 .. 1
    OBVIOUS
  <2>. HIDE DEF r, rr, o, oo, s, ss
  <2>7. UnderWay(Tokens(c, h))' + Cardinality(Responding(c, h)') + Cardinality(Collecting(c, h)') = ss
    BY <2>1, <2>2, <2>3, <2>4, <2>5, <2>6
  <2>. QED
    BY <2>7 DEF ss
<1>. QED
  BY <1>1 DEF TokenInv

LEMMA TokenPairs ==
    ASSUME NEW c, NEW h, NEW r \in Mailboxes, NEW m \in Messages
    PROVE  /\ <<r, m>> \in Tokens(c, h) <=>
                 \/ m.kind = "OFFER" /\ Says(m.cores, c, h)
                 \/ m.kind \in {"ACCEPT", "REJECT"} /\ m.core = c /\ r = h
           /\ <<r, m>> \in Acceptances(c, h) <=> m.kind = "ACCEPT" /\ m.core = c /\ r = h
           /\ <<r, m>> \in AnswersTo(h) <=> m.kind \in {"ACCEPT", "REJECT"} /\ r = h
BY DEF Tokens, Acceptances, AnswersTo, IsAnswer

LEMMA AcceptancesAreTokens == \A c, h : \A p \in Acceptances(c, h) : p \in Tokens(c, h)
BY DEF Acceptances, Tokens

(* Where one of many is the last one, there is none of fewer.              *)
LEMMA LastOne ==
    ASSUME MailTypes, NEW a \in Holders, CanTake(a), NEW P, NEW Q, \A p \in P : p \in Q,
           <<a, Message(a)>> \in Q, <<a, Message(a)>> \notin P, UnderWay(Q) <= 1
    PROVE  UnderWay(P) = 0
<1>1. /\ Lists(Taken(a), Mailboxes, Messages)
      /\ Count(Taken(a), Q) = Count(queue, Q) - 1
      /\ Count(Taken(a), P) = Count(queue, P)
  <2>1. Unit(<<a, Message(a)>>, Q) = 1 /\ Unit(<<a, Message(a)>>, P) = 0
    BY UnitIs
  <2>2. Count(queue, Q) \in Nat /\ Count(queue, P) \in Nat
    BY UnderWayType
  <2>. QED
    BY <2>1, <2>2, TakenCounts
<1>2. Count(Taken(a), Q) \in Nat /\ Count(queue, Q) \in Nat /\ Count(out, Unposted(Q)) \in Nat
  BY <1>1, PlacesAreFinite, UnderWayType
<1>3. Count(Taken(a), Q) = 0 /\ Count(out, Unposted(Q)) = 0
  BY <1>1, <1>2 DEF UnderWay
<1>4. \A r \in Mailboxes : \A i \in DOMAIN Taken(a)[r] : <<r, Taken(a)[r][i]>> \notin Q
  BY <1>1, <1>3, CountIsZero
<1>5. \A b \in Holders : \A i \in DOMAIN out[b] : <<b, out[b][i]>> \notin Unposted(Q)
  BY <1>3, MailLists, CountIsZero
<1>6. Count(Taken(a), P) = 0
  <2>1. \A r \in Mailboxes : \A i \in DOMAIN Taken(a)[r] : <<r, Taken(a)[r][i]>> \notin P
    BY <1>4
  <2>. QED
    BY <1>1, <2>1, CountIsZero
<1>7. Count(out, Unposted(P)) = 0
  <2>1. \A b \in Holders : \A i \in DOMAIN out[b] : <<b, out[b][i]>> \notin Unposted(P)
    BY <1>5 DEF Unposted
  <2>. QED
    BY <2>1, MailLists, CountIsZero
<1>. QED
  BY <1>1, <1>6, <1>7 DEF UnderWay

(* What is said of a core is so: its holder has put it aside.              *)
HeldBy(h, c) == Has(h, c) /\ c \in reserved[h] /\ c \notin owned[h]

LEMMA ClaimIsHeld ==
    ASSUME MailTypes, TokenInv, ApartInv, NEW c \in Cores, NEW h \in Holders, NEW b \in Holders,
           Says(request[b].response, c, h) \/ Says(plan[b].offers, c, h)
    PROVE  HeldBy(h, c) /\ UnderWay(Tokens(c, h)) = 0
<1>. DEFINE r == Cardinality(Responding(c, h))
            o == Cardinality(Collecting(c, h))
<1>1. r \in Nat /\ o \in Nat /\ (r # 0 \/ o # 0)
  <2>1. Responding(c, h) \subseteq Holders /\ Collecting(c, h) \subseteq Holders
    BY DEF Responding, Collecting
  <2>2. Responding(c, h) # {} \/ Collecting(c, h) # {}
    BY DEF Responding, Collecting
  <2>. QED
    BY <2>1, <2>2, HoldersAreCounted
<1>2. UnderWay(Tokens(c, h)) + r + o = (IF c \in reserved[h] THEN 1 ELSE 0)
  BY DEF TokenInv
<1>3. UnderWay(Tokens(c, h)) \in Nat
  BY UnderWayType
<1>. HIDE DEF r, o
<1>4. c \in reserved[h]
  BY <1>1, <1>2, <1>3
<1>5. UnderWay(Tokens(c, h)) = 0
  BY <1>1, <1>2, <1>3
<1>6. ~ Released(h, c)
  <2>1. UnderWay(Acceptances(c, h)) = 0
    BY <1>5, AcceptancesAreTokens, NoneOfFewer
  <2>. QED
    BY <2>1, ReleasedIsUnderWay
<1>. QED
  BY <1>4, <1>5, <1>6 DEF HeldBy, Has, ApartInv

LEMMA OfferIsHeld ==
    ASSUME MailTypes, TokenInv, ApartInv, NEW a \in Holders, CanTake(a),
           NEW c \in Cores, NEW h \in Holders,
           Message(a).kind = "OFFER", Says(Message(a).cores, c, h)
    PROVE  /\ HeldBy(h, c)
           /\ \A b \in Holders :
                 ~ Says(request[b].response, c, h) /\ ~ Says(plan[b].offers, c, h)
<1>1. /\ <<a, Message(a)>> \in Tokens(c, h) /\ <<a, Message(a)>> \notin Acceptances(c, h)
  <2>1. a \in Mailboxes /\ Message(a) \in Messages
    BY MailboxesAreFinite, MessageType
  <2>. QED
    BY <2>1, TokenPairs
<1>2. UnderWay(Tokens(c, h)) \in Nat /\ UnderWay(Tokens(c, h)) >= 1
  <2>1. Unit(<<a, Message(a)>>, Tokens(c, h)) = 1
    BY <1>1, UnitIs
  <2>2. UnderWay(Tokens(c, h)) \in Nat
           /\ UnderWay(Tokens(c, h)) >= Unit(<<a, Message(a)>>, Tokens(c, h))
    BY MessageIsUnderWay
  <2>. QED
    BY <2>1, <2>2
<1>3. /\ Cardinality(Responding(c, h)) \in Nat /\ Cardinality(Collecting(c, h)) \in Nat
      /\ Cardinality(Responding(c, h)) = 0 <=> Responding(c, h) = {}
      /\ Cardinality(Collecting(c, h)) = 0 <=> Collecting(c, h) = {}
  <2>1. Responding(c, h) \subseteq Holders /\ Collecting(c, h) \subseteq Holders
    BY DEF Responding, Collecting
  <2>. QED
    BY <2>1, HoldersAreCounted
<1>4. UnderWay(Tokens(c, h)) + Cardinality(Responding(c, h)) + Cardinality(Collecting(c, h))
         = (IF c \in reserved[h] THEN 1 ELSE 0)
  BY DEF TokenInv
<1>5. c \in reserved[h]
  BY <1>2, <1>3, <1>4
<1>6. /\ UnderWay(Tokens(c, h)) <= 1
      /\ Cardinality(Responding(c, h)) = 0 /\ Cardinality(Collecting(c, h)) = 0
  BY <1>2, <1>3, <1>4
<1>7. UnderWay(Acceptances(c, h)) = 0
  BY <1>1, <1>6, AcceptancesAreTokens, LastOne
<1>8. ~ Released(h, c)
  BY <1>7, ReleasedIsUnderWay
<1>9. \A b \in Holders : ~ Says(request[b].response, c, h) /\ ~ Says(plan[b].offers, c, h)
  BY <1>3, <1>6 DEF Responding, Collecting
<1>. QED
  BY <1>5, <1>8, <1>9 DEF HeldBy, Has, ApartInv

LEMMA HolderIsUnique ==
    ASSUME HolderInv, NEW c \in Cores, NEW h \in Holders, NEW k \in Holders, Has(h, c), Has(k, c)
    PROVE  h = k
BY DEF HolderInv

(* No core is in two offers.                                               *)
LEMMA OffersAreDisjoint ==
    ASSUME MailTypes, AgentTypes, TokenInv, ApartInv, HolderInv,
           NEW a \in Holders, CanTake(a), Message(a).kind = "OFFER",
           NEW b \in Holders, NEW view \in {request[b].response, plan[b].offers}
    PROVE  DOMAIN view \cap DOMAIN Message(a).cores = {}
<1>1. view \in Offers /\ Message(a).cores \in Offers
  <2>1. request[b].response \in Offers /\ plan[b].offers \in Offers
    BY DEF AgentTypes, Requests, Plans
  <2>2. Message(a).cores \in Offers
    BY MessageType, MessageParts
  <2>. QED
    BY <2>1, <2>2
<1>2. ASSUME NEW c \in DOMAIN view, c \in DOMAIN Message(a).cores PROVE FALSE
  <2>. DEFINE h == view[c]
              k == Message(a).cores[c]
  <2>1. c \in Cores /\ h \in Holders /\ k \in Holders
    BY <1>1, <1>2, OffersAreViews
  <2>2. Says(view, c, h) /\ Says(Message(a).cores, c, k)
    BY <1>2 DEF Says
  <2>. HIDE DEF h, k
  <2>3. Says(request[b].response, c, h) \/ Says(plan[b].offers, c, h)
    BY <2>2
  <2>4. Has(h, c)
    BY <2>1, <2>3, ClaimIsHeld DEF HeldBy
  <2>5. /\ Has(k, c)
        /\ ~ Says(request[b].response, c, k) /\ ~ Says(plan[b].offers, c, k)
    BY <2>1, <2>2, OfferIsHeld DEF HeldBy
  <2>6. h = k
    BY <2>1, <2>4, <2>5, HolderIsUnique
  <2>. QED
    BY <2>3, <2>5, <2>6
<1>. QED
  BY <1>2

LEMMA ConcatSays ==
    ASSUME NEW v \in Offers, NEW w \in Offers, DOMAIN v \cap DOMAIN w = {}, NEW c, NEW h
    PROVE  /\ Says(Concat(v, w), c, h) <=> Says(v, c, h) \/ Says(w, c, h)
           /\ ~ (Says(v, c, h) /\ Says(w, c, h))
BY DEF Says, Concat

LEMMA CollectStep ==
    ASSUME EInv, EInv', CoreInv, NEW a \in Holders, CanTake(a), Message(a).kind = "OFFER",
           queue' = Taken(a), UNCHANGED <<out, pc, owned, reserved>>, ElsewhereSame(a),
           request'[a].invader = request[a].invader, plan'[a].core = plan[a].core,
           plan[a].awaited + request[a].left = plan'[a].awaited + request'[a].left + 1,
           \A c \in Cores, h \in Holders :
              (IF Says(request'[a].response, c, h) THEN 1 ELSE 0)
                 + (IF Says(plan'[a].offers, c, h) THEN 1 ELSE 0)
              = (IF Says(request[a].response, c, h) THEN 1 ELSE 0)
                 + (IF Says(plan[a].offers, c, h) THEN 1 ELSE 0)
                 + (IF Says(Message(a).cores, c, h) THEN 1 ELSE 0)
    PROVE  CoreInv' /\ SameHolders
<1>. DEFINE m == Message(a)
<1>0. MailTypes /\ MailTypes' /\ m \in Messages /\ m.kind = "OFFER" /\ a \in Mailboxes
  BY MessageType, MailboxesAreFinite DEF EInv
<1>k. Kept({"ACCEPT", "REJECT"}) /\ Kept({"ACCEPT"}) /\ OrderInv'
  <2>1. Message(a).kind \notin {"ACCEPT", "REJECT"} /\ Message(a).kind \notin {"ACCEPT"}
    OBVIOUS
  <2>. QED
    BY <1>0, <2>1, ReceiveKeeps, OrderReceive DEF CoreInv
<1>1. ASSUME NEW P
      PROVE  UnderWay(P) \in Nat /\ UnderWay(P)' = UnderWay(P) - Unit(<<a, m>>, P)
  BY <1>0, ReceiveStep, UnderWayType
<1>. HIDE DEF m
<1>2. DueInv'
  <2>1. ASSUME NEW b \in Holders
        PROVE  UnderWay(Due(b))' + (IF request'[a].invader = b THEN 1 ELSE 0)
                  + (IF b = a THEN plan[a].awaited + request[a].left ELSE 0)
               = UnderWay(Due(b)) + (IF request[a].invader = b THEN 1 ELSE 0)
                  + (IF b = a THEN plan'[a].awaited + request'[a].left ELSE 0)
    <3>1. Unit(<<a, m>>, Due(b)) = IF b = a THEN 1 ELSE 0
      BY <1>0, DuePairs, UnitIs
    <3>2. /\ plan[a].awaited \in Nat /\ request[a].left \in Nat
          /\ plan'[a].awaited \in Nat /\ request'[a].left \in Nat
      BY InHandAreNumbers, InHandAreNumbersNext
    <3>. QED
      BY <1>1, <3>1, <3>2
  <2>. QED
    BY <2>1, DueChanges DEF CoreInv
<1>3. InvaderInv'
  <2>1. ASSUME NEW x \in Agents, UnderWay(ForInvader(x)) = 0
        PROVE  UnderWay(ForInvader(x))' = 0
    <3>1. <<a, m>> \notin ForInvader(x)
      BY <1>0, DuePairs
    <3>. QED
      BY <1>1, <2>1, <3>1, UnitIs
  <2>2. \A x \in Agents : plan'[x].core = None => plan[x].core = None
    BY Threads DEF ElsewhereSame
  <2>. QED
    BY <2>1, <2>2, InvadersChange DEF CoreInv
<1>4. (UnderWay(Misled) = 0)'
  <2>1. <<a, m>> \notin Misled
    BY <1>0, DuePairs
  <2>. QED
    BY <1>1, <2>1, UnitIs DEF CoreInv
<1>5. TokenInv'
  <2>1. ASSUME NEW c \in Cores, NEW h \in Holders
        PROVE  UnderWay(Tokens(c, h))'
                 + (IF Says(request'[a].response, c, h) THEN 1 ELSE 0)
                 + (IF Says(plan'[a].offers, c, h) THEN 1 ELSE 0)
                 + (IF c \in reserved[h] THEN 1 ELSE 0)
              = UnderWay(Tokens(c, h))
                 + (IF Says(request[a].response, c, h) THEN 1 ELSE 0)
                 + (IF Says(plan[a].offers, c, h) THEN 1 ELSE 0)
                 + (IF c \in reserved'[h] THEN 1 ELSE 0)
    <3>1. Unit(<<a, m>>, Tokens(c, h)) = IF Says(m.cores, c, h) THEN 1 ELSE 0
      BY <1>0, TokenPairs, UnitIs
    <3>2. /\ UnderWay(Tokens(c, h)) \in Nat
          /\ UnderWay(Tokens(c, h))' = UnderWay(Tokens(c, h))
                                          - (IF Says(m.cores, c, h) THEN 1 ELSE 0)
      BY <1>1, <3>1
    <3>3. (IF Says(request'[a].response, c, h) THEN 1 ELSE 0)
                 + (IF Says(plan'[a].offers, c, h) THEN 1 ELSE 0)
              = (IF Says(request[a].response, c, h) THEN 1 ELSE 0)
                 + (IF Says(plan[a].offers, c, h) THEN 1 ELSE 0)
                 + (IF Says(m.cores, c, h) THEN 1 ELSE 0)
      BY DEF m
    <3>. QED
      BY <3>2, <3>3
  <2>. QED
    BY <2>1, TokensChange DEF CoreInv
<1>6. SameHolders /\ HolderInv' /\ ApartInv'
  BY <1>0, <1>k, PossessionsStay, HoldersStay, ApartStays DEF CoreInv
<1>7. ReadyInv' /\ FreeInv'
  <2>1. Electing' = Electing
    BY DEF Electing
  <2>2. \A b \in Agents : Active(b)' => Active(b)
    BY Threads DEF Active, ElsewhereSame
  <2>3. FreeInv'
    BY <2>2 DEF CoreInv, FreeInv
  <2>. QED
    BY <1>k, <2>1, <2>3, ReadyStays DEF CoreInv
<1>. QED
  BY <1>k, <1>2, <1>3, <1>4, <1>5, <1>6, <1>7 DEF CoreInv

LEMMA CollectOfferIsSafe ==
    ASSUME EInv, EInv', CoreInv, NEW a \in Holders, CollectOffer(a)
    PROVE  CoreInv' /\ SameHolders
<1>. DEFINE view == request[a].response
            cores == Message(a).cores
<1>m. MailTypes /\ AgentTypes /\ request[a] \in Requests
  BY AgentParts
<1>0. /\ CanTake(a) /\ Message(a).kind = "OFFER" /\ queue' = Taken(a) /\ request[a].left > 0
      /\ request' = [request EXCEPT ![a].left = @ - 1, ![a].response = Concat(view, cores)]
      /\ UNCHANGED <<out, pc, owned, reserved, plan>>
  BY DEF CollectOffer, Takes
<1>1. /\ request'[a].left = request[a].left - 1 /\ request'[a].response = Concat(view, cores)
      /\ request'[a].invader = request[a].invader
      /\ \A b \in Holders \ {a} : request'[b] = request[b]
  BY <1>0, <1>m DEF AgentTypes, Requests
<1>2. ElsewhereSame(a)
  BY <1>0, <1>1 DEF ElsewhereSame
<1>3. view \in Offers /\ cores \in Offers
  BY <1>0, <1>m, MessageType, MessageParts DEF Requests
<1>4. DOMAIN view \cap DOMAIN cores = {}
  BY <1>0, <1>m, OffersAreDisjoint DEF CoreInv
<1>5. plan[a].awaited + request[a].left = plan'[a].awaited + request'[a].left + 1
  <2>1. /\ plan[a].awaited \in Nat /\ request[a].left \in Nat /\ plan'[a].awaited = plan[a].awaited
    BY <1>0, InHandAreNumbers
  <2>. QED
    BY <1>1, <2>1
<1>. HIDE DEF view, cores
<1>6. ASSUME NEW c \in Cores, NEW h \in Holders
      PROVE  (IF Says(request'[a].response, c, h) THEN 1 ELSE 0)
                 + (IF Says(plan'[a].offers, c, h) THEN 1 ELSE 0)
              = (IF Says(view, c, h) THEN 1 ELSE 0)
                 + (IF Says(plan[a].offers, c, h) THEN 1 ELSE 0)
                 + (IF Says(cores, c, h) THEN 1 ELSE 0)
  <2>1. /\ Says(request'[a].response, c, h) <=> Says(view, c, h) \/ Says(cores, c, h)
        /\ ~ (Says(view, c, h) /\ Says(cores, c, h))
    BY <1>1, <1>3, <1>4, ConcatSays
  <2>2. Says(plan'[a].offers, c, h) <=> Says(plan[a].offers, c, h)
    BY <1>0
  <2>. QED
    BY <2>1, <2>2
<1>. QED
  BY <1>0, <1>1, <1>2, <1>5, <1>6, CollectStep DEF view, cores

LEMMA CollectResponseIsSafe ==
    ASSUME EInv, EInv', CoreInv, NEW a \in Agents, CollectResponse(a)
    PROVE  CoreInv' /\ SameHolders
<1>. DEFINE view == plan[a].offers
            cores == Message(a).cores
<1>h. a \in Holders
  BY Threads
<1>m. MailTypes /\ AgentTypes /\ plan[a] \in Plans
  BY <1>h, AgentParts
<1>0. /\ CanTake(a) /\ Message(a).kind = "OFFER" /\ queue' = Taken(a) /\ plan[a].awaited > 0
      /\ plan' = [plan EXCEPT ![a].awaited = @ - 1, ![a].offers = Concat(view, cores)]
      /\ UNCHANGED <<out, pc, owned, reserved, request>>
  BY DEF CollectResponse, Takes
<1>1. /\ plan'[a].awaited = plan[a].awaited - 1 /\ plan'[a].offers = Concat(view, cores)
      /\ plan'[a].core = plan[a].core
      /\ \A b \in Holders \ {a} : plan'[b] = plan[b]
  BY <1>0, <1>h, <1>m DEF AgentTypes, Plans
<1>2. ElsewhereSame(a)
  BY <1>0, <1>1 DEF ElsewhereSame
<1>3. view \in Offers /\ cores \in Offers
  BY <1>0, <1>h, <1>m, MessageType, MessageParts DEF Plans
<1>4. DOMAIN view \cap DOMAIN cores = {}
  BY <1>0, <1>h, <1>m, OffersAreDisjoint DEF CoreInv
<1>5. plan[a].awaited + request[a].left = plan'[a].awaited + request'[a].left + 1
  <2>1. plan[a].awaited \in Nat /\ request[a].left \in Nat /\ request'[a].left = request[a].left
    BY <1>h, <1>0, InHandAreNumbers
  <2>. QED
    BY <1>1, <2>1
<1>. HIDE DEF view, cores
<1>6. ASSUME NEW c \in Cores, NEW h \in Holders
      PROVE  (IF Says(request'[a].response, c, h) THEN 1 ELSE 0)
                 + (IF Says(plan'[a].offers, c, h) THEN 1 ELSE 0)
              = (IF Says(request[a].response, c, h) THEN 1 ELSE 0)
                 + (IF Says(view, c, h) THEN 1 ELSE 0)
                 + (IF Says(cores, c, h) THEN 1 ELSE 0)
  <2>1. /\ Says(plan'[a].offers, c, h) <=> Says(view, c, h) \/ Says(cores, c, h)
        /\ ~ (Says(view, c, h) /\ Says(cores, c, h))
    BY <1>1, <1>3, <1>4, ConcatSays
  <2>2. Says(request'[a].response, c, h) <=> Says(request[a].response, c, h)
    BY <1>0
  <2>. QED
    BY <2>1, <2>2
<1>. QED
  BY <1>h, <1>0, <1>1, <1>2, <1>5, <1>6, CollectStep DEF view, cores

(* Putting cores aside leaves them with their holder.                      *)
LEMMA ReserveStep ==
    ASSUME EInv, EInv', CoreInv, NEW a \in Holders, NEW cores, cores \subseteq owned[a],
           Reserve(a, cores), Kept({"ACCEPT"})
    PROVE  /\ SameHolders /\ HolderInv' /\ ApartInv'
           /\ \A h \in Holders : h # a => reserved'[h] = reserved[h]
           /\ \A c \in Cores, h \in Holders :
                 c \in reserved'[h] <=> c \in reserved[h] \/ (h = a /\ c \in cores)
           /\ \A c \in cores : c \notin reserved[a]
<1>m. MailTypes /\ MailTypes' /\ AgentTypes /\ TokenInv /\ ApartInv /\ HolderInv
  BY DEF EInv, CoreInv
<1>0. /\ owned'[a] = owned[a] \ cores /\ reserved'[a] = reserved[a] \union cores
      /\ \A h \in Holders : h # a => owned'[h] = owned[h] /\ reserved'[h] = reserved[h]
  BY <1>m DEF Reserve, AgentTypes
<1>1. \A h \in Holders, c \in Cores : Released(h, c)' <=> Released(h, c)
  BY <1>m, ReleasesStay
<1>2. \A c \in cores : c \in Cores /\ c \notin reserved[a]
  BY <1>m DEF ApartInv, AgentTypes
<1>3. ASSUME NEW c \in cores PROVE ~ Released(a, c)
  <2>1. UnderWay(Tokens(c, a)) = 0
    <3>1. UnderWay(Tokens(c, a)) + Cardinality(Responding(c, a)) + Cardinality(Collecting(c, a))
             = (IF c \in reserved[a] THEN 1 ELSE 0)
      BY <1>2, <1>m DEF TokenInv
    <3>2. UnderWay(Tokens(c, a)) \in Nat
      BY <1>m, UnderWayType
    <3>3. Cardinality(Responding(c, a)) \in Nat /\ Cardinality(Collecting(c, a)) \in Nat
      <4>1. Responding(c, a) \subseteq Holders /\ Collecting(c, a) \subseteq Holders
        BY DEF Responding, Collecting
      <4>. QED
        BY <4>1, HoldersAreCounted
    <3>. QED
      BY <1>2, <3>1, <3>2, <3>3
  <2>2. UnderWay(Acceptances(c, a)) = 0
    BY <1>m, <2>1, AcceptancesAreTokens, NoneOfFewer
  <2>. QED
    BY <1>m, <1>2, <2>2, ReleasedIsUnderWay
<1>4. SameHolders
  <2>1. ASSUME NEW h \in Holders, NEW c \in Cores PROVE Has(h, c)' <=> Has(h, c)
    <3>1. CASE h # a
      BY <1>0, <1>1, <3>1 DEF Has
    <3>2. CASE h = a /\ c \in cores
      <4>1. Has(h, c)
        BY <3>2 DEF Has
      <4>2. Has(h, c)'
        BY <1>0, <1>1, <1>3, <3>2 DEF Has
      <4>. QED
        BY <4>1, <4>2
    <3>3. CASE h = a /\ c \notin cores
      BY <1>0, <1>1, <3>3 DEF Has
    <3>. QED
      BY <3>1, <3>2, <3>3
  <2>. QED
    BY <2>1 DEF SameHolders
<1>5. ApartInv'
  <2>1. ASSUME NEW h \in Holders PROVE owned'[h] \cap reserved'[h] = {}
    <3>1. CASE h = a
      BY <1>0, <1>m, <3>1 DEF ApartInv
    <3>2. CASE h # a
      BY <1>0, <1>m, <3>2 DEF ApartInv
    <3>. QED
      BY <3>1, <3>2
  <2>. QED
    BY <2>1 DEF ApartInv
<1>6. ASSUME NEW c \in Cores, NEW h \in Holders
      PROVE  c \in reserved'[h] <=> c \in reserved[h] \/ (h = a /\ c \in cores)
  <2>1. CASE h = a
    BY <1>0, <2>1
  <2>2. CASE h # a
    BY <1>0, <2>2
  <2>. QED
    BY <2>1, <2>2
<1>. QED
  BY <1>0, <1>2, <1>4, <1>5, <1>6, <1>m, HoldersStay

LEMMA OfferedIsOwned ==
    ASSUME NEW a \in Holders, NEW region, NEW cores \in Offerable(a, region)
    PROVE  cores \subseteq owned[a]
BY DEF Offerable

(* Only the invader is active, and requests are for it.                    *)
LEMMA RequestIsForTheActive ==
    ASSUME EInv, InvaderInv, NEW x \in Agents,
           UnderWay(ForInvader(x)) # 0 \/ ManagersFor(x) # {},
           NEW b \in Agents, Active(b)
    PROVE  b = x
<1>1. Active(x)
  BY DEF InvaderInv, Active
<1>. QED
  BY <1>1, InvaderIsAlone

LEMMA MakeOfferIsSafe ==
    ASSUME EInv, EInv', CoreInv, NEW a \in Holders, MakeOffer(a)
    PROVE  CoreInv' /\ SameHolders
<1>. DEFINE m == Message(a)
<1>0. /\ CanTake(a) /\ m.kind = "MAKE_OFFER" /\ UNCHANGED <<out, pc, request, plan>>
  BY DEF MakeOffer, Takes
<1>1. PICK cores \in Offerable(a, m.region) :
          /\ Reserve(a, cores)
          /\ queue' = With(Taken(a), Offer(a, m.from, OwnedBy(a, cores)))
  BY DEF MakeOffer
<1>. DEFINE s == Offer(a, m.from, OwnedBy(a, cores))
<1>m. MailTypes /\ AgentTypes /\ owned[a] \subseteq Cores
  BY AgentParts
<1>2. /\ m \in Messages /\ m.from \in Holders /\ m.invader \in Agents /\ a \in Mailboxes
  BY <1>0, <1>m, MessageType, MessageParts, MailboxesAreFinite
<1>3. cores \subseteq owned[a] /\ cores \in SUBSET Cores
  BY <1>m, OfferedIsOwned
<1>4. /\ s \in Posts /\ s.to = m.from /\ s.to \in Mailboxes /\ s.to \in Holders
      /\ s.msg \in Messages /\ s.msg.kind = "OFFER" /\ s.msg.cores = OwnedBy(a, cores)
  <2>1. s \in Posts
    BY <1>2, <1>3, OffersAreViews, PostsMade
  <2>. QED
    BY <1>2, <2>1 DEF Posts, Offer
<1>5. queue' = With(Taken(a), s)
  BY <1>1
<1>6. ASSUME NEW c, NEW h PROVE Says(OwnedBy(a, cores), c, h) <=> c \in cores /\ h = a
  BY DEF Says, OwnedBy
<1>. HIDE DEF s
<1>7. ASSUME NEW P
      PROVE  /\ UnderWay(P) \in Nat
             /\ UnderWay(P)' = UnderWay(P) - Unit(<<a, m>>, P) + Unit(<<s.to, s.msg>>, P)
  BY <1>0, <1>m, <1>4, <1>5, AnswerStep, UnderWayType
<1>8. UnderWay(ForInvader(m.invader)) # 0 /\ m.invader # a
  <2>1. <<a, m>> \in ForInvader(m.invader)
    BY <1>0, <1>2, DuePairs
  <2>2. <<a, m>> \notin Misled
    BY <1>0, <1>m, NotMisled DEF CoreInv
  <2>. QED
    BY <1>0, <1>2, <1>m, <2>1, <2>2, NotMisled, DuePairs
<1>9. \A b \in Agents : Active(b) => b # a
  BY <1>2, <1>8, RequestIsForTheActive DEF CoreInv
<1>10. Kept({"ACCEPT", "REJECT"}) /\ OrderInv'
  <2>1. /\ m.kind \notin {"ACCEPT", "REJECT"} /\ s.msg.kind \notin {"ACCEPT", "REJECT"}
        /\ ~ IsAnswer(s.msg)
    BY <1>0, <1>4 DEF IsAnswer
  <2>. QED
    BY <1>0, <1>m, <1>4, <1>5, <2>1, AnswerKeeps, OrderAnswer DEF CoreInv
<1>k. Kept({"ACCEPT"})
  BY <1>10, FewerKinds
<1>. HIDE DEF m
<1>11. ElsewhereSame(a)
  BY <1>0 DEF ElsewhereSame
<1>12. DueInv'
  <2>1. ASSUME NEW b \in Holders PROVE UnderWay(Due(b))' = UnderWay(Due(b))
    <3>1. <<a, m>> \in Due(b) <=> m.from = b
      BY <1>0, <1>2, DuePairs
    <3>2. <<s.to, s.msg>> \in Due(b) <=> m.from = b
      BY <1>4, DuePairs
    <3>3. Unit(<<a, m>>, Due(b)) = Unit(<<s.to, s.msg>>, Due(b)) /\ Unit(<<a, m>>, Due(b)) \in {0, 1}
      BY <3>1, <3>2, UnitIs
    <3>. QED
      BY <1>7, <3>3
  <2>2. \A b \in Holders : ManagersFor(b)' = ManagersFor(b)
    BY <1>0 DEF ManagersFor
  <2>. QED
    BY <1>0, <2>1, <2>2 DEF CoreInv, DueInv
<1>13. InvaderInv'
  <2>1. ASSUME NEW x \in Agents, UnderWay(ForInvader(x)) = 0
        PROVE  UnderWay(ForInvader(x))' = 0
    <3>1. <<a, m>> \notin ForInvader(x)
      BY <1>0, <1>m, <2>1, NotMisled DEF m
    <3>2. <<s.to, s.msg>> \notin ForInvader(x)
      BY <1>4, DuePairs
    <3>. QED
      BY <1>7, <2>1, <3>1, <3>2, UnitIs
  <2>. QED
    BY <1>0, <1>11, <2>1, InvadersChange DEF CoreInv
<1>14. (UnderWay(Misled) = 0)'
  <2>1. <<a, m>> \notin Misled
    BY <1>0, <1>m, NotMisled DEF CoreInv, m
  <2>2. <<s.to, s.msg>> \notin Misled
    BY <1>4, DuePairs
  <2>. QED
    BY <1>7, <2>1, <2>2, UnitIs DEF CoreInv
<1>15. /\ SameHolders /\ HolderInv' /\ ApartInv'
       /\ \A h \in Holders : h # a => reserved'[h] = reserved[h]
       /\ \A c \in Cores, h \in Holders :
             c \in reserved'[h] <=> c \in reserved[h] \/ (h = a /\ c \in cores)
       /\ \A c \in cores : c \notin reserved[a]
  BY <1>1, <1>3, <1>k, ReserveStep
<1>16. TokenInv'
  <2>1. ASSUME NEW c \in Cores, NEW h \in Holders
        PROVE  UnderWay(Tokens(c, h))'
                 + (IF Says(request'[a].response, c, h) THEN 1 ELSE 0)
                 + (IF Says(plan'[a].offers, c, h) THEN 1 ELSE 0)
                 + (IF c \in reserved[h] THEN 1 ELSE 0)
              = UnderWay(Tokens(c, h))
                 + (IF Says(request[a].response, c, h) THEN 1 ELSE 0)
                 + (IF Says(plan[a].offers, c, h) THEN 1 ELSE 0)
                 + (IF c \in reserved'[h] THEN 1 ELSE 0)
    <3>1. Unit(<<a, m>>, Tokens(c, h)) = 0
      BY <1>0, <1>2, TokenPairs, UnitIs
    <3>2. Unit(<<s.to, s.msg>>, Tokens(c, h)) = IF c \in cores /\ h = a THEN 1 ELSE 0
      BY <1>4, <1>6, TokenPairs, UnitIs
    <3>3. /\ UnderWay(Tokens(c, h)) \in Nat
          /\ UnderWay(Tokens(c, h))'
                = UnderWay(Tokens(c, h)) + (IF c \in cores /\ h = a THEN 1 ELSE 0)
      BY <1>7, <3>1, <3>2
    <3>4. /\ c \in reserved'[h] <=> c \in reserved[h] \/ (h = a /\ c \in cores)
          /\ ~ (c \in reserved[h] /\ h = a /\ c \in cores)
      BY <1>15
    <3>5. /\ Says(request'[a].response, c, h) <=> Says(request[a].response, c, h)
          /\ Says(plan'[a].offers, c, h) <=> Says(plan[a].offers, c, h)
      BY <1>0
    <3>. QED
      BY <3>3, <3>4, <3>5
  <2>. QED
    BY <1>11, <2>1, TokensChange DEF CoreInv
<1>17. ReadyInv' /\ FreeInv'
  <2>1. Electing' = Electing
    BY <1>0 DEF Electing
  <2>2. FreeInv'
    <3>1. ASSUME NEW b \in Agents, Active(b)' PROVE reserved'[b] = {}
      <4>1. Active(b)
        BY <1>0, <3>1 DEF Active
      <4>2. b # a /\ b \in Holders
        BY <1>9, <4>1, Threads
      <4>. QED
        BY <1>15, <4>1, <4>2 DEF CoreInv, FreeInv
    <3>. QED
      BY <3>1 DEF FreeInv
  <2>. QED
    BY <1>10, <2>1, <2>2, ReadyStays DEF CoreInv
<1>. QED
  BY <1>10, <1>12, <1>13, <1>14, <1>15, <1>16, <1>17 DEF CoreInv

LEMMA RespondIsSafe ==
    ASSUME EInv, EInv', CoreInv, NEW a \in Holders, Respond(a)
    PROVE  CoreInv' /\ SameHolders
<1>. DEFINE inv == request[a].invader
            view == request[a].response
            place == IF plan[a].core # None THEN "next" ELSE "loop"
<1>0. /\ pc[a] = "offers" /\ out[a] = <<>> /\ request[a].left = 0
      /\ request' = [request EXCEPT ![a] = NoRequest]
      /\ pc' = [pc EXCEPT ![a] = place]
      /\ UNCHANGED <<out, plan>>
  BY DEF Respond, At, Goto
<1>m. /\ MailTypes /\ AgentTypes /\ InHand(a) /\ request[a] \in Requests
      /\ owned[a] \subseteq Cores
      /\ TokenInv /\ ApartInv /\ HolderInv
  BY AgentParts DEF CoreInv
<1>1. PICK cores \in IF a = inv THEN {{}} ELSE Offerable(a, request[a].region) :
         Reserve(a, cores) /\ queue' = With(queue, Offer(a, inv, Concat(view, OwnedBy(a, cores))))
  BY DEF Respond
<1>. DEFINE s == Offer(a, inv, Concat(view, OwnedBy(a, cores)))
<1>2. /\ inv \in Agents /\ inv \in Holders /\ inv \in Mailboxes /\ view \in Offers
  <2>1. inv \in Agents
    BY <1>0, <1>m, InHandParts DEF RequestInHand, Managing, Requests
  <2>. QED
    BY <2>1, <1>m, Threads, MailboxesAreFinite DEF Requests
<1>3. cores \subseteq owned[a] /\ cores \in SUBSET Cores /\ (a = inv => cores = {})
  BY <1>1, <1>m, OfferedIsOwned
<1>4. OwnedBy(a, cores) \in Offers /\ DOMAIN OwnedBy(a, cores) = cores
  BY <1>3, OffersAreViews DEF OwnedBy
<1>5. DOMAIN view \cap cores = {}
  <2>1. ASSUME NEW c \in DOMAIN view, c \in cores PROVE FALSE
    <3>1. c \in Cores /\ view[c] \in Holders
      BY <1>2, OffersAreViews
    <3>2. Says(request[a].response, c, view[c])
      BY DEF Says
    <3>3. HeldBy(view[c], c)
      BY <1>m, <3>1, <3>2, ClaimIsHeld
    <3>4. c \in owned[a] /\ Has(a, c)
      BY <1>3, <2>1 DEF Has
    <3>5. view[c] = a
      BY <1>m, <3>1, <3>3, <3>4, HolderIsUnique DEF HeldBy
    <3>. QED
      BY <3>3, <3>4, <3>5 DEF HeldBy
  <2>. QED
    BY <2>1
<1>6. ASSUME NEW c, NEW h
      PROVE  /\ Says(Concat(view, OwnedBy(a, cores)), c, h)
                   <=> Says(view, c, h) \/ (c \in cores /\ h = a)
             /\ ~ (Says(view, c, h) /\ c \in cores /\ h = a)
  <2>1. Says(OwnedBy(a, cores), c, h) <=> c \in cores /\ h = a
    BY DEF Says, OwnedBy
  <2>. HIDE DEF view
  <2>2. DOMAIN view \cap DOMAIN OwnedBy(a, cores) = {}
    BY <1>4, <1>5
  <2>. QED
    BY <1>2, <1>4, <2>1, <2>2, ConcatSays
<1>7. /\ s \in Posts /\ s.to = inv /\ s.msg \in Messages /\ s.msg.kind = "OFFER"
      /\ s.msg.cores = Concat(view, OwnedBy(a, cores))
  <2>1. Concat(view, OwnedBy(a, cores)) \in Offers
    BY <1>2, <1>4, OffersAreViews
  <2>2. s \in Posts
    BY <1>2, <2>1, PostsMade
  <2>. QED
    BY <2>2 DEF Posts, Offer
<1>8. queue' = With(queue, s)
  BY <1>1
<1>9. place \in {"next", "loop"}
  OBVIOUS
<1>10. Active(a)' => Active(a)
  <2>1. pc'[a] = place /\ plan'[a] = plan[a]
    BY <1>0, <1>m DEF AgentTypes
  <2>. HIDE DEF place
  <2>2. pc'[a] # "seed" /\ plan'[a].core = plan[a].core
    BY <1>9, <2>1
  <2>. QED
    BY <2>2, StaysPassive
<1>. HIDE DEF s, place
<1>11. /\ request'[a].invader = None /\ request'[a].left = 0 /\ request'[a].response = <<>>
       /\ \A b \in Holders \ {a} : request'[b] = request[b]
  <2>1. request'[a] = NoRequest /\ \A b \in Holders \ {a} : request'[b] = request[b]
    BY <1>0, <1>m DEF AgentTypes
  <2>. QED
    BY <2>1 DEF NoRequest, Handling
<1>12. /\ ElsewhereSame(a) /\ pc'[a] # "electing" /\ \A b \in Holders \ {a} : pc'[b] = pc[b]
  BY <1>0, <1>9, <1>m, <1>11 DEF ElsewhereSame, AgentTypes
<1>13. Kept({"ACCEPT", "REJECT"}) /\ Kept({"ACCEPT"}) /\ OrderInv'
  <2>1. s.msg.kind \notin {"ACCEPT", "REJECT"} /\ ~ IsAnswer(s.msg)
    BY <1>7 DEF IsAnswer
  <2>2. Kept({"ACCEPT", "REJECT"}) /\ OrderInv'
    BY <1>0, <1>m, <1>7, <1>8, <2>1, SendKeeps, OrderSend DEF CoreInv
  <2>. QED
    BY <2>2, FewerKinds
<1>14. ASSUME NEW P
      PROVE  UnderWay(P) \in Nat /\ UnderWay(P)' = UnderWay(P) + Unit(<<s.to, s.msg>>, P)
  BY <1>0, <1>m, <1>7, <1>8, SendStep, UnderWayType
<1>15. DueInv'
  <2>1. ASSUME NEW b \in Holders
        PROVE  UnderWay(Due(b))' + (IF request'[a].invader = b THEN 1 ELSE 0)
                  + (IF b = a THEN plan[a].awaited + request[a].left ELSE 0)
               = UnderWay(Due(b)) + (IF request[a].invader = b THEN 1 ELSE 0)
                  + (IF b = a THEN plan'[a].awaited + request'[a].left ELSE 0)
    <3>1. Unit(<<s.to, s.msg>>, Due(b)) = IF request[a].invader = b THEN 1 ELSE 0
      BY <1>2, <1>7, DuePairs, UnitIs
    <3>2. /\ UnderWay(Due(b)) \in Nat
          /\ UnderWay(Due(b))' = UnderWay(Due(b)) + (IF request[a].invader = b THEN 1 ELSE 0)
      BY <1>14, <3>1
    <3>3. /\ request'[a].invader # b /\ plan'[a].awaited = plan[a].awaited
          /\ request[a].left = 0 /\ request'[a].left = 0 /\ plan[a].awaited \in Nat
      BY <1>0, <1>11, NoneIsNobody, InHandAreNumbers
    <3>. QED
      BY <3>2, <3>3
  <2>. QED
    BY <1>12, <2>1, DueChanges DEF CoreInv
<1>16. InvaderInv'
  <2>1. ASSUME NEW x \in Agents, UnderWay(ForInvader(x)) = 0
        PROVE  UnderWay(ForInvader(x))' = 0 /\ None # x
    <3>1. <<s.to, s.msg>> \notin ForInvader(x)
      BY <1>2, <1>7, DuePairs
    <3>. QED
      BY <1>14, <2>1, <3>1, UnitIs, Threads
  <2>. QED
    BY <1>0, <1>11, <1>12, <2>1, InvadersChange DEF CoreInv
<1>17. (UnderWay(Misled) = 0)'
  <2>1. <<s.to, s.msg>> \notin Misled
    BY <1>2, <1>7, DuePairs
  <2>. QED
    BY <1>14, <2>1, UnitIs DEF CoreInv
<1>18. /\ SameHolders /\ HolderInv' /\ ApartInv'
       /\ \A h \in Holders : h # a => reserved'[h] = reserved[h]
       /\ \A c \in Cores, h \in Holders :
             c \in reserved'[h] <=> c \in reserved[h] \/ (h = a /\ c \in cores)
       /\ \A c \in cores : c \notin reserved[a]
  BY <1>1, <1>3, <1>13, ReserveStep
<1>19. TokenInv'
  <2>1. ASSUME NEW c \in Cores, NEW h \in Holders
        PROVE  UnderWay(Tokens(c, h))'
                 + (IF Says(request'[a].response, c, h) THEN 1 ELSE 0)
                 + (IF Says(plan'[a].offers, c, h) THEN 1 ELSE 0)
                 + (IF c \in reserved[h] THEN 1 ELSE 0)
              = UnderWay(Tokens(c, h))
                 + (IF Says(request[a].response, c, h) THEN 1 ELSE 0)
                 + (IF Says(plan[a].offers, c, h) THEN 1 ELSE 0)
                 + (IF c \in reserved'[h] THEN 1 ELSE 0)
    <3>. DEFINE old == Says(view, c, h)
                own == c \in cores /\ h = a
    <3>1. Unit(<<s.to, s.msg>>, Tokens(c, h)) = IF old \/ own THEN 1 ELSE 0
      BY <1>2, <1>6, <1>7, TokenPairs, UnitIs
    <3>2. /\ UnderWay(Tokens(c, h)) \in Nat
          /\ UnderWay(Tokens(c, h))' = UnderWay(Tokens(c, h)) + (IF old \/ own THEN 1 ELSE 0)
      BY <1>14, <3>1
    <3>3. ~ (old /\ own)
      BY <1>6
    <3>4. /\ c \in reserved'[h] <=> c \in reserved[h] \/ own
          /\ ~ (c \in reserved[h] /\ own)
      BY <1>18
    <3>5. /\ ~ Says(request'[a].response, c, h)
          /\ Says(plan'[a].offers, c, h) <=> Says(plan[a].offers, c, h)
      BY <1>0, <1>11 DEF Says
    <3>. QED
      BY <3>2, <3>3, <3>4, <3>5
  <2>. QED
    BY <1>12, <2>1, TokensChange DEF CoreInv
<1>20. ReadyInv' /\ FreeInv'
  <2>1. ASSUME NEW b \in Agents, Active(b) PROVE reserved'[b] \subseteq reserved[b]
    <3>1. a \in ManagersFor(inv)
      BY DEF ManagersFor
    <3>2. b = inv
      BY <1>2, <2>1, <3>1, RequestIsForTheActive DEF CoreInv
    <3>3. CASE b = a
      <4>1. cores = {} /\ Reserve(a, cores)
        BY <1>1, <1>3, <3>2, <3>3
      <4>2. reserved'[a] = reserved[a] \union cores
        BY <1>m, <4>1 DEF Reserve, AgentTypes
      <4>. QED
        BY <3>3, <4>1, <4>2
    <3>4. CASE b # a
      BY <1>2, <1>18, <3>2, <3>4
    <3>. QED
      BY <3>3, <3>4
  <2>. QED
    BY <1>10, <1>12, <1>13, <2>1, ElectionStays DEF CoreInv
<1>. QED
  BY <1>13, <1>15, <1>16, <1>17, <1>18, <1>19, <1>20 DEF CoreInv

-----------------------------------------------------------------------------
(* Answers: with one of them the core leaves the reserve.                  *)
ReadsAnswer(a) ==
    /\ CanTake(a) /\ Message(a).kind \in {"ACCEPT", "REJECT"} /\ pc[a] = "loop"
    /\ queue' = Taken(a) /\ Message(a).core \in reserved[a]
    /\ reserved' = [reserved EXCEPT ![a] = @ \ {Message(a).core}]
    /\ UNCHANGED <<out, pc, request, plan>>

LEMMA AnswerIsRead ==
    ASSUME EInv, EInv', CoreInv, NEW a \in Holders, ReadsAnswer(a)
    PROVE  /\ DueInv' /\ InvaderInv' /\ (UnderWay(Misled) = 0)' /\ TokenInv'
           /\ OrderInv' /\ ReadyInv' /\ FreeInv'
           /\ \A h \in Holders, c \in Cores :
                 IF h = a /\ c = Message(a).core
                    THEN Released(h, c) <=> Message(a).kind = "ACCEPT"
                    ELSE Released(h, c)' <=> Released(h, c)
<1>. DEFINE m == Message(a)
<1>0. /\ CanTake(a) /\ m.kind \in {"ACCEPT", "REJECT"} /\ pc[a] = "loop" /\ queue' = Taken(a)
      /\ m.core \in reserved[a] /\ UNCHANGED <<out, pc, request, plan>>
  BY DEF ReadsAnswer
<1>m. MailTypes /\ MailTypes' /\ AgentTypes /\ TokenInv
  BY DEF EInv, CoreInv
<1>r. /\ reserved'[a] = reserved[a] \ {m.core}
      /\ \A h \in Holders : h # a => reserved'[h] = reserved[h]
  BY <1>m DEF ReadsAnswer, AgentTypes
<1>1. m \in Messages /\ m.core \in Cores /\ a \in Mailboxes
  BY <1>0, <1>m, MessageType, MessageParts, MailboxesAreFinite
<1>2. ASSUME NEW P
      PROVE  UnderWay(P) \in Nat /\ UnderWay(P)' = UnderWay(P) - Unit(<<a, m>>, P)
  BY <1>0, <1>m, ReceiveStep, UnderWayType
<1>3. Kept(Dealings) /\ OrderInv'
  <2>1. m.kind \notin Dealings
    BY <1>0 DEF Dealings
  <2>. QED
    BY <1>0, <1>m, <2>1, ReceiveKeeps, OrderReceive DEF CoreInv
<1>4. DueInv' /\ InvaderInv'
  BY <1>0, <1>3, DueStays DEF CoreInv
<1>. HIDE DEF m
<1>5. (UnderWay(Misled) = 0)'
  <2>1. <<a, m>> \notin Misled
    BY <1>0, <1>1, DuePairs
  <2>. QED
    BY <1>2, <2>1, UnitIs DEF CoreInv
<1>6. ASSUME NEW c \in Cores, NEW h \in Holders
      PROVE  Unit(<<a, m>>, Tokens(c, h)) = IF h = a /\ c = m.core THEN 1 ELSE 0
  BY <1>0, <1>1, TokenPairs, UnitIs
<1>7. TokenInv'
  <2>1. ASSUME NEW c \in Cores, NEW h \in Holders
        PROVE  UnderWay(Tokens(c, h))'
                 + (IF Says(request'[a].response, c, h) THEN 1 ELSE 0)
                 + (IF Says(plan'[a].offers, c, h) THEN 1 ELSE 0)
                 + (IF c \in reserved[h] THEN 1 ELSE 0)
              = UnderWay(Tokens(c, h))
                 + (IF Says(request[a].response, c, h) THEN 1 ELSE 0)
                 + (IF Says(plan[a].offers, c, h) THEN 1 ELSE 0)
                 + (IF c \in reserved'[h] THEN 1 ELSE 0)
    <3>. DEFINE this == h = a /\ c = m.core
    <3>1. /\ UnderWay(Tokens(c, h)) \in Nat
          /\ UnderWay(Tokens(c, h))' = UnderWay(Tokens(c, h)) - (IF this THEN 1 ELSE 0)
      BY <1>2, <1>6
    <3>2. /\ c \in reserved'[h] <=> c \in reserved[h] /\ ~ this
          /\ this => c \in reserved[h]
      <4>1. CASE h = a
        BY <1>0, <1>r, <4>1
      <4>2. CASE h # a
        BY <1>r, <4>2
      <4>. QED
        BY <4>1, <4>2
    <3>3. /\ Says(request'[a].response, c, h) <=> Says(request[a].response, c, h)
          /\ Says(plan'[a].offers, c, h) <=> Says(plan[a].offers, c, h)
      BY <1>0
    <3>. QED
      BY <3>1, <3>2, <3>3
  <2>2. ElsewhereSame(a)
    BY <1>0 DEF ElsewhereSame
  <2>. QED
    BY <2>1, <2>2, TokensChange DEF CoreInv
<1>8. ReadyInv'
  <2>1. ASSUME NEW b \in Electing PROVE UnderWay(AnswersTo(b))' = 0
    <3>1. b # a /\ UnderWay(AnswersTo(b)) = 0
      BY <1>0 DEF Electing, CoreInv, ReadyInv
    <3>2. <<a, m>> \notin AnswersTo(b)
      BY <3>1 DEF AnswersTo
    <3>. QED
      BY <1>2, <3>1, <3>2, UnitIs
  <2>2. Electing' = Electing
    BY <1>0 DEF Electing
  <2>. QED
    BY <2>1, <2>2 DEF ReadyInv
<1>9. FreeInv'
  <2>1. ASSUME NEW b \in Agents, Active(b)' PROVE reserved'[b] = {}
    <3>1. reserved[b] = {} /\ b \in Holders
      BY <1>0, <2>1, Threads DEF CoreInv, FreeInv, Active
    <3>. QED
      BY <1>0, <1>r, <3>1
  <2>. QED
    BY <2>1 DEF FreeInv
<1>10. ASSUME NEW h \in Holders, NEW c \in Cores, h = a /\ c = m.core
       PROVE  Released(h, c) <=> m.kind = "ACCEPT"
  <2>1. UnderWay(Tokens(c, h)) <= 1
    <3>1. UnderWay(Tokens(c, h)) + Cardinality(Responding(c, h)) + Cardinality(Collecting(c, h))
             = (IF c \in reserved[h] THEN 1 ELSE 0)
      BY <1>m DEF TokenInv
    <3>2. Cardinality(Responding(c, h)) \in Nat /\ Cardinality(Collecting(c, h)) \in Nat
      <4>1. Responding(c, h) \subseteq Holders /\ Collecting(c, h) \subseteq Holders
        BY DEF Responding, Collecting
      <4>. QED
        BY <4>1, HoldersAreCounted
    <3>3. UnderWay(Tokens(c, h)) \in Nat
      BY <1>2
    <3>. QED
      BY <3>1, <3>2, <3>3
  <2>2. <<a, m>> \in Tokens(c, h) /\ (<<a, m>> \in Acceptances(c, h) <=> m.kind = "ACCEPT")
    BY <1>0, <1>1, <1>10, TokenPairs
  <2>3. CASE m.kind = "ACCEPT"
    <3>1. UnderWay(Acceptances(c, h)) # 0
      BY <1>0, <1>m, <2>2, <2>3, NotMisled DEF m
    <3>. QED
      BY <1>m, <2>3, <3>1, ReleasedIsUnderWay
  <2>4. CASE m.kind # "ACCEPT"
    <3>1. UnderWay(Acceptances(c, h)) = 0
      BY <1>0, <1>m, <2>1, <2>2, <2>4, AcceptancesAreTokens, LastOne DEF m
    <3>. QED
      BY <1>m, <2>4, <3>1, ReleasedIsUnderWay
  <2>. QED
    BY <2>3, <2>4
<1>11. ASSUME NEW h \in Holders, NEW c \in Cores, ~ (h = a /\ c = m.core)
       PROVE  Released(h, c)' <=> Released(h, c)
  <2>1. <<a, m>> \notin Acceptances(c, h)
    BY <1>1, <1>11, TokenPairs
  <2>2. UnderWay(Acceptances(c, h))' = UnderWay(Acceptances(c, h))
    BY <1>2, <2>1, UnitIs
  <2>. QED
    BY <1>m, <2>2, SameReleases
<1>. QED
  BY <1>3, <1>4, <1>5, <1>7, <1>8, <1>9, <1>10, <1>11 DEF m

LEMMA AcceptedIsSafe ==
    ASSUME EInv, EInv', CoreInv, NEW a \in Holders, Accepted(a)
    PROVE  CoreInv' /\ SameHolders
<1>. DEFINE c0 == Message(a).core
<1>0. ReadsAnswer(a) /\ UNCHANGED owned /\ Message(a).kind = "ACCEPT"
  BY DEF Accepted, ReadsAnswer, Takes
<1>1. /\ DueInv' /\ InvaderInv' /\ (UnderWay(Misled) = 0)' /\ TokenInv'
      /\ OrderInv' /\ ReadyInv' /\ FreeInv'
      /\ \A h \in Holders, c \in Cores :
            IF h = a /\ c = c0 THEN Released(h, c) <=> Message(a).kind = "ACCEPT"
                               ELSE Released(h, c)' <=> Released(h, c)
  BY <1>0, AnswerIsRead
<1>m. AgentTypes /\ ApartInv /\ HolderInv
  BY DEF EInv, CoreInv
<1>2. /\ c0 \in reserved[a] /\ reserved'[a] = reserved[a] \ {c0}
      /\ \A h \in Holders : h # a => reserved'[h] = reserved[h]
  BY <1>0, <1>m DEF ReadsAnswer, AgentTypes
<1>. HIDE DEF c0
<1>3. c0 \notin owned[a]
  BY <1>2, <1>m DEF ApartInv
<1>4. SameHolders
  <2>1. ASSUME NEW h \in Holders, NEW c \in Cores PROVE Has(h, c)' <=> Has(h, c)
    <3>1. CASE h = a /\ c = c0
      <4>1. Released(h, c)
        BY <1>0, <1>1, <3>1
      <4>. QED
        BY <1>0, <1>2, <1>3, <3>1, <4>1 DEF Has
    <3>2. CASE ~ (h = a /\ c = c0)
      <4>1. Released(h, c)' <=> Released(h, c)
        BY <1>1, <3>2
      <4>2. c \in reserved'[h] <=> c \in reserved[h]
        BY <1>2, <3>2
      <4>. QED
        BY <1>0, <4>1, <4>2 DEF Has
    <3>. QED
      BY <3>1, <3>2
  <2>. QED
    BY <2>1 DEF SameHolders
<1>5. ApartInv'
  BY <1>0, <1>2, <1>m DEF ApartInv
<1>. QED
  BY <1>1, <1>4, <1>5, <1>m, HoldersStay DEF CoreInv

LEMMA RejectedIsSafe ==
    ASSUME EInv, EInv', CoreInv, NEW a \in Holders, Rejected(a)
    PROVE  CoreInv' /\ SameHolders
<1>. DEFINE c0 == Message(a).core
<1>0. /\ ReadsAnswer(a) /\ owned' = [owned EXCEPT ![a] = @ \union {c0}]
      /\ Message(a).kind = "REJECT"
  BY DEF Rejected, ReadsAnswer, Takes
<1>1. /\ DueInv' /\ InvaderInv' /\ (UnderWay(Misled) = 0)' /\ TokenInv'
      /\ OrderInv' /\ ReadyInv' /\ FreeInv'
      /\ \A h \in Holders, c \in Cores :
            IF h = a /\ c = c0 THEN Released(h, c) <=> Message(a).kind = "ACCEPT"
                               ELSE Released(h, c)' <=> Released(h, c)
  BY <1>0, AnswerIsRead
<1>m. AgentTypes /\ ApartInv /\ HolderInv
  BY DEF EInv, CoreInv
<1>2. /\ c0 \in reserved[a] /\ reserved'[a] = reserved[a] \ {c0}
      /\ owned'[a] = owned[a] \union {c0}
      /\ \A h \in Holders : h # a => reserved'[h] = reserved[h] /\ owned'[h] = owned[h]
  BY <1>0, <1>m DEF ReadsAnswer, AgentTypes
<1>. HIDE DEF c0
<1>4. SameHolders
  <2>1. ASSUME NEW h \in Holders, NEW c \in Cores PROVE Has(h, c)' <=> Has(h, c)
    <3>1. CASE h = a /\ c = c0
      <4>1. ~ Released(h, c)
        BY <1>0, <1>1, <3>1
      <4>. QED
        BY <1>2, <3>1, <4>1 DEF Has
    <3>2. CASE ~ (h = a /\ c = c0)
      <4>1. Released(h, c)' <=> Released(h, c)
        BY <1>1, <3>2
      <4>2. (c \in reserved'[h] <=> c \in reserved[h]) /\ (c \in owned'[h] <=> c \in owned[h])
        BY <1>2, <3>2
      <4>. QED
        BY <4>1, <4>2 DEF Has
    <3>. QED
      BY <3>1, <3>2
  <2>. QED
    BY <2>1 DEF SameHolders
<1>5. ApartInv'
  <2>1. ASSUME NEW h \in Holders PROVE owned'[h] \cap reserved'[h] = {}
    <3>1. CASE h = a
      BY <1>2, <1>m, <3>1 DEF ApartInv
    <3>2. CASE h # a
      BY <1>2, <1>m, <3>2 DEF ApartInv
    <3>. QED
      BY <3>1, <3>2
  <2>. QED
    BY <2>1 DEF ApartInv
<1>. QED
  BY <1>1, <1>4, <1>5, <1>m, HoldersStay DEF CoreInv

-----------------------------------------------------------------------------
(* The answers to all offers, one for each core.                           *)
LEMMA AnswersCount ==
    ASSUME NEW a \in Holders, plan[a].offers \in Offers, NEW taken, taken \subseteq Offered(a)
    PROVE  /\ Answers(a, taken) \in Seq(Posts)
           /\ \A i \in DOMAIN Answers(a, taken) :
                 Answers(a, taken)[i].msg.kind \in {"ACCEPT", "REJECT", "REGISTER"}
           /\ Matching(Answers(a, taken), Misled) = 0
           /\ \A c \in Cores, h \in Holders :
                 /\ Matching(Answers(a, taken), Tokens(c, h))
                       = IF Says(plan[a].offers, c, h) THEN 1 ELSE 0
                 /\ Matching(Answers(a, taken), Acceptances(c, h))
                       = IF Says(plan[a].offers, c, h) /\ c \in taken THEN 1 ELSE 0
<1>. DEFINE list == Answers(a, taken)
            view == plan[a].offers
            number == InOrderOfId(AnswerNumbers(a, taken))
<1>1. /\ list \in Seq(Posts)
      /\ \A c \in Offered(a) : \E i \in DOMAIN list : number[i] = 2 * c
      /\ \A i, j \in DOMAIN list : number[i] = number[j] => i = j
      /\ \A i \in DOMAIN list :
            \/ \E c \in Offered(a) : number[i] = 2 * c /\ list[i] = Answered(a, taken, c)
            \/ \E c \in taken : number[i] = 2 * c + 1 /\ list[i] = Register(a, c)
  BY AnswersAre
<1>2. /\ Offered(a) = DOMAIN view /\ Offered(a) \subseteq Cores /\ taken \subseteq Cores
      /\ \A c \in Offered(a) : view[c] \in Holders
      /\ \A c \in Cores : c \in Nat
  BY OffersAreViews, CoresAreNumbers DEF Offered
<1>3. ASSUME NEW c PROVE /\ Answered(a, taken, c).to = view[c]
                         /\ Answered(a, taken, c).msg.core = c
                         /\ Answered(a, taken, c).msg.kind
                               = IF c \in taken THEN "ACCEPT" ELSE "REJECT"
                         /\ Register(a, c).msg.kind = "REGISTER"
  BY DEF Answered, Reply, Register
<1>. HIDE DEF list, view, number
<1>4. ASSUME NEW i \in DOMAIN list
      PROVE  /\ list[i].to \in Mailboxes /\ list[i].msg \in Messages
             /\ list[i].msg.kind \in {"ACCEPT", "REJECT", "REGISTER"}
             /\ list[i].msg.kind # "REGISTER" => list[i].to \in Holders
  <2>1. list[i] \in Posts
    BY <1>1
  <2>2. list[i].to \in Mailboxes /\ list[i].msg \in Messages
    BY <2>1 DEF Posts
  <2>. QED
    BY <1>1, <1>2, <1>3, <2>2
<1>5. ASSUME NEW c \in Cores, NEW h \in Holders, NEW i \in DOMAIN list
      PROVE  /\ <<list[i].to, list[i].msg>> \in Tokens(c, h)
                   <=> number[i] = 2 * c /\ Says(view, c, h)
             /\ <<list[i].to, list[i].msg>> \in Acceptances(c, h)
                   <=> number[i] = 2 * c /\ Says(view, c, h) /\ c \in taken
  <2>1. /\ <<list[i].to, list[i].msg>> \in Tokens(c, h)
              <=> list[i].msg.kind \in {"ACCEPT", "REJECT"} /\ list[i].msg.core = c
                     /\ list[i].to = h
        /\ <<list[i].to, list[i].msg>> \in Acceptances(c, h)
              <=> list[i].msg.kind = "ACCEPT" /\ list[i].msg.core = c /\ list[i].to = h
    <3>. DEFINE r == list[i].to
                m == list[i].msg
    <3>1. r \in Mailboxes /\ m \in Messages /\ m.kind # "OFFER"
      BY <1>4
    <3>. HIDE DEF r, m
    <3>2. /\ <<r, m>> \in Tokens(c, h) <=> m.kind \in {"ACCEPT", "REJECT"} /\ m.core = c /\ r = h
          /\ <<r, m>> \in Acceptances(c, h) <=> m.kind = "ACCEPT" /\ m.core = c /\ r = h
      BY <3>1, TokenPairs
    <3>. QED
      BY <3>2 DEF r, m
  <2>2. CASE \E d \in Offered(a) : number[i] = 2 * d /\ list[i] = Answered(a, taken, d)
    <3>1. PICK d \in Offered(a) : number[i] = 2 * d /\ list[i] = Answered(a, taken, d)
      BY <2>2
    <3>2. d \in Nat /\ c \in Nat
      BY <1>2
    <3>3. number[i] = 2 * c <=> d = c
      BY <3>1, <3>2
    <3>4. /\ list[i].to = view[d] /\ list[i].msg.core = d
          /\ list[i].msg.kind = IF d \in taken THEN "ACCEPT" ELSE "REJECT"
      BY <1>3, <3>1
    <3>5. d \in DOMAIN view
      BY <1>2
    <3>6. Says(view, c, h) /\ d = c => view[d] = h
      BY DEF Says
    <3>7. view[d] = h /\ d = c => Says(view, c, h)
      BY <3>5 DEF Says
    <3>. QED
      BY <2>1, <3>3, <3>4, <3>6, <3>7
  <2>3. CASE \E d \in taken : number[i] = 2 * d + 1 /\ list[i] = Register(a, d)
    <3>1. PICK d \in taken : number[i] = 2 * d + 1 /\ list[i] = Register(a, d)
      BY <2>3
    <3>2. d \in Nat /\ c \in Nat
      BY <1>2
    <3>3. number[i] # 2 * c
      BY <3>1, <3>2
    <3>4. list[i].msg.kind = "REGISTER"
      BY <1>3, <3>1
    <3>. QED
      BY <2>1, <3>3, <3>4
  <2>. QED
    BY <1>1, <2>2, <2>3
<1>6. Matching(list, Misled) = 0
  <2>1. ASSUME NEW i \in DOMAIN list PROVE <<list[i].to, list[i].msg>> \notin Misled
    BY <1>4, DuePairs
  <2>. QED
    BY <2>1, NoneMatches
<1>7. ASSUME NEW c \in Cores, NEW h \in Holders
      PROVE  /\ Matching(list, Tokens(c, h)) = IF Says(view, c, h) THEN 1 ELSE 0
             /\ Matching(list, Acceptances(c, h))
                   = IF Says(view, c, h) /\ c \in taken THEN 1 ELSE 0
  <2>1. CASE Says(view, c, h)
    <3>1. PICK k \in DOMAIN list : number[k] = 2 * c
      BY <1>1, <1>2, <2>1 DEF Says
    <3>2. \A i \in DOMAIN list : number[i] = 2 * c <=> i = k
      BY <1>1, <3>1
    <3>3. Matching(list, Tokens(c, h)) = 1
      <4>1. \A i \in DOMAIN list : <<list[i].to, list[i].msg>> \in Tokens(c, h) <=> i = k
        BY <1>5, <2>1, <3>2
      <4>. QED
        BY <4>1, OneMatches
    <3>4. CASE c \in taken
      <4>1. \A i \in DOMAIN list : <<list[i].to, list[i].msg>> \in Acceptances(c, h) <=> i = k
        BY <1>5, <2>1, <3>2, <3>4
      <4>2. Matching(list, Acceptances(c, h)) = 1
        BY <4>1, OneMatches
      <4>. QED
        BY <2>1, <3>3, <3>4, <4>2
    <3>5. CASE c \notin taken
      <4>1. \A i \in DOMAIN list : <<list[i].to, list[i].msg>> \notin Acceptances(c, h)
        BY <1>5, <3>5
      <4>2. Matching(list, Acceptances(c, h)) = 0
        BY <4>1, NoneMatches
      <4>. QED
        BY <2>1, <3>3, <3>5, <4>2
    <3>. QED
      BY <3>4, <3>5
  <2>2. CASE ~ Says(view, c, h)
    <3>1. Matching(list, Tokens(c, h)) = 0
      <4>1. \A i \in DOMAIN list : <<list[i].to, list[i].msg>> \notin Tokens(c, h)
        BY <1>5, <2>2
      <4>. QED
        BY <4>1, NoneMatches
    <3>2. Matching(list, Acceptances(c, h)) = 0
      <4>1. \A i \in DOMAIN list : <<list[i].to, list[i].msg>> \notin Acceptances(c, h)
        BY <1>5, <2>2
      <4>. QED
        BY <4>1, NoneMatches
    <3>. QED
      BY <2>2, <3>1, <3>2
  <2>. QED
    BY <2>1, <2>2
<1>. QED
  BY <1>1, <1>4, <1>6, <1>7 DEF list, view

LEMMA AnswerMail ==
    ASSUME MailTypes, NEW a \in Holders, out[a] = <<>>, UNCHANGED queue,
           plan[a].offers \in Offers, NEW taken, taken \subseteq Offered(a),
           Sends(a, Answers(a, taken))
    PROVE  /\ MailTypes' /\ Kept(Dealings) /\ (UnderWay(Misled) = 0 => (UnderWay(Misled) = 0)')
           /\ \A c \in Cores, h \in Holders :
                 /\ UnderWay(Tokens(c, h))'
                       = UnderWay(Tokens(c, h)) + (IF Says(plan[a].offers, c, h) THEN 1 ELSE 0)
                 /\ UnderWay(Acceptances(c, h))' = UnderWay(Acceptances(c, h))
                       + (IF Says(plan[a].offers, c, h) /\ c \in taken THEN 1 ELSE 0)
<1>. DEFINE list == Answers(a, taken)
<1>1. /\ list \in Seq(Posts)
      /\ \A i \in DOMAIN list : list[i].msg.kind \in {"ACCEPT", "REJECT", "REGISTER"}
      /\ Matching(list, Misled) = 0
  BY AnswersCount
<1>2. \A c \in Cores, h \in Holders :
         /\ Matching(list, Tokens(c, h)) = IF Says(plan[a].offers, c, h) THEN 1 ELSE 0
         /\ Matching(list, Acceptances(c, h))
               = IF Says(plan[a].offers, c, h) /\ c \in taken THEN 1 ELSE 0
  BY AnswersCount
<1>3. Sends(a, list)
  OBVIOUS
<1>. HIDE DEF list
<1>4. ASSUME NEW P
      PROVE  UnderWay(P) \in Nat /\ UnderWay(P)' = UnderWay(P) + Matching(list, P)
  BY <1>1, <1>3, FillStep, UnderWayType
<1>5. MailTypes' /\ Kept(Dealings)
  <2>1. \A i \in DOMAIN list : list[i].msg.kind \notin Dealings
    BY <1>1 DEF Dealings
  <2>. QED
    BY <1>1, <1>3, <2>1, FillKeeps
<1>6. UnderWay(Misled) = 0 => (UnderWay(Misled) = 0)'
  BY <1>1, <1>4
<1>. QED
  BY <1>2, <1>4, <1>5, <1>6

(* The invader becomes the holder of the cores that it takes.              *)
Captures(a, taken) ==
    \A h \in Holders, c \in Cores : Has(h, c)' <=> IF c \in taken THEN h = a ELSE Has(h, c)

LEMMA TakeOverIsSafe ==
    ASSUME EInv, EInv', CoreInv, NEW a \in Agents, TakeOver(a)
    PROVE  /\ CoreInv' /\ Active(a)
           /\ \E taken \in SUBSET Cores :
                 /\ taken \subseteq Offered(a) /\ Sends(a, Answers(a, taken))
                 /\ Captures(a, taken)
<1>. DEFINE view == plan[a].offers
<1>h. a \in Holders
  BY Threads
<1>0. /\ pc[a] = "responses" /\ out[a] = <<>> /\ plan[a].awaited = 0
      /\ pc' = [pc EXCEPT ![a] = "round over"]
      /\ UNCHANGED <<queue, reserved, request>>
  BY DEF TakeOver, At, Goto
<1>m. /\ MailTypes /\ MailTypes' /\ AgentTypes /\ InHand(a) /\ plan[a] \in Plans
      /\ TokenInv /\ ApartInv /\ HolderInv
  BY <1>h, AgentParts DEF EInv, CoreInv
<1>k. plan[a].core # None /\ plan[a].core \in Cores /\ request[a] = NoRequest /\ view \in Offers
  <2>1. plan[a].core # None /\ request[a] = NoRequest
    BY <1>0, <1>m, InHandParts DEF PlanInHand, Planning, RequestInHand, Managing
  <2>. QED
    BY <2>1, <1>m DEF Plans
<1>1. PICK taken \in SUBSET Offered(a) :
          /\ Sends(a, Answers(a, taken))
          /\ owned' = [owned EXCEPT ![a] = @ \union taken]
          /\ plan' = [plan EXCEPT ![a] = Planned(plan[a].core, Cardinality(taken))]
  BY DEF TakeOver
<1>t. taken \subseteq Cores /\ taken \subseteq DOMAIN view /\ \A c \in DOMAIN view : view[c] \in Holders
  BY <1>k, OffersAreViews DEF Offered
<1>2. /\ plan'[a].core = plan[a].core /\ plan'[a].awaited = 0 /\ plan'[a].offers = <<>>
      /\ \A b \in Holders \ {a} : plan'[b] = plan[b]
  <2>1. plan'[a] = Planned(plan[a].core, Cardinality(taken))
        /\ \A b \in Holders \ {a} : plan'[b] = plan[b]
    BY <1>1, <1>h, <1>m DEF AgentTypes
  <2>. QED
    BY <2>1 DEF Planned
<1>o. /\ owned'[a] = owned[a] \union taken
      /\ \A h \in Holders : h # a => owned'[h] = owned[h]
  BY <1>1, <1>h, <1>m DEF AgentTypes
<1>3. /\ Kept(Dealings) /\ (UnderWay(Misled) = 0)'
      /\ \A c \in Cores, h \in Holders :
            /\ UnderWay(Tokens(c, h))'
                  = UnderWay(Tokens(c, h)) + (IF Says(view, c, h) THEN 1 ELSE 0)
            /\ UnderWay(Acceptances(c, h))' = UnderWay(Acceptances(c, h))
                  + (IF Says(view, c, h) /\ c \in taken THEN 1 ELSE 0)
  BY <1>0, <1>1, <1>h, <1>m, <1>k, AnswerMail DEF CoreInv
<1>4. /\ Active(a) /\ Electing = {} /\ reserved[a] = {}
      /\ \A b \in Agents : Active(b) <=> b = a
  <2>1. Active(a)
    BY <1>k DEF Active
  <2>. QED
    BY <2>1, InvaderIsAlone DEF CoreInv, FreeInv
<1>5. ElsewhereSame(a) /\ OrderInv'
  BY <1>0, <1>2 DEF ElsewhereSame, CoreInv, OrderInv
<1>6. DueInv' /\ InvaderInv'
  <2>1. \A b \in Holders :
              /\ request'[b].invader = request[b].invader /\ request'[b].left = request[b].left
              /\ plan'[b].awaited = plan[b].awaited
              /\ plan'[b].core = None => plan[b].core = None
    BY <1>0, <1>2
  <2>. QED
    BY <1>3, <2>1, DueStays DEF CoreInv
<1>7. TokenInv'
  <2>1. ASSUME NEW c \in Cores, NEW h \in Holders
        PROVE  UnderWay(Tokens(c, h))'
                 + (IF Says(request'[a].response, c, h) THEN 1 ELSE 0)
                 + (IF Says(plan'[a].offers, c, h) THEN 1 ELSE 0)
                 + (IF c \in reserved[h] THEN 1 ELSE 0)
              = UnderWay(Tokens(c, h))
                 + (IF Says(request[a].response, c, h) THEN 1 ELSE 0)
                 + (IF Says(plan[a].offers, c, h) THEN 1 ELSE 0)
                 + (IF c \in reserved'[h] THEN 1 ELSE 0)
    <3>1. /\ UnderWay(Tokens(c, h)) \in Nat
          /\ UnderWay(Tokens(c, h))'
                = UnderWay(Tokens(c, h)) + (IF Says(plan[a].offers, c, h) THEN 1 ELSE 0)
      BY <1>3, <1>m, UnderWayType
    <3>2. /\ ~ Says(plan'[a].offers, c, h)
          /\ Says(request'[a].response, c, h) <=> Says(request[a].response, c, h)
          /\ reserved' = reserved
      <4>1. ~ Says(plan'[a].offers, c, h)
        BY <1>2 DEF Says
      <4>. QED
        BY <1>0, <4>1
    <3>. QED
      BY <3>1, <3>2
  <2>. QED
    BY <1>h, <1>5, <2>1, TokensChange DEF CoreInv
<1>8. ReadyInv' /\ FreeInv'
  <2>0. pc'[a] # "electing" /\ \A b \in Holders : b # a => pc'[b] = pc[b]
    BY <1>0, <1>h, <1>m DEF AgentTypes
  <2>1. Electing' = {}
    BY <1>4, <2>0, Threads DEF Electing
  <2>2. ASSUME NEW b \in Agents, Active(b)' PROVE reserved'[b] = {}
    <3>1. CASE b = a
      BY <1>0, <1>4, <3>1
    <3>2. CASE b # a
      <4>1. b \in Holders \ {a} /\ pc'[b] = pc[b]
        BY <2>0, <3>2, Threads
      <4>2. Active(b)
        BY <1>2, <2>2, <4>1 DEF Active
      <4>. QED
        BY <1>4, <3>2, <4>2
    <3>. QED
      BY <3>1, <3>2
  <2>. QED
    BY <2>1, <2>2 DEF ReadyInv, FreeInv
<1>. HIDE DEF view
<1>9. ASSUME NEW c \in Cores, NEW h \in Holders
      PROVE  Released(h, c)' <=> Released(h, c) \/ (Says(view, c, h) /\ c \in taken)
  <2>1. /\ Released(h, c) <=> UnderWay(Acceptances(c, h)) # 0
        /\ Released(h, c)' <=> UnderWay(Acceptances(c, h))' # 0
    BY <1>m, ReleasedIsUnderWay, ReleasedNext
  <2>2. UnderWay(Acceptances(c, h)) \in Nat
    BY <1>m, UnderWayType
  <2>3. UnderWay(Acceptances(c, h))' = UnderWay(Acceptances(c, h))
                  + (IF Says(view, c, h) /\ c \in taken THEN 1 ELSE 0)
    BY <1>3
  <2>. QED
    BY <2>1, <2>2, <2>3
<1>10. ASSUME NEW c \in Cores, NEW h \in Holders
       PROVE  Has(h, c)' <=> IF c \in taken THEN h = a ELSE Has(h, c)
  <2>1. CASE c \notin taken
    <3>1. Released(h, c)' <=> Released(h, c)
      BY <1>9, <2>1
    <3>2. c \in owned'[h] <=> c \in owned[h]
      BY <1>o, <2>1
    <3>. QED
      BY <1>0, <2>1, <3>1, <3>2 DEF Has
  <2>2. CASE c \in taken
    <3>. DEFINE k == view[c]
    <3>1. k \in Holders /\ Says(view, c, k) /\ \A g : Says(view, c, g) => g = k
      BY <1>t, <2>2 DEF Says
    <3>. HIDE DEF k
    <3>2. HeldBy(k, c)
      <4>1. Says(plan[a].offers, c, k)
        BY <3>1 DEF view
      <4>. QED
        BY <1>h, <1>m, <3>1, <4>1, ClaimIsHeld
    <3>3. k # a
      BY <1>4, <3>2 DEF HeldBy
    <3>4. CASE h = a
      <4>1. c \in owned'[h]
        BY <1>o, <2>2, <3>4
      <4>. QED
        BY <2>2, <3>4, <4>1 DEF Has
    <3>5. CASE h = k
      <4>1. Released(h, c)'
        BY <1>9, <2>2, <3>1, <3>5
      <4>2. c \notin owned'[h]
        BY <1>o, <3>2, <3>3, <3>5 DEF HeldBy
      <4>. QED
        BY <2>2, <3>3, <3>5, <4>1, <4>2 DEF Has
    <3>6. CASE h # a /\ h # k
      <4>1. ~ Has(h, c)
        BY <1>m, <3>1, <3>2, <3>6, HolderIsUnique DEF HeldBy
      <4>2. Released(h, c)' <=> Released(h, c)
        BY <1>9, <3>1, <3>6
      <4>3. c \in owned'[h] <=> c \in owned[h]
        BY <1>o, <3>6
      <4>. QED
        BY <1>0, <2>2, <3>6, <4>1, <4>2, <4>3 DEF Has
    <3>. QED
      BY <3>4, <3>5, <3>6
  <2>. QED
    BY <2>1, <2>2
<1>11. Captures(a, taken)
  BY <1>10 DEF Captures
<1>12. HolderInv'
  <2>1. ASSUME NEW c \in Cores
        PROVE  /\ \E h \in Holders : Has(h, c)'
               /\ \A h, k \in Holders : Has(h, c)' /\ Has(k, c)' => h = k
    <3>1. CASE c \in taken
      BY <1>10, <1>h, <3>1
    <3>2. CASE c \notin taken
      BY <1>10, <1>m, <3>2 DEF HolderInv
    <3>. QED
      BY <3>1, <3>2
  <2>. QED
    BY <2>1 DEF HolderInv
<1>13. ApartInv'
  <2>1. ASSUME NEW h \in Holders PROVE owned'[h] \cap reserved'[h] = {}
    <3>1. CASE h = a
      BY <1>0, <1>4, <3>1
    <3>2. CASE h # a
      BY <1>0, <1>o, <1>m, <3>2 DEF ApartInv
    <3>. QED
      BY <3>1, <3>2
  <2>. QED
    BY <2>1 DEF ApartInv
<1>. QED
  BY <1>1, <1>3, <1>4, <1>5, <1>6, <1>7, <1>8, <1>11, <1>12, <1>13, <1>t DEF CoreInv

-----------------------------------------------------------------------------
(* Between two rounds nothing is under way but answers.                    *)
InDealings == {p \in Mailboxes \X Messages : p[2].kind \in Dealings}
NothingDue == \A x \in Agents : plan[x].core # None => plan[x].awaited = 0 /\ request[x].left = 0

LEMMA NobodyManages ==
    ASSUME EInv, CoreInv, NothingDue, NEW h \in Holders
    PROVE  request[h] = NoRequest
<1>0. /\ request[h].invader \in Agents \union {None} /\ RequestInHand(pc[h], request[h])
      /\ DueInv /\ InvaderInv /\ MailTypes
  BY AgentParts, InHandParts DEF Requests, CoreInv
<1>1. ASSUME NEW x \in Agents PROVE ManagersFor(x) = {}
  <2>h. x \in Holders
    BY Threads
  <2>1. CASE plan[x].core = None
    BY <1>0, <2>1 DEF InvaderInv
  <2>2. CASE plan[x].core # None
    <3>1. plan[x].awaited = 0 /\ request[x].left = 0
      BY <2>2 DEF NothingDue
    <3>2. UnderWay(Due(x)) + Cardinality(ManagersFor(x)) = 0 + 0
      BY <1>0, <2>h, <3>1 DEF DueInv
    <3>3. UnderWay(Due(x)) \in Nat /\ ManagersFor(x) \subseteq Holders
      BY <1>0, UnderWayType DEF ManagersFor
    <3>. QED
      BY <3>2, <3>3, HoldersAreCounted
  <2>. QED
    BY <2>1, <2>2
<1>2. request[h].invader = None
  <2>1. ASSUME request[h].invader \in Agents PROVE FALSE
    <3>1. h \in ManagersFor(request[h].invader)
      BY DEF ManagersFor
    <3>. QED
      BY <1>1, <2>1, <3>1
  <2>. QED
    BY <1>0, <2>1
<1>. QED
  BY <1>0, <1>2 DEF RequestInHand

LEMMA NoDealings ==
    ASSUME EInv, CoreInv, NothingDue
    PROVE  UnderWay(InDealings) = 0
<1>m. MailTypes /\ DueInv /\ UnderWay(Misled) = 0
  BY DEF EInv, CoreInv
<1>1. ASSUME NEW b \in Holders PROVE UnderWay(Due(b)) = 0
  <2>1. request[b].left = 0
    BY NobodyManages DEF NoRequest, Handling
  <2>2. plan[b].awaited = 0
    <3>1. PlanInHand(b, pc[b], plan[b])
      BY AgentParts, InHandParts
    <3>2. CASE plan[b].core = None
      <4>1. plan[b] = NoPlan
        BY <3>1, <3>2 DEF PlanInHand
      <4>. QED
        BY <4>1 DEF NoPlan, Planned
    <3>3. CASE plan[b].core # None
      <4>1. b \in Agents
        BY <3>1, <3>3 DEF PlanInHand
      <4>. QED
        BY <3>3, <4>1 DEF NothingDue
    <3>. QED
      BY <3>2, <3>3
  <2>3. UnderWay(Due(b)) + Cardinality(ManagersFor(b)) = 0 + 0
    BY <1>m, <2>1, <2>2 DEF DueInv
  <2>4. UnderWay(Due(b)) \in Nat /\ ManagersFor(b) \subseteq Holders
    BY <1>m, UnderWayType DEF ManagersFor
  <2>. QED
    BY <2>3, <2>4, HoldersAreCounted
<1>2. ASSUME NEW r \in Mailboxes, NEW m \in Messages, <<r, m>> \in InDealings
      PROVE  <<r, m>> \in Misled \/ \E b \in Holders : <<r, m>> \in Due(b)
  <2>0. m.kind \in Dealings /\ Agents \subseteq Holders
    BY <1>2, Threads DEF InDealings
  <2>1. CASE m.kind = "OFFER"
    <3>1. r \notin Holders => <<r, m>> \in Misled
      BY <2>1, DuePairs
    <3>2. r \in Holders => <<r, m>> \in Due(r)
      BY <2>1, DuePairs
    <3>. QED
      BY <3>1, <3>2
  <2>2. CASE m.kind \in {"MAKE_OFFER", "REQUEST"}
    <3>1. m.from \in Holders
      BY <2>0, <2>2, MessageParts
    <3>2. <<r, m>> \in Due(m.from)
      BY <2>2, DuePairs
    <3>. QED
      BY <3>1, <3>2
  <2>3. CASE m.kind = "FORWARD"
    <3>1. m.invader \in Holders
      BY <2>0, <2>3, MessageParts
    <3>2. <<r, m>> \in Due(m.invader)
      BY <2>3, DuePairs
    <3>. QED
      BY <3>1, <3>2
  <2>. QED
    BY <2>0, <2>1, <2>2, <2>3 DEF Dealings
<1>3. ASSUME NEW r \in Mailboxes, NEW i \in DOMAIN queue[r]
      PROVE  <<r, queue[r][i]>> \notin InDealings
  <2>1. queue[r] \in Seq(Messages)
    BY <1>m DEF MailTypes
  <2>2. queue[r][i] \in Messages
    BY <2>1
  <2>3. <<r, queue[r][i]>> \notin Misled
    BY <1>m, NoneUnderWay
  <2>4. ASSUME NEW b \in Holders PROVE <<r, queue[r][i]>> \notin Due(b)
    <3>1. UnderWay(Due(b)) = 0
      BY <1>1
    <3>. QED
      BY <1>m, <3>1, NoneUnderWay
  <2>. QED
    BY <1>2, <2>2, <2>3, <2>4
<1>4. ASSUME NEW a \in Holders, NEW i \in DOMAIN out[a]
      PROVE  <<out[a][i].to, out[a][i].msg>> \notin InDealings
  <2>1. out[a] \in Seq(Posts)
    BY <1>m DEF MailTypes
  <2>2. out[a][i] \in Posts
    BY <2>1
  <2>3. out[a][i].to \in Mailboxes /\ out[a][i].msg \in Messages
    BY <2>2 DEF Posts
  <2>4. <<out[a][i].to, out[a][i].msg>> \notin Misled
    BY <1>m, NoneUnderWay
  <2>5. ASSUME NEW b \in Holders PROVE <<out[a][i].to, out[a][i].msg>> \notin Due(b)
    <3>1. UnderWay(Due(b)) = 0
      BY <1>1
    <3>. QED
      BY <1>m, <3>1, NoneUnderWay
  <2>. QED
    BY <1>2, <2>3, <2>4, <2>5
<1>. QED
  BY <1>m, <1>3, <1>4, NoneUnderWay

LEMMA EndRoundIsSafe ==
    ASSUME EInv, EInv', CoreInv, NEW a \in Agents, EndRound(a)
    PROVE  CoreInv' /\ SameHolders /\ Active(a) /\ invading_agent' = None
<1>. DEFINE kind == IF rounds < MaxRounds * N THEN "INVADE" ELSE "END"
            place == IF rounds < MaxRounds * N THEN "loop" ELSE "ending"
            list == ToAll(kind, a)
<1>h. a \in Holders
  BY Threads
<1>0. /\ pc[a] = "round over" /\ out[a] = <<>>
      /\ plan' = [plan EXCEPT ![a] = NoPlan] /\ pc' = [pc EXCEPT ![a] = place]
      /\ UNCHANGED <<queue, owned, reserved, request>>
      /\ Sends(a, list) /\ invading_agent' = None
  BY DEF EndRound, At, NewElection, Goto
<1>k. kind \in {"INVADE", "END"} /\ place \in {"loop", "ending"}
  OBVIOUS
<1>m. /\ MailTypes /\ MailTypes' /\ AgentTypes /\ InHand(a) /\ request[a] = NoRequest
      /\ plan[a].core # None /\ plan[a].awaited = 0 /\ plan[a].offers = <<>>
  <2>1. MailTypes /\ MailTypes' /\ AgentTypes /\ InHand(a)
    BY <1>h, AgentParts DEF EInv
  <2>2. request[a] = NoRequest
    BY <1>0, <2>1, InHandParts DEF RequestInHand, Managing
  <2>3. plan[a].core # None /\ plan[a].awaited = 0 /\ plan[a].offers = <<>>
    BY <1>0, <2>1, InHandParts DEF PlanInHand, Planning
  <2>. QED
    BY <2>1, <2>2, <2>3
<1>1. list \in Seq(Posts) /\ \A i \in DOMAIN list : list[i].msg.kind \in {"INVADE", "END"}
  <2>1. /\ list \in Seq(Posts) /\ DOMAIN list = Agents
        /\ \A b \in Agents : list[b].msg = [kind |-> kind, from |-> a]
    BY <1>h, <1>k, ToAllType
  <2>. HIDE DEF list, kind
  <2>. QED
    BY <1>k, <2>1
<1>. HIDE DEF list, kind, place
<1>2. Kept(Business)
  <2>1. \A i \in DOMAIN list : list[i].msg.kind \notin Business
    BY <1>1 DEF Business
  <2>. QED
    BY <1>0, <1>h, <1>m, <1>1, <2>1, FillKeeps
<1>3. Kept(Dealings) /\ Kept(Claims) /\ Kept({"ACCEPT", "REJECT"}) /\ Kept({"ACCEPT"})
  BY <1>2, FewerKinds DEF Business, Dealings, Claims
<1>4. /\ Active(a) /\ \A b \in Agents : Active(b) <=> b = a
  <2>1. Active(a)
    BY <1>m DEF Active
  <2>. QED
    BY <2>1, InvaderIsAlone
<1>5. /\ plan'[a].core = None /\ plan'[a].awaited = 0 /\ plan'[a].offers = <<>>
      /\ \A b \in Holders \ {a} : plan'[b] = plan[b]
      /\ pc'[a] = place /\ \A b \in Holders \ {a} : pc'[b] = pc[b]
  <2>1. plan'[a] = NoPlan /\ \A b \in Holders \ {a} : plan'[b] = plan[b]
    BY <1>0, <1>h, <1>m DEF AgentTypes
  <2>2. pc'[a] = place /\ \A b \in Holders \ {a} : pc'[b] = pc[b]
    BY <1>0, <1>h, <1>m DEF AgentTypes
  <2>. QED
    BY <2>1, <2>2 DEF NoPlan, Planned
<1>6. NothingDue
  <2>1. ASSUME NEW x \in Agents, plan[x].core # None
        PROVE  plan[x].awaited = 0 /\ request[x].left = 0
    <3>1. x = a
      BY <1>4, <2>1 DEF Active
    <3>. QED
      BY <1>m, <3>1 DEF NoRequest, Handling
  <2>. QED
    BY <2>1 DEF NothingDue
<1>7. \A h \in Holders : request[h].invader = None
  BY <1>6, NobodyManages DEF NoRequest, Handling
<1>8. DueInv'
  <2>1. ASSUME NEW b \in Holders
        PROVE  UnderWay(Due(b))' = UnderWay(Due(b)) /\ ManagersFor(b)' = ManagersFor(b)
    <3>1. \A p \in Due(b) : p[2].kind \in Dealings
      BY DEF Due, Dealings
    <3>2. ManagersFor(b)' = ManagersFor(b)
      BY <1>0 DEF ManagersFor
    <3>. QED
      BY <1>3, <3>1, <3>2 DEF Kept
  <2>2. ASSUME NEW b \in Holders PROVE plan'[b].awaited = plan[b].awaited
    BY <1>5, <1>m
  <2>. QED
    BY <1>0, <2>1, <2>2 DEF CoreInv, DueInv
<1>9. InvaderInv'
  <2>1. ASSUME NEW x \in Agents PROVE UnderWay(ForInvader(x))' = 0 /\ ManagersFor(x)' = {}
    <3>1. \A p \in ForInvader(x) : p[2].kind \in Dealings /\ p \in InDealings
      BY DEF ForInvader, Dealings, InDealings
    <3>2. UnderWay(ForInvader(x)) = 0
      BY <1>6, <1>m, <3>1, NoDealings, NoneOfFewer
    <3>3. UnderWay(ForInvader(x))' = UnderWay(ForInvader(x))
      BY <1>3, <3>1 DEF Kept
    <3>4. ManagersFor(x)' = {}
      BY <1>0, <1>7, Threads DEF ManagersFor
    <3>. QED
      BY <3>2, <3>3, <3>4
  <2>. QED
    BY <2>1 DEF InvaderInv
<1>10. (UnderWay(Misled) = 0)'
  BY <1>2, MisledStays DEF CoreInv
<1>11. TokenInv'
  <2>1. ASSUME NEW b \in Holders
        PROVE  request'[b].response = request[b].response /\ plan'[b].offers = plan[b].offers
    BY <1>0, <1>5, <1>m
  <2>. QED
    BY <1>0, <1>3, <2>1, TokensStay DEF CoreInv
<1>12. SameHolders /\ HolderInv' /\ ApartInv'
  BY <1>0, <1>m, <1>3, PossessionsStay, HoldersStay, ApartStays DEF CoreInv
<1>13. ReadyInv' /\ FreeInv' /\ OrderInv'
  <2>1. Electing' \subseteq Electing
    BY <1>5, <1>k, Threads DEF Electing
  <2>2. ASSUME NEW b \in Agents, Active(b)' PROVE FALSE
    <3>1. CASE b = a
      BY <1>5, <1>k, <2>2, <3>1 DEF Active
    <3>2. CASE b # a
      <4>1. b \in Holders \ {a}
        BY <3>2, Threads
      <4>. QED
        BY <1>4, <1>5, <2>2, <3>2, <4>1 DEF Active
    <3>. QED
      BY <3>1, <3>2
  <2>. QED
    BY <1>0, <1>3, <2>1, <2>2, ReadyStays DEF CoreInv, FreeInv, OrderInv
<1>. QED
  BY <1>0, <1>4, <1>8, <1>9, <1>10, <1>11, <1>12, <1>13 DEF CoreInv

(* Who asks to invade has read all answers, for they come before the       *)
(* invitation, and once nobody invades there are no new ones.              *)
LEMMA AllAnswersRead ==
    ASSUME EInv, CoreInv, NEW a \in Agents, CanTake(a), pc[a] = "loop",
           Message(a).kind = "INVADE", \A b \in Agents : ~ Active(b)
    PROVE  UnderWay(AnswersTo(a)) = 0
<1>. DEFINE k == FirstAcceptable(queue[a], Accepts("loop"))
<1>m. /\ MailTypes /\ a \in Holders /\ a \in Mailboxes /\ queue[a] \in Seq(Messages)
      /\ Ordered(queue[a])
  BY AgentMailbox DEF EInv, CoreInv, OrderInv
<1>1. /\ k \in 1 .. Len(queue[a]) /\ queue[a][k].kind = "INVADE"
      /\ \A i \in 1 .. k - 1 : queue[a][i].kind \notin Accepts("loop")
  <2>1. Acceptable(queue[a], Accepts("loop")) # {}
    BY DEF CanTake
  <2>2. queue[a][k].kind = "INVADE"
    BY DEF Message, Found
  <2>. QED
    BY <1>m, <2>1, <2>2, FirstAcceptableProperties
<1>2. {"ACCEPT", "REJECT"} \subseteq Accepts("loop")
  BY DEF Accepts
<1>. HIDE DEF k
<1>3. ASSUME NEW r \in Mailboxes, NEW i \in DOMAIN queue[r]
      PROVE  <<r, queue[r][i]>> \notin AnswersTo(a)
  <2>1. SUFFICES ASSUME r = a, IsAnswer(queue[a][i]) PROVE FALSE
    BY DEF AnswersTo
  <2>2. k \in DOMAIN queue[a] /\ i \in DOMAIN queue[a] /\ i \in Nat /\ k \in Nat
        /\ i \in 1 .. Len(queue[a])
    BY <1>m, <1>1, <2>1
  <2>3. CASE i < k
    <3>1. i \in 1 .. k - 1
      BY <2>2, <2>3
    <3>. QED
      BY <1>1, <1>2, <2>1, <3>1 DEF IsAnswer
  <2>4. CASE i = k
    BY <1>1, <2>1, <2>4 DEF IsAnswer
  <2>5. CASE k < i
    BY <1>m, <1>1, <2>1, <2>2, <2>5 DEF Ordered
  <2>. QED
    BY <2>2, <2>3, <2>4, <2>5
<1>4. ASSUME NEW b \in Holders, NEW i \in DOMAIN out[b]
      PROVE  <<out[b][i].to, out[b][i].msg>> \notin AnswersTo(a)
  <2>1. SUFFICES ASSUME IsAnswer(out[b][i].msg) PROVE FALSE
    BY DEF AnswersTo
  <2>2. OutInHand(b, pc[b], out[b]) /\ PlanInHand(b, pc[b], plan[b])
    BY AgentParts, InHandParts
  <2>3. pc[b] = "round over"
    BY <2>1, <2>2 DEF OutInHand, Outgoing, IsAnswer
  <2>4. plan[b].core # None /\ b \in Agents
    BY <2>2, <2>3 DEF PlanInHand, Planning
  <2>. QED
    BY <2>4 DEF Active
<1>. QED
  BY <1>m, <1>3, <1>4, NoneUnderWay

(* Who has read all answers has nothing put aside.                         *)
LEMMA NothingIsAside ==
    ASSUME EInv, CoreInv, NEW b \in Agents, \A x \in Agents : ~ Active(x),
           UnderWay(AnswersTo(b)) = 0
    PROVE  reserved[b] = {}
<1>h. b \in Holders
  BY Threads
<1>m. MailTypes /\ TokenInv /\ reserved[b] \subseteq Cores
  BY <1>h, AgentParts DEF CoreInv
<1>1. NothingDue
  BY DEF Active, NothingDue
<1>2. ASSUME NEW h \in Holders PROVE request[h].response = <<>> /\ plan[h].offers = <<>>
  <2>1. request[h] = NoRequest
    BY <1>1, NobodyManages
  <2>2. PlanInHand(h, pc[h], plan[h])
    BY AgentParts, InHandParts
  <2>3. plan[h].core = None
    BY <2>2 DEF PlanInHand, Active
  <2>4. plan[h] = NoPlan
    BY <2>2, <2>3 DEF PlanInHand
  <2>. QED
    BY <2>1, <2>4 DEF NoRequest, Handling, NoPlan, Planned
<1>3. UnderWay(InDealings) = 0
  BY <1>1, NoDealings
<1>4. ASSUME NEW c \in reserved[b] PROVE FALSE
  <2>1. UnderWay(Tokens(c, b)) = 0
    <3>1. ASSUME NEW p \in Tokens(c, b)
          PROVE  p \in InDealings \/ p \in AnswersTo(b)
      BY DEF Tokens, InDealings, Dealings, AnswersTo, IsAnswer
    <3>2. /\ \A r \in Mailboxes : \A i \in DOMAIN queue[r] :
                <<r, queue[r][i]>> \notin InDealings /\ <<r, queue[r][i]>> \notin AnswersTo(b)
          /\ \A a \in Holders : \A i \in DOMAIN out[a] :
                /\ <<out[a][i].to, out[a][i].msg>> \notin InDealings
                /\ <<out[a][i].to, out[a][i].msg>> \notin AnswersTo(b)
      BY <1>3, <1>m, NoneUnderWay
    <3>3. /\ \A r \in Mailboxes : \A i \in DOMAIN queue[r] : <<r, queue[r][i]>> \notin Tokens(c, b)
          /\ \A a \in Holders : \A i \in DOMAIN out[a] :
                <<out[a][i].to, out[a][i].msg>> \notin Tokens(c, b)
      BY <3>1, <3>2
    <3>. QED
      BY <1>m, <3>3, NoneUnderWay
  <2>2. Responding(c, b) = {} /\ Collecting(c, b) = {}
    BY <1>2 DEF Responding, Collecting, Says
  <2>3. Cardinality(Responding(c, b)) = 0 /\ Cardinality(Collecting(c, b)) = 0
    BY <2>2, FS_EmptySet
  <2>4. UnderWay(Tokens(c, b)) + Cardinality(Responding(c, b)) + Cardinality(Collecting(c, b)) = 1
    BY <1>h, <1>m DEF TokenInv
  <2>. QED
    BY <2>1, <2>3, <2>4
<1>. QED
  BY <1>4

LEMMA InvadeIsSafe ==
    ASSUME EInv, EInv', CoreInv, NEW a \in Agents, Invade(a)
    PROVE  CoreInv' /\ SameHolders
<1>h. a \in Holders
  BY Threads
<1>0. /\ CanTake(a) /\ Message(a).kind = "INVADE" /\ pc[a] = "loop" /\ queue' = Taken(a)
      /\ UNCHANGED <<out, owned, reserved, request, plan>> /\ UNCHANGED main
  BY DEF Invade, Takes, mainVars
<1>m. MailTypes /\ MailTypes' /\ AgentTypes
  BY DEF EInv
<1>1. \A b \in Agents : ~ Active(b)
  <2>1. Gathering
    BY <1>0, InvitedBeforeAllAsked
  <2>. QED
    BY <2>1 DEF Gathering
<1>2. /\ Kept(Business) /\ Kept(Dealings) /\ Kept(Claims) /\ Kept({"ACCEPT", "REJECT"})
      /\ Kept({"ACCEPT"}) /\ OrderInv'
  <2>1. Message(a).kind \notin Business
    BY <1>0 DEF Business
  <2>2. Kept(Business) /\ OrderInv'
    BY <1>0, <1>h, <1>m, <2>1, ReceiveKeeps, OrderReceive DEF CoreInv
  <2>. QED
    BY <2>2, FewerKinds DEF Business, Dealings, Claims
<1>3. \A b \in Holders : b # a /\ pc[b] # "electing" => pc'[b] = pc[b]
  BY <1>h, <1>m DEF Invade, Goto, AgentTypes
<1>5. UnderWay(AnswersTo(a)) = 0
  BY <1>0, <1>1, AllAnswersRead
<1>6. \A b \in Electing : UnderWay(AnswersTo(b)) = 0
  BY DEF CoreInv, ReadyInv
<1>7. DueInv' /\ InvaderInv'
  BY <1>0, <1>2, DueStays DEF CoreInv
<1>8. TokenInv' /\ (UnderWay(Misled) = 0)'
  BY <1>0, <1>2, TokensStay, MisledStays DEF CoreInv
<1>9. SameHolders /\ HolderInv' /\ ApartInv'
  BY <1>0, <1>m, <1>2, PossessionsStay, HoldersStay, ApartStays DEF CoreInv
<1>10. ReadyInv'
  <2>1. ASSUME NEW b \in Electing' PROVE UnderWay(AnswersTo(b))' = 0
    <3>1. b \in Electing \/ b = a
      BY <1>3, <2>1, Threads DEF Electing
    <3>2. UnderWay(AnswersTo(b)) = 0
      BY <1>5, <1>6, <3>1
    <3>3. \A p \in AnswersTo(b) : p[2].kind \in {"ACCEPT", "REJECT"}
      BY DEF AnswersTo, IsAnswer
    <3>. QED
      BY <1>2, <3>2, <3>3 DEF Kept
  <2>. QED
    BY <2>1 DEF ReadyInv
<1>11. FreeInv'
  <2>1. ASSUME NEW b \in Agents, Active(b)' PROVE reserved'[b] = {}
    <3>1. b \in Electing \/ b = a
      <4>1. pc[b] # "seed" /\ plan[b].core = None
        BY <1>1 DEF Active
      <4>2. pc'[b] = "seed"
        BY <1>0, <2>1, <4>1 DEF Active
      <4>. QED
        BY <1>3, <4>1, <4>2, Threads DEF Electing
    <3>2. UnderWay(AnswersTo(b)) = 0
      BY <1>5, <1>6, <3>1
    <3>3. reserved[b] = {}
      BY <1>1, <3>2, NothingIsAside
    <3>. QED
      BY <1>0, <3>3
  <2>. QED
    BY <2>1 DEF FreeInv
<1>. QED
  BY <1>2, <1>7, <1>8, <1>9, <1>10, <1>11 DEF CoreInv

-----------------------------------------------------------------------------
(* The start.                                                              *)
LEMMA OnlyRegistrations ==
    ASSUME Init, MailTypes
    PROVE  \A P : (\A p \in P : p[2].kind # "REGISTER") => UnderWay(P) = 0
<1>1. PICK owner \in InitialOwners :
          /\ queue = [r \in Holders \union Directories |->
                         IF r \in Directories THEN Registrations(owner, r) ELSE <<>>]
          /\ out = [a \in Holders |-> <<>>]
  BY DEF Init
<1>2. owner \in [Cores -> Agents \union {Null}]
  BY InitialAssumption
<1>3. ASSUME NEW r \in Mailboxes, NEW i \in DOMAIN queue[r]
      PROVE  queue[r][i].kind = "REGISTER"
  <2>1. CASE r \notin Directories
    <3>1. queue[r] = <<>>
      BY <1>1, <2>1 DEF Mailboxes
    <3>. QED
      BY <1>3, <3>1
  <2>2. CASE r \in Directories
    <3>1. queue[r] = Registrations(owner, r)
      BY <1>1, <2>2
    <3>2. /\ Registrations(owner, r) \in Seq(Messages)
          /\ \A j \in DOMAIN Registrations(owner, r) : \E c \in Cores :
                Registrations(owner, r)[j]
                   = Register(IF owner[c] = Null THEN Idle ELSE owner[c], c).msg
      BY <1>2, RegistrationsType
    <3>3. \A x, c : Register(x, c).msg.kind = "REGISTER"
      BY DEF Register
    <3>. QED
      BY <1>3, <3>1, <3>2, <3>3
  <2>. QED
    BY <2>1, <2>2
<1>4. ASSUME NEW P, \A p \in P : p[2].kind # "REGISTER"
      PROVE  UnderWay(P) = 0
  <2>1. \A r \in Mailboxes : \A i \in DOMAIN queue[r] : <<r, queue[r][i]>> \notin P
    BY <1>3, <1>4
  <2>2. \A b \in Holders : \A i \in DOMAIN out[b] : <<out[b][i].to, out[b][i].msg>> \notin P
    BY <1>1
  <2>. QED
    BY <2>1, <2>2, NoneUnderWay
<1>. QED
  BY <1>4

LEMMA InitiallyOwned ==
    ASSUME Init, EInv
    PROVE  HolderInv /\ ApartInv /\ \A h \in Holders : reserved[h] = {}
<1>1. PICK owner \in InitialOwners :
          /\ owned = [a \in Holders |->
                         {c \in Cores : owner[c] = (IF a = Idle THEN Null ELSE a)}]
          /\ reserved = [a \in Holders |-> {}]
  BY DEF Init
<1>2. owner \in [Cores -> Agents \union {Null}]
  BY InitialAssumption
<1>3. ASSUME NEW h \in Holders, NEW c \in Cores
      PROVE  Has(h, c) <=> owner[c] = (IF h = Idle THEN Null ELSE h)
  BY <1>1 DEF Has
<1>4. ASSUME NEW c \in Cores
      PROVE  /\ \E h \in Holders : Has(h, c)
             /\ \A h, k \in Holders : Has(h, c) /\ Has(k, c) => h = k
  <2>1. CASE owner[c] = Null
    <3>1. \A h \in Holders : Has(h, c) <=> h = Idle
      BY <1>3, <2>1, Threads
    <3>. QED
      BY <3>1, Threads
  <2>2. CASE owner[c] # Null
    <3>1. owner[c] \in Agents /\ owner[c] \in Holders /\ owner[c] # Idle
      BY <1>2, <2>2, Threads
    <3>2. \A h \in Holders : Has(h, c) <=> h = owner[c]
      BY <1>3, <2>2, <3>1
    <3>. QED
      BY <3>1, <3>2
  <2>. QED
    BY <2>1, <2>2
<1>. QED
  BY <1>1, <1>4 DEF HolderInv, ApartInv

LEMMA InitEstablishesCoreInv ==
    ASSUME Init, EInv
    PROVE  CoreInv
<1>0. /\ pc = [a \in Holders |-> "loop"]
      /\ request = [a \in Holders |-> NoRequest]
      /\ plan = [a \in Holders |-> NoPlan]
  BY DEF Init
<1>m. MailTypes /\ Agents \subseteq Holders
  BY Threads DEF EInv
<1>1. \A P : (\A p \in P : p[2].kind # "REGISTER") => UnderWay(P) = 0
  BY <1>m, OnlyRegistrations
<1>2. HolderInv /\ ApartInv /\ \A h \in Holders : reserved[h] = {}
  BY InitiallyOwned
<1>3. \A b \in Holders : /\ request[b] = NoRequest /\ plan[b] = NoPlan /\ pc[b] = "loop"
  BY <1>0
<1>4. /\ NoRequest.invader = None /\ NoRequest.left = 0 /\ NoRequest.response = <<>>
      /\ NoPlan.core = None /\ NoPlan.awaited = 0 /\ NoPlan.offers = <<>>
  BY DEF NoRequest, Handling, NoPlan, Planned
<1>5. DueInv
  <2>1. ASSUME NEW b \in Holders
        PROVE  UnderWay(Due(b)) = 0 /\ Cardinality(ManagersFor(b)) = 0
    <3>1. UnderWay(Due(b)) = 0
      BY <1>1 DEF Due
    <3>2. ManagersFor(b) = {}
      BY <1>3, <1>4, NoneIsNobody DEF ManagersFor
    <3>. QED
      BY <3>1, <3>2, FS_EmptySet
  <2>. QED
    BY <1>3, <1>4, <2>1 DEF DueInv
<1>6. InvaderInv
  <2>1. ASSUME NEW x \in Agents
        PROVE  UnderWay(ForInvader(x)) = 0 /\ ManagersFor(x) = {}
    <3>1. UnderWay(ForInvader(x)) = 0
      BY <1>1 DEF ForInvader
    <3>2. ManagersFor(x) = {}
      BY <1>m, <1>3, <1>4, NoneIsNobody DEF ManagersFor
    <3>. QED
      BY <3>1, <3>2
  <2>. QED
    BY <2>1 DEF InvaderInv
<1>7. UnderWay(Misled) = 0
  BY <1>1 DEF Misled
<1>8. TokenInv
  <2>1. ASSUME NEW c \in Cores, NEW h \in Holders
        PROVE  UnderWay(Tokens(c, h)) + Cardinality(Responding(c, h))
                  + Cardinality(Collecting(c, h)) = (IF c \in reserved[h] THEN 1 ELSE 0)
    <3>1. UnderWay(Tokens(c, h)) = 0
      BY <1>1 DEF Tokens
    <3>2. Responding(c, h) = {} /\ Collecting(c, h) = {}
      BY <1>3, <1>4 DEF Responding, Collecting, Says
    <3>3. Cardinality(Responding(c, h)) = 0 /\ Cardinality(Collecting(c, h)) = 0
      BY <3>2, FS_EmptySet
    <3>4. c \notin reserved[h]
      BY <1>2
    <3>. QED
      BY <3>1, <3>3, <3>4
  <2>. QED
    BY <2>1 DEF TokenInv
<1>9. OrderInv
  <2>1. ASSUME NEW b \in Agents, NEW i \in DOMAIN queue[b] PROVE ~ IsAnswer(queue[b][i])
    <3>1. UnderWay(AnswersTo(b)) = 0
      BY <1>1 DEF AnswersTo, IsAnswer
    <3>2. b \in Mailboxes /\ queue[b] \in Seq(Messages)
      BY <1>m, MailboxesAreFinite DEF MailTypes
    <3>3. queue[b][i] \in Messages
      BY <2>1, <3>2
    <3>4. <<b, queue[b][i]>> \notin AnswersTo(b)
      BY <1>m, <2>1, <3>1, <3>2, NoneUnderWay
    <3>. QED
      BY <3>2, <3>3, <3>4 DEF AnswersTo
  <2>. QED
    BY <2>1 DEF OrderInv, Ordered
<1>10. ReadyInv
  <2>1. Electing = {}
    BY <1>m, <1>3 DEF Electing
  <2>. QED
    BY <2>1 DEF ReadyInv
<1>11. FreeInv
  BY <1>m, <1>2 DEF FreeInv
<1>. QED
  BY <1>2, <1>5, <1>6, <1>7, <1>8, <1>9, <1>10, <1>11 DEF CoreInv

-----------------------------------------------------------------------------
(* All steps.                                                              *)
LEMMA HolderStepsKeepHolders ==
    ASSUME EInv, EInv', CoreInv, NEW a \in Holders, HolderStep(a)
    PROVE  CoreInv' /\ SameHolders
<1>1. CASE Crash(a)
  BY <1>1, SilentSteps
<1>. QED
  BY <1>1, MakeOfferIsSafe, RequestIsSafe, LocateCoreIsIdle, CoreLocatedIsIdle, ManageIsSafe,
     ForwardIsSafe, ForwardedIsSafe, CollectOfferIsSafe, RespondIsSafe, AcceptedIsSafe,
     RejectedIsSafe, EndIsIdle, SendNextIsIdle DEF HolderStep

LEMMA AgentStepsKeepHolders ==
    ASSUME EInv, EInv', CoreInv, NEW a \in Agents, AgentStep(a), ~ TakeOver(a)
    PROVE  CoreInv' /\ SameHolders
<1>1. CASE EnterRegion(a) \/ LeaveRegion(a) \/ PassBarrier(a)
  BY <1>1, SilentSteps
<1>2. CASE EndRound(a)
  BY <1>2, EndRoundIsSafe
<1>. QED
  BY <1>1, <1>2, InvadeIsSafe, LookForWinnerIsIdle, SeedIsIdle, TryIsIdle, ManageOwnIsSafe,
     LocateCenterIsIdle, CenterLocatedIsSafe, SendRequestIsSafe, AllRequestedIsIdle,
     CollectResponseIsSafe, TryAgainIsIdle, StopIsIdle, StopClusterIsIdle
     DEF AgentStep

LEMMA OtherStepsKeepHolders ==
    ASSUME EInv, CoreInv,
           \/ \E d \in Directories : DirectoryStep(d)
           \/ Miss \/ MainStep \/ SendKill \/ UNCHANGED vars
    PROVE  CoreInv' /\ SameHolders
<1>1. CASE Miss \/ Unload \/ Join \/ UNCHANGED vars
  BY <1>1, SilentSteps
<1>2. CASE MainStep
  BY <1>1, <1>2, SendInvadeIsIdle DEF MainStep
<1>. QED
  BY <1>1, <1>2, DirectoryIsIdle, SendKillIsIdle

LEMMA StepMovesCores ==
    ASSUME EInv, CoreInv, [Next]_vars
    PROVE  /\ EInv' /\ CoreInv'
           /\ \/ SameHolders
              \/ \E a \in Agents : TakeOver(a) /\ Active(a)
                    /\ \E taken \in SUBSET Cores : Captures(a, taken)
<1>0. EInv'
  BY StepKeeps
<1>1. CASE \E a \in Holders : HolderStep(a)
  BY <1>0, <1>1, HolderStepsKeepHolders
<1>2. CASE \E a \in Agents : TakeOver(a)
  BY <1>0, <1>2, TakeOverIsSafe
<1>3. CASE \E a \in Agents : AgentStep(a) /\ ~ TakeOver(a)
  BY <1>0, <1>3, AgentStepsKeepHolders
<1>4. CASE \/ \E d \in Directories : DirectoryStep(d)
           \/ Miss \/ MainStep \/ SendKill \/ UNCHANGED vars
  BY <1>0, <1>4, OtherStepsKeepHolders
<1>. QED
  BY <1>1, <1>2, <1>3, <1>4 DEF Next, Terminating

(* In every reachable state each core has one holder; an offer, a response *)
(* to one or the set in hand of an agent mentions a core exactly when its  *)
(* agent has put it aside; what an agent still awaits is under way; and an *)
(* agent that takes part in an election has no answer left to read         *)
(* (handle_make_offer, handle_request, take_over in distrm.c).             *)
THEOREM CoreInvariant == Spec => [](EInv /\ CoreInv)
<1>1. Init => EInv /\ CoreInv
  BY InitEstablishes, InitEstablishesCoreInv
<1>2. (EInv /\ CoreInv) /\ [Next]_vars => (EInv /\ CoreInv)'
  BY StepMovesCores
<1>. QED
  BY <1>1, <1>2, PTL DEF Spec

-----------------------------------------------------------------------------
(* The agents implement the ownership of cores.                            *)
LEMMA HolderIsFound ==
    HolderInv => \A c \in Cores :
        /\ HolderOf(c) \in Holders
        /\ \A h \in Holders : Has(h, c) <=> h = HolderOf(c)
<1>1. ASSUME HolderInv, NEW c \in Cores
      PROVE  HolderOf(c) \in Holders /\ Has(HolderOf(c), c)
  <2>1. \E h \in Holders : Has(h, c)
    BY <1>1 DEF HolderInv
  <2>. QED
    BY <2>1 DEF HolderOf
<1>2. ASSUME HolderInv, NEW c \in Cores, NEW h \in Holders
      PROVE  Has(h, c) <=> h = HolderOf(c)
  BY <1>1, <1>2 DEF HolderInv
<1>. QED
  BY <1>1, <1>2

LEMMA HolderIsFoundNext ==
    (HolderInv => \A c \in Cores :
        /\ HolderOf(c) \in Holders
        /\ \A h \in Holders : Has(h, c) <=> h = HolderOf(c))'
BY HolderIsFound, PTL

LEMMA HoldersStayTheSame ==
    ASSUME CoreInv, CoreInv', SameHolders
    PROVE  \A c \in Cores : HolderOf(c)' = HolderOf(c)
<1>1. HolderInv /\ HolderInv'
  BY DEF CoreInv
<1>2. ASSUME NEW c \in Cores PROVE HolderOf(c)' = HolderOf(c)
  <2>1. PICK h \in Holders : h = HolderOf(c) /\ Has(h, c)
    BY <1>1, HolderIsFound
  <2>2. Has(h, c)'
    BY <2>1 DEF SameHolders
  <2>3. \A k \in Holders : Has(k, c)' <=> k = HolderOf(c)'
    BY <1>1, HolderIsFoundNext
  <2>. QED
    BY <2>1, <2>2, <2>3
<1>. QED
  BY <1>2

LEMMA HoldersAfterCapture ==
    ASSUME CoreInv, CoreInv', NEW a \in Agents, NEW taken \in SUBSET Cores, Captures(a, taken)
    PROVE  \A c \in Cores : HolderOf(c)' = IF c \in taken THEN a ELSE HolderOf(c)
<1>1. HolderInv /\ HolderInv' /\ a \in Holders
  BY Threads DEF CoreInv
<1>2. ASSUME NEW c \in Cores PROVE HolderOf(c)' = IF c \in taken THEN a ELSE HolderOf(c)
  <2>1. PICK h \in Holders : h = HolderOf(c) /\ Has(h, c)
    BY <1>1, HolderIsFound
  <2>2. \A k \in Holders : Has(k, c)' <=> k = HolderOf(c)'
    BY <1>1, HolderIsFoundNext
  <2>3. CASE c \in taken
    <3>1. Has(a, c)'
      BY <1>1, <2>3 DEF Captures
    <3>. QED
      BY <1>1, <2>2, <2>3, <3>1
  <2>4. CASE c \notin taken
    <3>1. Has(h, c)'
      BY <2>1, <2>4 DEF Captures
    <3>. QED
      BY <2>1, <2>2, <2>4, <3>1
  <2>. QED
    BY <2>3, <2>4
<1>. QED
  BY <1>2

(* How the global changes that names the invader.                          *)
LEMMA InvaderChanges ==
    ASSUME EInv, EInv', CoreInv, [Next]_vars
    PROVE  \/ UNCHANGED invading_agent
           \/ \E a \in Agents : invading_agent = None /\ invading_agent' = a /\ ~ TakeOver(a)
           \/ invading_agent # None /\ invading_agent' = None
<1>t. AgentTypes
  BY DEF EInv
<1>o. Ordinary => UNCHANGED invading_agent
  BY DEF Ordinary, electionVars
<1>1. CASE \E a \in Holders : HolderStep(a)
  BY <1>t, <1>o, <1>1, HolderStepsAreOrdinary
<1>2. CASE \/ \E d \in Directories : DirectoryStep(d)
           \/ Miss \/ MainStep \/ SendKill \/ UNCHANGED vars
  BY <1>t, <1>o, <1>2, OtherStepsAreOrdinary
<1>3. ASSUME NEW a \in Agents, AgentStep(a)
      PROVE  \/ UNCHANGED invading_agent
             \/ invading_agent = None /\ invading_agent' = a /\ ~ TakeOver(a)
             \/ invading_agent # None /\ invading_agent' = None
  <2>1. CASE Ordinary
    BY <1>o, <2>1
  <2>2. CASE Invade(a)
    <3>1. pc[a] = "loop"
      BY <2>2 DEF Invade, Takes
    <3>2. ~ TakeOver(a)
      BY <3>1 DEF TakeOver, At
    <3>3. invading_agent' \in {Winner(a), invading_agent}
      BY <2>2 DEF Invade
    <3>4. Winner(a) = invading_agent \/ (invading_agent = None /\ Winner(a) = a)
      BY DEF Winner
    <3>. QED
      BY <3>2, <3>3, <3>4
  <2>3. CASE LookForWinner(a)
    BY <2>3 DEF LookForWinner, Elsewhere, electionVars
  <2>4. CASE EndRound(a)
    <3>1. Active(a) /\ invading_agent' = None
      BY <2>4, EndRoundIsSafe
    <3>2. invading_agent = a /\ a # None
      BY <3>1, InvaderIsAlone, Threads
    <3>. QED
      BY <3>1, <3>2
  <2>. QED
    BY <1>t, <1>3, <2>1, <2>2, <2>3, <2>4, AgentStepsAreOrdinary
<1>. QED
  BY <1>1, <1>2, <1>3 DEF Next, Terminating

LEMMA InitImplements ==
    ASSUME Init, EInv, CoreInv
    PROVE  Ownership!Init
<1>1. \A c \in Cores : HolderOf(c) \in Holders
  BY HolderIsFound DEF CoreInv
<1>2. invading_agent = None
  BY DEF Init
<1>. QED
  BY <1>1, <1>2 DEF Ownership!Init

LEMMA StepImplements ==
    ASSUME EInv, CoreInv, [Next]_vars
    PROVE  [Ownership!Next]_<<[c \in Cores |-> HolderOf(c)], invading_agent>>
<1>. DEFINE owner == [c \in Cores |-> HolderOf(c)]
<1>1. /\ EInv' /\ CoreInv'
      /\ \/ SameHolders
         \/ \E a \in Agents : TakeOver(a) /\ Active(a)
               /\ \E taken \in SUBSET Cores : Captures(a, taken)
  BY StepMovesCores
<1>2. \/ UNCHANGED invading_agent
      \/ \E a \in Agents : invading_agent = None /\ invading_agent' = a /\ ~ TakeOver(a)
      \/ invading_agent # None /\ invading_agent' = None
  BY <1>1, InvaderChanges
<1>3. CASE SameHolders
  <2>1. owner' = owner
    BY <1>1, <1>3, HoldersStayTheSame
  <2>. HIDE DEF owner
  <2>2. CASE UNCHANGED invading_agent
    BY <2>1, <2>2 DEF owner
  <2>3. CASE \E a \in Agents : invading_agent = None /\ invading_agent' = a
    <3>1. \E a \in Agents : Ownership!Elect(a)
      BY <2>1, <2>3 DEF Ownership!Elect, owner
    <3>. QED
      BY <3>1 DEF Ownership!Next
  <2>4. CASE invading_agent # None /\ invading_agent' = None
    <3>1. Ownership!Finish
      BY <2>1, <2>4 DEF Ownership!Finish, owner
    <3>. QED
      BY <3>1 DEF Ownership!Next
  <2>. QED
    BY <1>2, <2>2, <2>3, <2>4
<1>4. ASSUME NEW a \in Agents, TakeOver(a), Active(a),
             NEW taken \in SUBSET Cores, Captures(a, taken)
      PROVE  Ownership!TakeOver(taken)
  <2>1. invading_agent = a /\ a # None
    BY <1>4, InvaderIsAlone, Threads
  <2>2. UNCHANGED invading_agent
    BY <1>4 DEF TakeOver, Elsewhere, electionVars
  <2>3. \A c \in Cores : HolderOf(c)' = IF c \in taken THEN a ELSE HolderOf(c)
    BY <1>1, <1>4, HoldersAfterCapture
  <2>4. owner' = [c \in Cores |-> IF c \in taken THEN a ELSE owner[c]]
    BY <2>3
  <2>. HIDE DEF owner
  <2>. QED
    BY <2>1, <2>2, <2>4 DEF Ownership!TakeOver, owner
<1>5. CASE \E a \in Agents : TakeOver(a) /\ Active(a)
              /\ \E taken \in SUBSET Cores : Captures(a, taken)
  BY <1>4, <1>5 DEF Ownership!Next
<1>. QED
  BY <1>1, <1>3, <1>5

(* IsCoreOwnership of Distrm.tla: for any number of agents, cores and      *)
(* concurrent requests, whatever the order of messages, the cores always   *)
(* have one owner each, only the agent that invading_agent names gains     *)
(* cores, and it gains them all at once when it accepts the offers         *)
(* (invade and take_over in distrm.c).                                     *)
THEOREM CoresAreOwned == Spec => IsCoreOwnership
<1>1. Init => EInv /\ CoreInv
  BY InitEstablishes, InitEstablishesCoreInv
<1>2. Init => Ownership!Init
  BY <1>1, InitImplements
<1>3. (EInv /\ CoreInv) /\ [Next]_vars
         => [Ownership!Next]_<<[c \in Cores |-> HolderOf(c)], invading_agent>>
  BY StepImplements
<1>. QED
  BY <1>2, <1>3, CoreInvariant, PTL DEF Spec, IsCoreOwnership, Ownership!Spec

-----------------------------------------------------------------------------
(* No core is lost.                                                        *)

(* Who is said to have put core c aside.                                   *)
LEMMA ClaimsAreHolders ==
    ASSUME NEW c \in Cores, NEW r \in Holders, NEW m \in Messages
    PROVE  /\ Concerns(m, c) <=> \E h \in Holders : <<r, m>> \in Tokens(c, h)
           /\ \A h, k : <<r, m>> \in Tokens(c, h) /\ <<r, m>> \in Tokens(c, k) => h = k
<1>1. ASSUME NEW h
      PROVE  <<r, m>> \in Tokens(c, h) <=>
                 \/ m.kind = "OFFER" /\ Says(m.cores, c, h)
                 \/ m.kind \in {"ACCEPT", "REJECT"} /\ m.core = c /\ r = h
  BY MailboxesAreFinite, TokenPairs
<1>2. m.kind = "OFFER" /\ c \in DOMAIN m.cores => m.cores[c] \in Holders
  BY MessageParts, OffersAreViews
<1>. QED
  BY <1>1, <1>2 DEF Concerns, Says

(* Where core c is mentioned as put aside by h.                            *)
Mentions(c, h) ==
    {<<"unread", p[1], p[2]>> : p \in Places(queue, Tokens(c, h))}
    \union {<<"unsent", p[1], p[2]>> : p \in Places(out, Unposted(Tokens(c, h)))}
    \union {<<"response", b, 0>> : b \in Responding(c, h)}
    \union {<<"offers", b, 0>> : b \in Collecting(c, h)}

LEMMA OneOfFour ==
    ASSUME NEW A, NEW B, NEW C, NEW D,
           IsFiniteSet(A), IsFiniteSet(B), IsFiniteSet(C), IsFiniteSet(D)
    PROVE  LET sum == Cardinality(A) + Cardinality(B) + Cardinality(C) + Cardinality(D)
           IN  /\ sum = 0 => A = {} /\ B = {} /\ C = {} /\ D = {}
               /\ sum = 1 =>
                     \/ (\E x : A = {x}) /\ B = {} /\ C = {} /\ D = {}
                     \/ (\E x : B = {x}) /\ A = {} /\ C = {} /\ D = {}
                     \/ (\E x : C = {x}) /\ A = {} /\ B = {} /\ D = {}
                     \/ (\E x : D = {x}) /\ A = {} /\ B = {} /\ C = {}
<1>. DEFINE a == Cardinality(A)
            b == Cardinality(B)
            k == Cardinality(C)
            d == Cardinality(D)
<1>1. ASSUME NEW S, IsFiniteSet(S)
      PROVE  /\ Cardinality(S) \in Nat
             /\ Cardinality(S) = 0 => S = {}
             /\ Cardinality(S) = 1 => \E x : S = {x}
  <2>1. Cardinality(S) \in Nat
    BY <1>1, FS_CardinalityType
  <2>2. Cardinality(S) = 0 => S = {}
    BY <1>1, FS_EmptySet
  <2>3. Cardinality(S) = 1 => \E x : S = {x}
    BY <1>1, FS_Singleton
  <2>. QED
    BY <2>1, <2>2, <2>3
<1>2. /\ a \in Nat /\ b \in Nat /\ k \in Nat /\ d \in Nat
      /\ (a = 0 => A = {}) /\ (b = 0 => B = {}) /\ (k = 0 => C = {}) /\ (d = 0 => D = {})
      /\ (a = 1 => \E x : A = {x}) /\ (b = 1 => \E x : B = {x})
      /\ (k = 1 => \E x : C = {x}) /\ (d = 1 => \E x : D = {x})
  BY <1>1
<1>. HIDE DEF a, b, k, d
<1>3. a + b + k + d = 0 => a = 0 /\ b = 0 /\ k = 0 /\ d = 0
  BY <1>2
<1>4. a + b + k + d = 1 =>
         \/ a = 1 /\ b = 0 /\ k = 0 /\ d = 0
         \/ b = 1 /\ a = 0 /\ k = 0 /\ d = 0
         \/ k = 1 /\ a = 0 /\ b = 0 /\ d = 0
         \/ d = 1 /\ a = 0 /\ b = 0 /\ k = 0
  BY <1>2
<1>5. /\ a + b + k + d = 0 => A = {} /\ B = {} /\ C = {} /\ D = {}
      /\ a + b + k + d = 1 =>
            \/ (\E x : A = {x}) /\ B = {} /\ C = {} /\ D = {}
            \/ (\E x : B = {x}) /\ A = {} /\ C = {} /\ D = {}
            \/ (\E x : C = {x}) /\ A = {} /\ B = {} /\ D = {}
            \/ (\E x : D = {x}) /\ A = {} /\ B = {} /\ C = {}
  BY <1>2, <1>3, <1>4, Zenon
<1>. QED
  BY <1>5 DEF a, b, k, d

LEMMA MentionedOnce ==
    ASSUME EInv, TokenInv, NEW c \in Cores, NEW h \in Holders
    PROVE  IF c \in reserved[h] THEN \E x : Mentions(c, h) = {x} ELSE Mentions(c, h) = {}
<1>. DEFINE A == Places(queue, Tokens(c, h))
            B == Places(out, Unposted(Tokens(c, h)))
            C == Responding(c, h)
            D == Collecting(c, h)
<1>1. IsFiniteSet(A) /\ IsFiniteSet(B)
  BY MailLists, PlacesAreFinite DEF EInv
<1>2. IsFiniteSet(C) /\ IsFiniteSet(D)
  BY HoldersAreCounted DEF Responding, Collecting
<1>3. Cardinality(A) + Cardinality(B) + Cardinality(C) + Cardinality(D)
         = (IF c \in reserved[h] THEN 1 ELSE 0)
  BY DEF TokenInv, UnderWay, Count
<1>4. Mentions(c, h) = {<<"unread", p[1], p[2]>> : p \in A}
                       \union {<<"unsent", p[1], p[2]>> : p \in B}
                       \union {<<"response", b, 0>> : b \in C}
                       \union {<<"offers", b, 0>> : b \in D}
  BY DEF Mentions
<1>. HIDE DEF A, B, C, D
<1>5. CASE c \in reserved[h]
  <2>1. \/ (\E x : A = {x}) /\ B = {} /\ C = {} /\ D = {}
        \/ (\E x : B = {x}) /\ A = {} /\ C = {} /\ D = {}
        \/ (\E x : C = {x}) /\ A = {} /\ B = {} /\ D = {}
        \/ (\E x : D = {x}) /\ A = {} /\ B = {} /\ C = {}
    BY <1>1, <1>2, <1>3, <1>5, OneOfFour
  <2>2. CASE (\E x : A = {x}) /\ B = {} /\ C = {} /\ D = {}
    <3>1. PICK x : A = {x}
      BY <2>2
    <3>2. Mentions(c, h) = {<<"unread", x[1], x[2]>>}
      BY <1>4, <2>2, <3>1
    <3>. QED
      BY <1>5, <3>2
  <2>3. CASE (\E x : B = {x}) /\ A = {} /\ C = {} /\ D = {}
    <3>1. PICK x : B = {x}
      BY <2>3
    <3>2. Mentions(c, h) = {<<"unsent", x[1], x[2]>>}
      BY <1>4, <2>3, <3>1
    <3>. QED
      BY <1>5, <3>2
  <2>4. CASE (\E x : C = {x}) /\ A = {} /\ B = {} /\ D = {}
    <3>1. PICK x : C = {x}
      BY <2>4
    <3>2. Mentions(c, h) = {<<"response", x, 0>>}
      BY <1>4, <2>4, <3>1
    <3>. QED
      BY <1>5, <3>2
  <2>5. CASE (\E x : D = {x}) /\ A = {} /\ B = {} /\ C = {}
    <3>1. PICK x : D = {x}
      BY <2>5
    <3>2. Mentions(c, h) = {<<"offers", x, 0>>}
      BY <1>4, <2>5, <3>1
    <3>. QED
      BY <1>5, <3>2
  <2>. QED
    BY <2>1, <2>2, <2>3, <2>4, <2>5
<1>6. CASE c \notin reserved[h]
  <2>1. A = {} /\ B = {} /\ C = {} /\ D = {}
    BY <1>1, <1>2, <1>3, <1>6, OneOfFour
  <2>2. Mentions(c, h) = {}
    BY <1>4, <2>1
  <2>. QED
    BY <1>6, <2>2
<1>. QED
  BY <1>5, <1>6

(* An offer or an answer that is under way goes to an agent.               *)
LEMMA ClaimsGoToHolders ==
    ASSUME MailTypes, UnderWay(Misled) = 0, NEW c \in Cores, NEW h \in Holders
    PROVE  /\ \A r \in Mailboxes : \A i \in DOMAIN queue[r] :
                 <<r, queue[r][i]>> \in Tokens(c, h) => r \in Holders
           /\ \A a \in Holders : \A i \in DOMAIN out[a] :
                 <<out[a][i].to, out[a][i].msg>> \in Tokens(c, h) \/ Concerns(out[a][i].msg, c)
                    => out[a][i].to \in Holders
           /\ \A r \in Mailboxes : \A i \in DOMAIN queue[r] : queue[r][i] \in Messages
           /\ \A a \in Holders : \A i \in DOMAIN out[a] :
                 out[a][i].to \in Mailboxes /\ out[a][i].msg \in Messages
<1>1. ASSUME NEW r \in Mailboxes, NEW i \in DOMAIN queue[r] PROVE queue[r][i] \in Messages
  <2>1. queue[r] \in Seq(Messages)
    BY DEF MailTypes
  <2>. QED
    BY <2>1
<1>2. ASSUME NEW a \in Holders, NEW i \in DOMAIN out[a]
      PROVE  out[a][i].to \in Mailboxes /\ out[a][i].msg \in Messages
  <2>1. out[a] \in Seq(Posts)
    BY DEF MailTypes
  <2>2. out[a][i] \in Posts
    BY <2>1
  <2>. QED
    BY <2>2 DEF Posts
<1>3. /\ \A r \in Mailboxes : \A i \in DOMAIN queue[r] : <<r, queue[r][i]>> \notin Misled
      /\ \A a \in Holders : \A i \in DOMAIN out[a] :
            <<out[a][i].to, out[a][i].msg>> \notin Misled
  BY NoneUnderWay
<1>4. ASSUME NEW r \in Mailboxes, NEW m \in Messages, <<r, m>> \notin Misled,
             <<r, m>> \in Tokens(c, h) \/ Concerns(m, c)
      PROVE  r \in Holders
  <2>1. m.kind \in {"OFFER", "ACCEPT", "REJECT"}
    BY <1>4 DEF Tokens, Concerns
  <2>. QED
    BY <1>4, <2>1 DEF Misled
<1>5. \A r \in Mailboxes : \A i \in DOMAIN queue[r] :
         <<r, queue[r][i]>> \in Tokens(c, h) => r \in Holders
  BY <1>1, <1>3, <1>4
<1>6. \A a \in Holders : \A i \in DOMAIN out[a] :
         <<out[a][i].to, out[a][i].msg>> \in Tokens(c, h) \/ Concerns(out[a][i].msg, c)
            => out[a][i].to \in Holders
  BY <1>2, <1>3, <1>4
<1>. QED
  BY <1>1, <1>2, <1>5, <1>6


LEMMA InMentions ==
    ASSUME MailTypes, UnderWay(Misled) = 0, NEW c \in Cores, NEW h \in Holders, NEW x
    PROVE  x \in Mentions(c, h) <=>
               \/ \E a \in Holders : \E i \in DOMAIN queue[a] :
                     x = <<"unread", a, i>> /\ <<a, queue[a][i]>> \in Tokens(c, h)
               \/ \E a \in Holders : \E i \in DOMAIN out[a] :
                     x = <<"unsent", a, i>>
                        /\ <<out[a][i].to, out[a][i].msg>> \in Tokens(c, h)
               \/ \E b \in Holders : x = <<"response", b, 0>> /\ Says(request[b].response, c, h)
               \/ \E b \in Holders : x = <<"offers", b, 0>> /\ Says(plan[b].offers, c, h)
<1>. DEFINE T == Tokens(c, h)
            U == Unposted(T)
<1>d. DOMAIN queue = Mailboxes /\ DOMAIN out = Holders /\ Holders \subseteq Mailboxes
  BY MailboxesAreFinite DEF MailTypes
<1>1. (\E p \in Places(queue, T) : x = <<"unread", p[1], p[2]>>) <=>
         \E a \in Holders : \E i \in DOMAIN queue[a] :
            x = <<"unread", a, i>> /\ <<a, queue[a][i]>> \in T
  <2>1. \A a \in Mailboxes : \A i \in DOMAIN queue[a] :
           <<a, queue[a][i]>> \in T => a \in Holders
    BY ClaimsGoToHolders
  <2>. HIDE DEF T
  <2>2. ASSUME NEW p \in Places(queue, T), x = <<"unread", p[1], p[2]>>
        PROVE  \E a \in Holders : \E i \in DOMAIN queue[a] :
                  x = <<"unread", a, i>> /\ <<a, queue[a][i]>> \in T
    <3>1. /\ p[1] \in DOMAIN queue /\ p[2] \in DOMAIN queue[p[1]]
          /\ <<p[1], queue[p[1]][p[2]]>> \in T
      BY PlacesArePairs
    <3>2. p[1] \in Holders
      BY <1>d, <2>1, <3>1
    <3>. QED
      BY <2>2, <3>1, <3>2
  <2>3. ASSUME NEW a \in Holders, NEW i \in DOMAIN queue[a],
               x = <<"unread", a, i>>, <<a, queue[a][i]>> \in T
        PROVE  \E p \in Places(queue, T) : x = <<"unread", p[1], p[2]>>
    <3>1. <<a, i>> \in Places(queue, T)
      BY <1>d, <2>3, PairInPlaces
    <3>2. x = <<"unread", <<a, i>>[1], <<a, i>>[2]>>
      BY <2>3
    <3>. QED
      BY <3>1, <3>2
  <2>. QED
    BY <2>2, <2>3
<1>2. (\E p \in Places(out, U) : x = <<"unsent", p[1], p[2]>>) <=>
         \E a \in Holders : \E i \in DOMAIN out[a] :
            x = <<"unsent", a, i>> /\ <<out[a][i].to, out[a][i].msg>> \in T
  <2>1. ASSUME NEW a \in Holders, NEW i \in DOMAIN out[a]
        PROVE  <<a, out[a][i]>> \in U <=> <<out[a][i].to, out[a][i].msg>> \in T
    <3>1. out[a] \in Seq(Posts)
      BY DEF MailTypes
    <3>2. out[a][i] \in Posts
      BY <3>1
    <3>. HIDE DEF T
    <3>. QED
      BY <3>2 DEF Unposted
  <2>. HIDE DEF T, U
  <2>2. ASSUME NEW p \in Places(out, U), x = <<"unsent", p[1], p[2]>>
        PROVE  \E a \in Holders : \E i \in DOMAIN out[a] :
                  x = <<"unsent", a, i>> /\ <<out[a][i].to, out[a][i].msg>> \in T
    <3>1. p[1] \in DOMAIN out /\ p[2] \in DOMAIN out[p[1]] /\ <<p[1], out[p[1]][p[2]]>> \in U
      BY PlacesArePairs
    <3>2. p[1] \in Holders
      BY <1>d, <3>1
    <3>. QED
      BY <2>1, <2>2, <3>1, <3>2
  <2>3. ASSUME NEW a \in Holders, NEW i \in DOMAIN out[a],
               x = <<"unsent", a, i>>, <<out[a][i].to, out[a][i].msg>> \in T
        PROVE  \E p \in Places(out, U) : x = <<"unsent", p[1], p[2]>>
    <3>1. <<a, i>> \in Places(out, U)
      BY <1>d, <2>1, <2>3, PairInPlaces
    <3>2. x = <<"unsent", <<a, i>>[1], <<a, i>>[2]>>
      BY <2>3
    <3>. QED
      BY <3>1, <3>2
  <2>. QED
    BY <2>2, <2>3
<1>3. (\E b \in Responding(c, h) : x = <<"response", b, 0>>) <=>
         \E b \in Holders : x = <<"response", b, 0>> /\ Says(request[b].response, c, h)
  BY DEF Responding
<1>4. (\E b \in Collecting(c, h) : x = <<"offers", b, 0>>) <=>
         \E b \in Holders : x = <<"offers", b, 0>> /\ Says(plan[b].offers, c, h)
  BY DEF Collecting
<1>5. x \in Mentions(c, h) <=>
         \/ \E p \in Places(queue, T) : x = <<"unread", p[1], p[2]>>
         \/ \E p \in Places(out, U) : x = <<"unsent", p[1], p[2]>>
         \/ \E b \in Responding(c, h) : x = <<"response", b, 0>>
         \/ \E b \in Collecting(c, h) : x = <<"offers", b, 0>>
  BY DEF Mentions
<1>. QED
  BY <1>1, <1>2, <1>3, <1>4, <1>5

LEMMA MentionsAreAll ==
    ASSUME MailTypes, AgentTypes, UnderWay(Misled) = 0, NEW c \in Cores
    PROVE  /\ \A x : x \in OffersAndAnswers(c) <=> \E h \in Holders : x \in Mentions(c, h)
           /\ \A h, k \in Holders : \A x : x \in Mentions(c, h) /\ x \in Mentions(c, k) => h = k
<1>0. Holders \subseteq Mailboxes
  BY MailboxesAreFinite
<1>1. \A a \in Holders : \A i \in DOMAIN queue[a] : queue[a][i] \in Messages
  BY <1>0, ClaimsGoToHolders
<1>2. \A a \in Holders : \A i \in DOMAIN out[a] :
         /\ out[a][i].to \in Mailboxes /\ out[a][i].msg \in Messages
         /\ Concerns(out[a][i].msg, c) => out[a][i].to \in Holders
         /\ \A h \in Holders : <<out[a][i].to, out[a][i].msg>> \in Tokens(c, h)
               => out[a][i].to \in Holders
  BY ClaimsGoToHolders
<1>3. ASSUME NEW a \in Holders, NEW i \in DOMAIN queue[a]
      PROVE  /\ Concerns(queue[a][i], c) <=>
                    \E h \in Holders : <<a, queue[a][i]>> \in Tokens(c, h)
             /\ \A h, k : <<a, queue[a][i]>> \in Tokens(c, h) /\ <<a, queue[a][i]>> \in Tokens(c, k)
                   => h = k
  <2>. DEFINE m == queue[a][i]
  <2>1. m \in Messages
    BY <1>1
  <2>. HIDE DEF m
  <2>2. /\ Concerns(m, c) <=> \E h \in Holders : <<a, m>> \in Tokens(c, h)
        /\ \A h, k : <<a, m>> \in Tokens(c, h) /\ <<a, m>> \in Tokens(c, k) => h = k
    BY <2>1, ClaimsAreHolders
  <2>. QED
    BY <2>2 DEF m
<1>4. ASSUME NEW a \in Holders, NEW i \in DOMAIN out[a]
      PROVE  /\ Concerns(out[a][i].msg, c) <=>
                    \E h \in Holders : <<out[a][i].to, out[a][i].msg>> \in Tokens(c, h)
             /\ \A h, k \in Holders : <<out[a][i].to, out[a][i].msg>> \in Tokens(c, h)
                   /\ <<out[a][i].to, out[a][i].msg>> \in Tokens(c, k) => h = k
  <2>. DEFINE r == out[a][i].to
              m == out[a][i].msg
  <2>1. /\ m \in Messages /\ (Concerns(m, c) => r \in Holders)
        /\ \A h \in Holders : <<r, m>> \in Tokens(c, h) => r \in Holders
    BY <1>2
  <2>. HIDE DEF r, m
  <2>2. r \in Holders =>
           /\ Concerns(m, c) <=> \E h \in Holders : <<r, m>> \in Tokens(c, h)
           /\ \A h, k : <<r, m>> \in Tokens(c, h) /\ <<r, m>> \in Tokens(c, k) => h = k
    BY <2>1, ClaimsAreHolders
  <2>3. /\ Concerns(m, c) <=> \E h \in Holders : <<r, m>> \in Tokens(c, h)
        /\ \A h, k \in Holders : <<r, m>> \in Tokens(c, h) /\ <<r, m>> \in Tokens(c, k) => h = k
    BY <2>1, <2>2
  <2>. QED
    BY <2>3 DEF r, m
<1>5. ASSUME NEW v \in Offers
      PROVE  /\ c \in DOMAIN v <=> \E h \in Holders : Says(v, c, h)
             /\ \A h, k : Says(v, c, h) /\ Says(v, c, k) => h = k
  BY OffersAreViews DEF Says
<1>6. \A b \in Holders : request[b].response \in Offers /\ plan[b].offers \in Offers
  BY DEF AgentTypes, Requests, Plans
<1>7. ASSUME NEW x
      PROVE  x \in OffersAndAnswers(c) <=>
                 \/ \E a \in Holders : \E i \in DOMAIN queue[a] :
                       x = <<"unread", a, i>> /\ Concerns(queue[a][i], c)
                 \/ \E a \in Holders : \E i \in DOMAIN out[a] :
                       x = <<"unsent", a, i>> /\ Concerns(out[a][i].msg, c)
                 \/ \E b \in Holders : x = <<"response", b, 0>> /\ c \in DOMAIN request[b].response
                 \/ \E b \in Holders : x = <<"offers", b, 0>> /\ c \in DOMAIN plan[b].offers
  <2>1. ASSUME NEW a \in Holders
        PROVE  /\ x \in {<<"unread", a, i>> : i \in {j \in DOMAIN queue[a] : Concerns(queue[a][j], c)}}
                     <=> \E i \in DOMAIN queue[a] :
                            x = <<"unread", a, i>> /\ Concerns(queue[a][i], c)
               /\ x \in {<<"unsent", a, i>> : i \in {j \in DOMAIN out[a] : Concerns(out[a][j].msg, c)}}
                     <=> \E i \in DOMAIN out[a] :
                            x = <<"unsent", a, i>> /\ Concerns(out[a][i].msg, c)
    OBVIOUS
  <2>2. x \in {<<"response", a, 0>> : a \in {b \in Holders : c \in DOMAIN request[b].response}}
           <=> \E b \in Holders : x = <<"response", b, 0>> /\ c \in DOMAIN request[b].response
    OBVIOUS
  <2>3. x \in {<<"offers", a, 0>> : a \in {b \in Holders : c \in Offered(b)}}
           <=> \E b \in Holders : x = <<"offers", b, 0>> /\ c \in DOMAIN plan[b].offers
    BY DEF Offered
  <2>. QED
    BY <2>1, <2>2, <2>3 DEF OffersAndAnswers
<1>8. ASSUME NEW x
      PROVE  x \in OffersAndAnswers(c) <=> \E h \in Holders : x \in Mentions(c, h)
  <2>1. ASSUME NEW h \in Holders
        PROVE  x \in Mentions(c, h) <=>
               \/ \E a \in Holders : \E i \in DOMAIN queue[a] :
                     x = <<"unread", a, i>> /\ <<a, queue[a][i]>> \in Tokens(c, h)
               \/ \E a \in Holders : \E i \in DOMAIN out[a] :
                     x = <<"unsent", a, i>>
                        /\ <<out[a][i].to, out[a][i].msg>> \in Tokens(c, h)
               \/ \E b \in Holders : x = <<"response", b, 0>> /\ Says(request[b].response, c, h)
               \/ \E b \in Holders : x = <<"offers", b, 0>> /\ Says(plan[b].offers, c, h)
    BY InMentions
  <2>2. (\E a \in Holders : \E i \in DOMAIN queue[a] :
            x = <<"unread", a, i>> /\ Concerns(queue[a][i], c))
          <=> \E h \in Holders : \E a \in Holders : \E i \in DOMAIN queue[a] :
                     x = <<"unread", a, i>> /\ <<a, queue[a][i]>> \in Tokens(c, h)
    BY <1>3
  <2>3. (\E a \in Holders : \E i \in DOMAIN out[a] :
            x = <<"unsent", a, i>> /\ Concerns(out[a][i].msg, c))
          <=> \E h \in Holders : \E a \in Holders : \E i \in DOMAIN out[a] :
                     x = <<"unsent", a, i>>
                        /\ <<out[a][i].to, out[a][i].msg>> \in Tokens(c, h)
    BY <1>4
  <2>4. (\E b \in Holders : x = <<"response", b, 0>> /\ c \in DOMAIN request[b].response)
          <=> \E h \in Holders : \E b \in Holders :
                 x = <<"response", b, 0>> /\ Says(request[b].response, c, h)
    BY <1>5, <1>6
  <2>5. (\E b \in Holders : x = <<"offers", b, 0>> /\ c \in DOMAIN plan[b].offers)
          <=> \E h \in Holders : \E b \in Holders :
                 x = <<"offers", b, 0>> /\ Says(plan[b].offers, c, h)
    BY <1>5, <1>6
  <2>. QED
    BY <1>7, <2>1, <2>2, <2>3, <2>4, <2>5
<1>9. ASSUME NEW h \in Holders, NEW k \in Holders, NEW x,
             x \in Mentions(c, h), x \in Mentions(c, k)
      PROVE  h = k
  <2>1. ASSUME NEW g \in Holders, x \in Mentions(c, g)
        PROVE  \/ \E a \in Holders : \E i \in DOMAIN queue[a] :
                     x = <<"unread", a, i>> /\ <<a, queue[a][i]>> \in Tokens(c, g)
               \/ \E a \in Holders : \E i \in DOMAIN out[a] :
                     x = <<"unsent", a, i>>
                        /\ <<out[a][i].to, out[a][i].msg>> \in Tokens(c, g)
               \/ \E b \in Holders : x = <<"response", b, 0>> /\ Says(request[b].response, c, g)
               \/ \E b \in Holders : x = <<"offers", b, 0>> /\ Says(plan[b].offers, c, g)
    BY <2>1, InMentions
  <2>2. ASSUME NEW g \in Holders, x \in Mentions(c, g)
        PROVE  /\ x[1] \in {"unread", "unsent", "response", "offers"} /\ x[2] \in Holders
               /\ x[1] = "unread" =>
                     x[3] \in DOMAIN queue[x[2]] /\ <<x[2], queue[x[2]][x[3]]>> \in Tokens(c, g)
               /\ x[1] = "unsent" =>
                     x[3] \in DOMAIN out[x[2]]
                        /\ <<out[x[2]][x[3]].to, out[x[2]][x[3]].msg>> \in Tokens(c, g)
               /\ x[1] = "response" => Says(request[x[2]].response, c, g)
               /\ x[1] = "offers" => Says(plan[x[2]].offers, c, g)
    <3>1. CASE \E a \in Holders : \E i \in DOMAIN queue[a] :
                  x = <<"unread", a, i>> /\ <<a, queue[a][i]>> \in Tokens(c, g)
      BY <3>1
    <3>2. CASE \E a \in Holders : \E i \in DOMAIN out[a] :
                  x = <<"unsent", a, i>> /\ <<out[a][i].to, out[a][i].msg>> \in Tokens(c, g)
      BY <3>2
    <3>3. CASE \E b \in Holders : x = <<"response", b, 0>> /\ Says(request[b].response, c, g)
      BY <3>3
    <3>4. CASE \E b \in Holders : x = <<"offers", b, 0>> /\ Says(plan[b].offers, c, g)
      BY <3>4
    <3>. QED
      BY <2>1, <2>2, <3>1, <3>2, <3>3, <3>4
  <2>3. CASE x[1] = "unread"
    BY <1>3, <1>9, <2>2, <2>3
  <2>4. CASE x[1] = "unsent"
    BY <1>4, <1>9, <2>2, <2>4
  <2>5. CASE x[1] \in {"response", "offers"}
    BY <1>5, <1>6, <1>9, <2>2, <2>5
  <2>. QED
    BY <1>9, <2>2, <2>3, <2>4, <2>5
<1>. QED
  BY <1>8, <1>9

LEMMA EachIsMentioned ==
    ASSUME EInv, CoreInv, NEW c \in Cores
    PROVE  Cardinality(OffersAndAnswers(c)) = Cardinality({h \in Holders : c \in reserved[h]})
<1>m. /\ MailTypes /\ AgentTypes /\ TokenInv /\ UnderWay(Misled) = 0
  BY DEF EInv, CoreInv
<1>. DEFINE all == OffersAndAnswers(c)
            reservers == {h \in Holders : c \in reserved[h]}
            f == [h \in reservers |-> CHOOSE x : Mentions(c, h) = {x}]
<1>1. /\ \A x : x \in all <=> \E h \in Holders : x \in Mentions(c, h)
      /\ \A h, k \in Holders : \A x : x \in Mentions(c, h) /\ x \in Mentions(c, k) => h = k
  BY <1>m, MentionsAreAll
<1>2. ASSUME NEW h \in Holders
      PROVE  /\ h \in reservers => \E x : Mentions(c, h) = {x}
             /\ h \notin reservers => Mentions(c, h) = {}
  BY <1>m, MentionedOnce
<1>3. ASSUME NEW h \in reservers PROVE Mentions(c, h) = {f[h]}
  <2>1. h \in Holders
    OBVIOUS
  <2>2. \E x : Mentions(c, h) = {x}
    BY <1>2, <2>1
  <2>3. f[h] = CHOOSE x : Mentions(c, h) = {x}
    OBVIOUS
  <2>. QED
    BY <2>2, <2>3
<1>4. reservers \subseteq Holders /\ IsFiniteSet(reservers)
  BY HoldersAreCounted
<1>. HIDE DEF all, reservers
<1>5. f \in [reservers -> all]
  <2>1. ASSUME NEW h \in reservers PROVE f[h] \in all
    BY <1>1, <1>3, <1>4
  <2>. QED
    BY <2>1
<1>. HIDE DEF f
<1>6. ASSUME NEW h \in reservers, NEW k \in reservers, f[h] = f[k] PROVE h = k
  BY <1>1, <1>3, <1>4, <1>6
<1>7. ASSUME NEW x \in all PROVE \E h \in reservers : f[h] = x
  <2>1. PICK h \in Holders : x \in Mentions(c, h)
    BY <1>1
  <2>2. h \in reservers
    BY <1>2, <2>1
  <2>. QED
    BY <1>3, <2>1, <2>2
<1>8. f \in Bijection(reservers, all)
  BY <1>5, <1>6, <1>7, Fun_IsBij
<1>9. ExistsBijection(reservers, all)
  BY <1>8, Fun_ExistsBij
<1>10. Cardinality(all) = Cardinality(reservers)
  BY <1>4, <1>9, FS_Bijection
<1>. QED
  BY <1>10 DEF all, reservers

(* NoCoreIsLost of Distrm.tla, for any number of agents, cores and         *)
(* concurrent requests, with SIGINT or without: no core has two owners,    *)
(* none is without an owner unless somebody has put it aside, and what is  *)
(* put aside is mentioned in exactly one offer or answer that is under     *)
(* way, so that it is given away or given back exactly once                *)
(* (handle_make_offer, handle_accept, handle_reject, take_over).           *)
THEOREM CoresAreKept == Spec => []NoCoreIsLost
<1>1. EInv /\ CoreInv => NoCoreIsLost
  <2>. SUFFICES ASSUME EInv, CoreInv, NEW c \in Cores
                PROVE  /\ Cardinality({h \in Holders : c \in owned[h]}) <= 1
                       /\ {h \in Holders : c \in owned[h]}
                             \union {h \in Holders : c \in reserved[h]} # {}
                       /\ Cardinality(OffersAndAnswers(c))
                             = Cardinality({h \in Holders : c \in reserved[h]})
    BY DEF NoCoreIsLost
  <2>. DEFINE owners == {h \in Holders : c \in owned[h]}
  <2>1. /\ \E h \in Holders : Has(h, c)
        /\ \A h, k \in Holders : Has(h, c) /\ Has(k, c) => h = k
    BY DEF CoreInv, HolderInv
  <2>2. owners \union {h \in Holders : c \in reserved[h]} # {}
    BY <2>1 DEF Has
  <2>3. \A h, k \in owners : h = k
    BY <2>1 DEF Has
  <2>. HIDE DEF owners
  <2>4. Cardinality(owners) <= 1
    <3>1. CASE owners = {}
      <4>1. Cardinality(owners) = 0
        BY <3>1, FS_EmptySet
      <4>. QED
        BY <4>1
    <3>2. CASE owners # {}
      <4>1. PICK h : owners = {h}
        BY <2>3, <3>2
      <4>2. Cardinality({h}) = 1
        BY FS_Singleton
      <4>. QED
        BY <4>1, <4>2
    <3>. QED
      BY <3>1, <3>2
  <2>. QED
    BY <2>2, <2>4, EachIsMentioned DEF owners
<1>. QED
  BY <1>1, CoreInvariant, PTL
=============================================================================
