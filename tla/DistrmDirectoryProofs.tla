----------------------- MODULE DistrmDirectoryProofs -----------------------
(***************************************************************************)
(* What the agents of Distrm.tla learn from the directories, for any       *)
(* number of agents, cores and clusters.                                   *)
(***************************************************************************)
EXTENDS DistrmCoreProofs

-----------------------------------------------------------------------------
(* Between the rounds.  A mailbox gets an answer of a directory only for   *)
(* an agent that waits for it, and such an agent is owed exactly one.      *)
Queries == {"LOCATE", "INFO"}
Inquiring == {"owner", "center", "center again"}
Inquiries(r) ==
    {p \in Mailboxes \X Messages :
        \/ p[2].kind = "LOCATE" /\ p[2].from = r
        \/ p[2].kind = "INFO" /\ p[1] = r}
Asks(r) == r \in Holders /\ pc[r] \in Inquiring
InquiryInv ==
    \A r \in Mailboxes : UnderWay(Inquiries(r)) = IF Asks(r) THEN 1 ELSE 0

(* Steps with which nobody begins or ceases to wait for a directory.       *)
SameInquirers == \A b \in Holders : pc'[b] \in Inquiring <=> pc[b] \in Inquiring
AsksNobody(a) ==
    /\ pc[a] \notin Inquiring
    /\ UNCHANGED pc \/ \E place : place \notin Inquiring /\ pc' = [pc EXCEPT ![a] = place]

LEMMA NobodyAsks ==
    ASSUME AgentTypes, NEW a \in Holders, AsksNobody(a)
    PROVE  SameInquirers
<1>1. CASE UNCHANGED pc
  BY <1>1 DEF SameInquirers
<1>2. CASE \E place : place \notin Inquiring /\ pc' = [pc EXCEPT ![a] = place]
  <2>1. pc'[a] \notin Inquiring /\ \A b \in Holders \ {a} : pc'[b] = pc[b]
    BY <1>2 DEF AgentTypes
  <2>2. pc[a] \notin Inquiring
    BY DEF AsksNobody
  <2>. QED
    BY <2>1, <2>2 DEF SameInquirers
<1>. QED
  BY <1>1, <1>2 DEF AsksNobody

LEMMA InquiriesStay ==
    ASSUME InquiryInv, Kept(Queries), SameInquirers
    PROVE  InquiryInv'
<1>1. ASSUME NEW r PROVE UnderWay(Inquiries(r))' = UnderWay(Inquiries(r))
  <2>1. \A p \in Inquiries(r) : p[2].kind \in Queries
    BY DEF Inquiries, Queries
  <2>. QED
    BY <2>1 DEF Kept
<1>2. ASSUME NEW r PROVE Asks(r)' <=> Asks(r)
  BY DEF Asks, SameInquirers
<1>. QED
  BY <1>1, <1>2 DEF InquiryInv

-----------------------------------------------------------------------------
(* Messages that directories do not care about.                            *)
Topics == {"LOCATE", "INFO", "REGISTER"}
NoRegistrations(list) == \A i \in DOMAIN list : list[i].msg.kind # "REGISTER"

(* Mailboxes with no new answer, and with questions to the right directory *)
(* at most added.                                                          *)
AddsNoNews(q) ==
    /\ \A h \in Holders : \A i \in DOMAIN q[h] :
          q[h][i].kind = "INFO" => \E j \in DOMAIN queue[h] : queue[h][j] = q[h][i]
    /\ \A d \in Directories :
          \/ q[d] = queue[d]
          \/ \E m \in Messages :
                /\ m.kind \notin {"REGISTER", "INFO"}
                /\ m.kind = "LOCATE" => Directory(m.core) = d
                /\ q[d] = Append(queue[d], m)
NoNews ==
    /\ AddsNoNews(queue')
    /\ \A b \in Holders :
          \/ out'[b] = out[b]
          \/ NoRegistrations(out[b]) /\ NoRegistrations(out'[b])
Unrelated == Kept(Topics) /\ SameInquirers /\ NoNews

LEMMA UnlinkedIsOld ==
    ASSUME NEW list \in Seq(Messages), NEW kinds, Acceptable(list, kinds) # {}
    PROVE  /\ Unlinked(list, kinds) \in Seq(Messages)
           /\ \A i \in DOMAIN Unlinked(list, kinds) :
                 \E j \in DOMAIN list : list[j] = Unlinked(list, kinds)[i]
<1>. DEFINE k == FirstAcceptable(list, kinds)
            rest == Unlinked(list, kinds)
<1>1. k \in 1 .. Len(list) /\ Len(list) \in Nat
  BY FirstAcceptableProperties
<1>2. /\ rest \in Seq(Messages) /\ Len(rest) = Len(list) - 1
      /\ \A j \in 1 .. Len(list) - 1 : rest[j] = IF j < k THEN list[j] ELSE list[j + 1]
  BY <1>1, RemoveAtType DEF Unlinked
<1>3. DOMAIN rest = 1 .. Len(list) - 1 /\ DOMAIN list = 1 .. Len(list)
  BY <1>2
<1>. HIDE DEF k, rest
<1>4. ASSUME NEW i \in DOMAIN rest PROVE \E j \in DOMAIN list : list[j] = rest[i]
  <2>. DEFINE j == IF i < k THEN i ELSE i + 1
  <2>1. j \in DOMAIN list
    BY <1>1, <1>3
  <2>2. rest[i] = list[j]
    BY <1>2, <1>3
  <2>. QED
    BY <2>1, <2>2
<1>. QED
  BY <1>2, <1>4 DEF rest

LEMMA MailIsNoNews ==
    ASSUME MailTypes
    PROVE  AddsNoNews(queue) /\ queue \in [Mailboxes -> Seq(Messages)]
BY DEF AddsNoNews, MailTypes

LEMMA TakenIsNoNews ==
    ASSUME MailTypes, NEW a \in Holders, CanTake(a)
    PROVE  /\ AddsNoNews(Taken(a)) /\ Taken(a) \in [Mailboxes -> Seq(Messages)]
           /\ \A d \in Directories : Taken(a)[d] = queue[d]
<1>. DEFINE list == queue[a] kinds == Accepts(pc[a])
<1>1. /\ list \in Seq(Messages) /\ Acceptable(list, kinds) # {} /\ a \in Mailboxes
      /\ queue \in [Mailboxes -> Seq(Messages)]
  BY MailboxesAreFinite DEF MailTypes, CanTake
<1>2. /\ Unlinked(list, kinds) \in Seq(Messages)
      /\ \A i \in DOMAIN Unlinked(list, kinds) :
            \E j \in DOMAIN list : list[j] = Unlinked(list, kinds)[i]
  <2>. HIDE DEF list, kinds
  <2>. QED
    BY <1>1, UnlinkedIsOld
<1>3. /\ Taken(a) \in [Mailboxes -> Seq(Messages)] /\ Taken(a)[a] = Unlinked(list, kinds)
      /\ \A r \in Mailboxes \ {a} : Taken(a)[r] = queue[r]
  BY <1>1, <1>2 DEF Taken
<1>4. \A d \in Directories : Taken(a)[d] = queue[d]
  BY <1>3, DirectoryIsNoHolder, MailboxesAreFinite
<1>5. ASSUME NEW h \in Holders, NEW i \in DOMAIN Taken(a)[h]
      PROVE  \E j \in DOMAIN queue[h] : queue[h][j] = Taken(a)[h][i]
  <2>1. CASE h = a
    BY <1>2, <1>3, <2>1
  <2>2. CASE h # a
    BY <1>3, <2>2, MailboxesAreFinite
  <2>. QED
    BY <2>1, <2>2
<1>. QED
  BY <1>3, <1>4, <1>5 DEF AddsNoNews

LEMMA WithIsNoNews ==
    ASSUME NEW q \in [Mailboxes -> Seq(Messages)], AddsNoNews(q), NEW s \in Posts,
           \A d \in Directories : q[d] = queue[d],
           s.msg.kind \notin {"REGISTER", "INFO"},
           s.msg.kind = "LOCATE" => s.to = Directory(s.msg.core)
    PROVE  AddsNoNews(With(q, s))
<1>. DEFINE m == s.msg to == s.to
<1>1. to \in Mailboxes /\ m \in Messages
  BY DEF Posts
<1>2. /\ With(q, s)[to] = Append(q[to], m)
      /\ \A r \in Mailboxes \ {to} : With(q, s)[r] = q[r]
  BY <1>1 DEF With
<1>. HIDE DEF m, to
<1>3. ASSUME NEW h \in Holders, NEW i \in DOMAIN With(q, s)[h], With(q, s)[h][i].kind = "INFO"
      PROVE  \E j \in DOMAIN queue[h] : queue[h][j] = With(q, s)[h][i]
  <2>0. h \in Mailboxes /\ q[h] \in Seq(Messages)
    BY MailboxesAreFinite
  <2>1. i \in DOMAIN q[h] /\ With(q, s)[h][i] = q[h][i]
    <3>1. CASE h = to
      <4>1. i \in 1 .. Len(q[h]) + 1
        BY <1>1, <1>2, <1>3, <2>0, <3>1
      <4>2. i # Len(q[h]) + 1
        <5>1. m.kind # "INFO"
          BY DEF m
        <5>. QED
          BY <1>1, <1>2, <1>3, <2>0, <3>1, <5>1
      <4>. QED
        BY <1>1, <1>2, <2>0, <3>1, <4>1, <4>2
    <3>2. CASE h # to
      BY <1>2, <1>3, <2>0, <3>2
    <3>. QED
      BY <3>1, <3>2
  <2>. QED
    BY <1>3, <2>1 DEF AddsNoNews
<1>4. ASSUME NEW d \in Directories
      PROVE  \/ With(q, s)[d] = queue[d]
             \/ \E n \in Messages :
                   /\ n.kind \notin {"REGISTER", "INFO"}
                   /\ n.kind = "LOCATE" => Directory(n.core) = d
                   /\ With(q, s)[d] = Append(queue[d], n)
  <2>0. d \in Mailboxes
    BY MailboxesAreFinite
  <2>1. CASE d = to
    BY <1>1, <1>2, <2>1 DEF m, to
  <2>2. CASE d # to
    BY <1>2, <2>0, <2>2
  <2>. QED
    BY <2>1, <2>2
<1>. QED
  BY <1>3, <1>4 DEF AddsNoNews

LEMMA ReceiveIsNoNews ==
    ASSUME MailTypes, NEW a \in Holders, CanTake(a), queue' = Taken(a), UNCHANGED out
    PROVE  NoNews
<1>1. AddsNoNews(Taken(a))
  BY TakenIsNoNews
<1>. QED
  BY <1>1 DEF NoNews

LEMMA SendIsNoNews ==
    ASSUME MailTypes, NEW s \in Posts, queue' = With(queue, s), UNCHANGED out,
           s.msg.kind \notin Topics
    PROVE  NoNews
<1>1. AddsNoNews(With(queue, s))
  BY MailIsNoNews, WithIsNoNews DEF Topics
<1>. QED
  BY <1>1 DEF NoNews

LEMMA AnswerIsNoNews ==
    ASSUME MailTypes, NEW a \in Holders, CanTake(a), NEW s \in Posts,
           queue' = With(Taken(a), s), UNCHANGED out, s.msg.kind \notin Topics
    PROVE  NoNews
<1>1. AddsNoNews(With(Taken(a), s))
  BY TakenIsNoNews, WithIsNoNews DEF Topics
<1>. QED
  BY <1>1 DEF NoNews

LEMMA FillIsNoNews ==
    ASSUME MailTypes, NEW a \in Holders, out[a] = <<>>, NEW list, Sends(a, list), UNCHANGED queue,
           \A i \in DOMAIN list : list[i].msg.kind \notin Topics
    PROVE  NoNews
<1>1. AddsNoNews(queue')
  BY MailIsNoNews
<1>2. out'[a] = list /\ \A b \in Holders \ {a} : out'[b] = out[b]
  BY DEF MailTypes, Sends
<1>3. NoRegistrations(list) /\ NoRegistrations(out[a])
  BY DEF NoRegistrations, Topics
<1>. QED
  BY <1>1, <1>2, <1>3 DEF NoNews

LEMMA ReceiveAndFillIsNoNews ==
    ASSUME MailTypes, NEW a \in Holders, CanTake(a), NEW list, Sends(a, list), queue' = Taken(a),
           \A i \in DOMAIN list : list[i].msg.kind \notin Topics
    PROVE  NoNews
<1>1. AddsNoNews(queue')
  BY TakenIsNoNews
<1>2. out'[a] = list /\ \A b \in Holders \ {a} : out'[b] = out[b]
  BY DEF MailTypes, Sends
<1>3. NoRegistrations(list) /\ NoRegistrations(out[a])
  BY DEF NoRegistrations, Topics, CanTake
<1>. QED
  BY <1>1, <1>2, <1>3 DEF NoNews

LEMMA NoMailIsNoNews ==
    ASSUME MailTypes, UNCHANGED <<queue, out>>
    PROVE  NoNews
BY MailIsNoNews DEF NoNews

LEMMA ClusterStopIsNoNews ==
    ASSUME MailTypes, ClusterStop, UNCHANGED out
    PROVE  NoNews
<1>. DEFINE m == Control("END")
<1>1. m \in Messages /\ m.kind = "END"
  BY DEF Control, Messages
<1>. HIDE DEF m
<1>2. queue' = [r \in Mailboxes |-> IF r \in Directories /\ ~ shutdown
                                       THEN Append(queue[r], m) ELSE queue[r]]
  BY DEF ClusterStop, MailTypes, m
<1>3. \A h \in Holders : queue'[h] = queue[h]
  BY <1>2, DirectoryIsNoHolder, MailboxesAreFinite
<1>4. \A d \in Directories : queue'[d] = queue[d] \/ queue'[d] = Append(queue[d], m)
  BY <1>2, MailboxesAreFinite
<1>5. AddsNoNews(queue')
  BY <1>1, <1>3, <1>4 DEF AddsNoNews
<1>. QED
  BY <1>5 DEF NoNews

LEMMA UnrelatedStep ==
    ASSUME InquiryInv, Unrelated
    PROVE  InquiryInv' /\ NoNews
<1>1. Kept(Queries)
  BY FewerKinds DEF Unrelated, Topics, Queries
<1>. QED
  BY <1>1, InquiriesStay DEF Unrelated

(* The steps by which messages of other kinds are received or sent.        *)
LEMMA ReceiversAskNobody ==
    ASSUME EInv, NEW a \in Holders,
           \/ Request(a) \/ CollectOffer(a) \/ Accepted(a) \/ Rejected(a) \/ End(a)
           \/ CollectResponse(a)
    PROVE  Unrelated
<1>m. MailTypes /\ AgentTypes
  BY AgentParts
<1>1. CASE Request(a)
  <2>1. /\ CanTake(a) /\ Message(a).kind = "REQUEST" /\ queue' = Taken(a) /\ UNCHANGED out
        /\ pc[a] = "loop" /\ pc' = [pc EXCEPT ![a] = "cores"]
    BY <1>1, BeginIsHandling DEF Request, Takes
  <2>2. AsksNobody(a)
    BY <2>1 DEF AsksNobody, Inquiring
  <2>3. Message(a).kind \notin Topics
    BY <2>1 DEF Topics
  <2>. QED
    BY <1>m, <2>1, <2>2, <2>3, NobodyAsks, ReceiveKeeps, ReceiveIsNoNews DEF Unrelated
<1>2. CASE CollectOffer(a) \/ CollectResponse(a)
  <2>1. /\ CanTake(a) /\ Message(a).kind = "OFFER" /\ queue' = Taken(a) /\ UNCHANGED out
        /\ pc[a] \in {"offers", "responses"} /\ UNCHANGED pc
    BY <1>2 DEF CollectOffer, CollectResponse, Takes
  <2>2. AsksNobody(a)
    BY <2>1 DEF AsksNobody, Inquiring
  <2>3. Message(a).kind \notin Topics
    BY <2>1 DEF Topics
  <2>. QED
    BY <1>m, <2>1, <2>2, <2>3, NobodyAsks, ReceiveKeeps, ReceiveIsNoNews DEF Unrelated
<1>3. CASE Accepted(a) \/ Rejected(a)
  <2>1. /\ CanTake(a) /\ Message(a).kind \in {"ACCEPT", "REJECT"} /\ queue' = Taken(a)
        /\ UNCHANGED out /\ pc[a] = "loop" /\ UNCHANGED pc
    BY <1>3 DEF Accepted, Rejected, Takes
  <2>2. AsksNobody(a)
    BY <2>1 DEF AsksNobody, Inquiring
  <2>3. Message(a).kind \notin Topics
    BY <2>1 DEF Topics
  <2>. QED
    BY <1>m, <2>1, <2>2, <2>3, NobodyAsks, ReceiveKeeps, ReceiveIsNoNews DEF Unrelated
<1>4. CASE End(a)
  <2>1. /\ CanTake(a) /\ Message(a).kind = "END" /\ queue' = Taken(a) /\ UNCHANGED out
        /\ pc[a] = "loop" /\ \E place \in {"stopped", "ending"} : pc' = [pc EXCEPT ![a] = place]
    BY <1>4 DEF End, Goto, Takes
  <2>2. AsksNobody(a)
    BY <2>1 DEF AsksNobody, Inquiring
  <2>3. Message(a).kind \notin Topics
    BY <2>1 DEF Topics
  <2>. QED
    BY <1>m, <2>1, <2>2, <2>3, NobodyAsks, ReceiveKeeps, ReceiveIsNoNews DEF Unrelated
<1>. QED
  BY <1>1, <1>2, <1>3, <1>4

LEMMA MakeOfferAsksNobody ==
    ASSUME EInv, NEW a \in Holders, MakeOffer(a)
    PROVE  Unrelated
<1>. DEFINE m == Message(a)
<1>0. /\ CanTake(a) /\ m.kind = "MAKE_OFFER" /\ UNCHANGED <<out, pc>>
      /\ pc[a] \in {"loop", "offers"}
  BY DEF MakeOffer, Takes
<1>1. PICK cores \in Offerable(a, m.region) :
         queue' = With(Taken(a), Offer(a, m.from, OwnedBy(a, cores)))
  BY DEF MakeOffer
<1>. DEFINE s == Offer(a, m.from, OwnedBy(a, cores))
<1>m. MailTypes /\ AgentTypes /\ owned[a] \subseteq Cores
  BY AgentParts
<1>2. m \in Messages /\ m.from \in Holders
  BY <1>0, <1>m, MessageType, MessageParts
<1>3. cores \subseteq Cores
  BY <1>m DEF Offerable
<1>4. s \in Posts /\ s.msg.kind = "OFFER" /\ queue' = With(Taken(a), s)
  <2>1. s \in Posts
    BY <1>2, <1>3, OffersAreViews, PostsMade
  <2>. QED
    BY <1>1, <2>1 DEF Offer
<1>. HIDE DEF s
<1>5. s.msg.kind \notin Topics /\ m.kind \notin Topics
  BY <1>0, <1>4 DEF Topics
<1>6. AsksNobody(a)
  BY <1>0 DEF AsksNobody, Inquiring
<1>. QED
  BY <1>0, <1>m, <1>4, <1>5, <1>6, AnswerKeeps, AnswerIsNoNews, NobodyAsks DEF Unrelated

LEMMA ForwardAsksNobody ==
    ASSUME EInv, NEW a \in Holders, Forward(a)
    PROVE  Unrelated
<1>. DEFINE s == [to |-> Handler(a),
                  msg |-> [kind |-> "FORWARD", from |-> a, region |-> request[a].region,
                           invader |-> request[a].invader, neighbors |-> Asked(a)]]
<1>0. /\ pc[a] = "cores" /\ queue' = With(queue, s) /\ UNCHANGED out
      /\ \E place \in {"next", "loop"} : pc' = [pc EXCEPT ![a] = place]
  BY DEF Forward, At, Goto
<1>m. MailTypes /\ AgentTypes /\ InHand(a) /\ request[a] \in Requests
  BY AgentParts
<1>1. s \in Posts /\ s.msg.kind = "FORWARD"
  <2>1. request[a].invader # None
    BY <1>0, <1>m, InHandParts DEF RequestInHand, Managing
  <2>2. /\ request[a].invader \in Agents /\ request[a].region \in RegionsHere
        /\ Handler(a) \in Mailboxes /\ Asked(a) \subseteq Holders
    BY <1>m, <2>1, HandlerType, MailboxesAreFinite DEF Requests
  <2>. QED
    BY <2>2 DEF Posts, Messages
<1>. HIDE DEF s
<1>2. AsksNobody(a)
  BY <1>0 DEF AsksNobody, Inquiring
<1>3. s.msg.kind \notin Topics
  BY <1>1 DEF Topics
<1>. QED
  BY <1>0, <1>m, <1>1, <1>2, <1>3, SendKeeps, SendIsNoNews, NobodyAsks DEF Unrelated

LEMMA RespondAsksNobody ==
    ASSUME EInv, NEW a \in Holders, Respond(a)
    PROVE  Unrelated
<1>. DEFINE invader == request[a].invader
<1>0. /\ pc[a] = "offers" /\ UNCHANGED out
      /\ \E place \in {"next", "loop"} : pc' = [pc EXCEPT ![a] = place]
  BY DEF Respond, At, Goto
<1>1. PICK cores \in IF a = invader THEN {{}} ELSE Offerable(a, request[a].region) :
         queue' = With(queue, Offer(a, invader, Concat(request[a].response, OwnedBy(a, cores))))
  BY DEF Respond
<1>m. MailTypes /\ AgentTypes /\ InHand(a) /\ request[a] \in Requests /\ owned[a] \subseteq Cores
  BY AgentParts
<1>. DEFINE s == Offer(a, invader, Concat(request[a].response, OwnedBy(a, cores)))
<1>2. s \in Posts /\ s.msg.kind = "OFFER" /\ queue' = With(queue, s)
  <2>1. invader \in Agents
    BY <1>0, <1>m, InHandParts DEF RequestInHand, Managing, Requests
  <2>2. cores \subseteq Cores
    BY <1>m DEF Offerable
  <2>3. OwnedBy(a, cores) \in Offers /\ request[a].response \in Offers
    BY <1>m, <2>2, OffersAreViews DEF Requests
  <2>4. Concat(request[a].response, OwnedBy(a, cores)) \in Offers
    BY <2>3, OffersAreViews
  <2>. QED
    BY <1>1, <2>1, <2>4, Threads, PostsMade DEF Offer
<1>. HIDE DEF s
<1>3. AsksNobody(a)
  BY <1>0 DEF AsksNobody, Inquiring
<1>4. s.msg.kind \notin Topics
  BY <1>2 DEF Topics
<1>. QED
  BY <1>0, <1>m, <1>2, <1>3, <1>4, SendKeeps, SendIsNoNews, NobodyAsks DEF Unrelated

LEMMA QuestionsAreForOffers ==
    ASSUME NEW a \in Holders, NEW neighbors, neighbors \subseteq Holders,
           NEW region \in RegionsHere, NEW invader \in Agents,
           NEW list, list = Questions(a, neighbors, region, invader)
    PROVE  list \in Seq(Posts) /\ \A i \in DOMAIN list : list[i].msg.kind = "MAKE_OFFER"
<1>1. Questions(a, neighbors, region, invader) \in Seq(Posts)
  BY QuestionsType
<1>. QED
  BY <1>1 DEF Questions

LEMMA ManageAsksNobody ==
    ASSUME EInv, NEW a \in Holders, Manage(a)
    PROVE  Unrelated
<1>. DEFINE inv == request[a].invader
            who == Asked(a)
            list == Questions(a, who, request[a].region, inv)
<1>0. /\ pc[a] = "cores" /\ out[a] = <<>> /\ Sends(a, list)
      /\ pc' = [pc EXCEPT ![a] = "offers"] /\ UNCHANGED queue
  BY AskIsQuestions DEF Manage, At, Goto
<1>m. MailTypes /\ AgentTypes /\ InHand(a) /\ request[a] \in Requests
  BY AgentParts
<1>1. /\ inv \in Agents /\ who \subseteq Holders /\ request[a].region \in RegionsHere
  <2>1. inv # None
    BY <1>0, <1>m, InHandParts DEF RequestInHand, Managing
  <2>. QED
    BY <1>m, <2>1, HandlerType DEF Requests
<1>2. list \in Seq(Posts) /\ \A i \in DOMAIN list : list[i].msg.kind = "MAKE_OFFER"
  BY <1>1, QuestionsAreForOffers
<1>. HIDE DEF list
<1>3. AsksNobody(a)
  BY <1>0 DEF AsksNobody, Inquiring
<1>4. \A i \in DOMAIN list : list[i].msg.kind \notin Topics
  BY <1>2 DEF Topics
<1>. QED
  BY <1>0, <1>m, <1>2, <1>3, <1>4, FillKeeps, FillIsNoNews, NobodyAsks DEF Unrelated

LEMMA ForwardedAsksNobody ==
    ASSUME EInv, NEW a \in Holders, Forwarded(a)
    PROVE  Unrelated
<1>. DEFINE m == Message(a)
            list == Questions(a, m.neighbors, m.region, m.invader)
<1>0. /\ CanTake(a) /\ pc[a] = "loop" /\ m.kind = "FORWARD" /\ queue' = Taken(a)
      /\ Sends(a, list) /\ pc' = [pc EXCEPT ![a] = "offers"]
  BY AskIsQuestions DEF Forwarded, Takes, Goto
<1>m. MailTypes /\ AgentTypes
  BY AgentParts
<1>1. m.neighbors \subseteq Holders /\ m.region \in RegionsHere /\ m.invader \in Agents
  BY <1>0, <1>m, MessageType, MessageParts
<1>2. list \in Seq(Posts) /\ \A i \in DOMAIN list : list[i].msg.kind = "MAKE_OFFER"
  BY <1>1, QuestionsAreForOffers
<1>. HIDE DEF list, m
<1>3. AsksNobody(a)
  BY <1>0 DEF AsksNobody, Inquiring
<1>4. m.kind \notin Topics /\ \A i \in DOMAIN list : list[i].msg.kind \notin Topics
  BY <1>0, <1>2 DEF Topics
<1>. QED
  BY <1>0, <1>m, <1>2, <1>3, <1>4, ReceiveAndFillKeeps, ReceiveAndFillIsNoNews, NobodyAsks DEF m, Unrelated

LEMMA TakeOverAsksNobody ==
    ASSUME EInv, NEW a \in Holders, TakeOver(a)
    PROVE  Kept(Queries) /\ SameInquirers
<1>0. /\ pc[a] = "responses" /\ out[a] = <<>> /\ pc' = [pc EXCEPT ![a] = "round over"]
      /\ UNCHANGED queue
  BY DEF TakeOver, At, Goto
<1>m. MailTypes /\ AgentTypes /\ plan[a] \in Plans
  BY AgentParts
<1>1. PICK taken \in SUBSET Offered(a) : Sends(a, Answers(a, taken))
  BY DEF TakeOver
<1>. DEFINE list == Answers(a, taken)
<1>2. /\ list \in Seq(Posts) /\ Sends(a, list)
      /\ \A i \in DOMAIN list : list[i].msg.kind \in {"ACCEPT", "REJECT", "REGISTER"}
  <2>1. plan[a].offers \in Offers
    BY <1>m DEF Plans
  <2>. QED
    BY <1>1, <2>1, AnswersCount
<1>. HIDE DEF list
<1>3. AsksNobody(a)
  BY <1>0 DEF AsksNobody, Inquiring
<1>4. \A i \in DOMAIN list : list[i].msg.kind \notin Queries
  BY <1>2 DEF Queries
<1>. QED
  BY <1>0, <1>m, <1>2, <1>3, <1>4, FillKeeps, NobodyAsks

LEMMA EndRoundAsksNobody ==
    ASSUME EInv, NEW a \in Holders, EndRound(a)
    PROVE  Unrelated
<1>0. /\ pc[a] = "round over" /\ out[a] = <<>> /\ UNCHANGED queue
      /\ \E place \in {"loop", "ending"} : pc' = [pc EXCEPT ![a] = place]
  BY DEF EndRound, At, Goto
<1>m. MailTypes /\ AgentTypes
  BY AgentParts
<1>1. PICK kind \in {"INVADE", "END"} : Sends(a, ToAll(kind, a))
  BY DEF EndRound
<1>. DEFINE list == ToAll(kind, a)
<1>2. /\ list \in Seq(Posts) /\ DOMAIN list = Agents /\ Sends(a, list)
      /\ \A b \in Agents : list[b].msg = [kind |-> kind, from |-> a]
  BY <1>1, ToAllType
<1>. HIDE DEF list
<1>3. AsksNobody(a)
  BY <1>0 DEF AsksNobody, Inquiring
<1>4. \A i \in DOMAIN list : list[i].msg.kind \notin Topics
  BY <1>2 DEF Topics
<1>. QED
  BY <1>0, <1>m, <1>2, <1>3, <1>4, FillKeeps, FillIsNoNews, NobodyAsks DEF Unrelated

LEMMA ThinkersAskNobody ==
    ASSUME EInv, NEW a \in Holders,
           \/ LookForWinner(a) \/ Seed(a) \/ Try(a) \/ ManageOwn(a)
           \/ AllRequested(a) \/ TryAgain(a)
    PROVE  Unrelated
<1>m. MailTypes /\ AgentTypes
  BY AgentParts
<1>1. UNCHANGED <<queue, out>>
  BY DEF LookForWinner, Seed, Try, ManageOwn, AllRequested, TryAgain, Elsewhere
<1>2. AsksNobody(a)
  <2>1. CASE LookForWinner(a)
    <3>1. pc[a] \in {"lost", "unwon"}
      BY <2>1 DEF LookForWinner, At
    <3>2. \E place \in {"ending", "loop"} : pc' = [pc EXCEPT ![a] = place]
      BY <2>1 DEF LookForWinner, Goto
    <3>. QED
      BY <3>1, <3>2 DEF AsksNobody, Inquiring
  <2>2. CASE Seed(a) \/ TryAgain(a)
    BY <2>2 DEF Seed, TryAgain, At, Goto, AsksNobody, Inquiring
  <2>3. CASE Try(a)
    BY <2>3 DEF Try, At, Goto, AsksNobody, Inquiring
  <2>4. CASE ManageOwn(a)
    <3>1. pc[a] = "next" /\ pc' = [pc EXCEPT ![a] = "cores"]
      BY <2>4, BeginIsHandling DEF ManageOwn, At
    <3>. QED
      BY <3>1 DEF AsksNobody, Inquiring
  <2>5. CASE AllRequested(a)
    BY <2>5 DEF AllRequested, At, Goto, AsksNobody, Inquiring
  <2>. QED
    BY <2>1, <2>2, <2>3, <2>4, <2>5
<1>. QED
  BY <1>m, <1>1, <1>2, NoMailKeepsAll, NoMailIsNoNews, NobodyAsks DEF Unrelated

LEMMA StopAsksNobody ==
    ASSUME EInv, NEW a \in Holders, Stop(a)
    PROVE  Unrelated
<1>. DEFINE s == [to |-> Idle, msg |-> [kind |-> "END", from |-> a]]
<1>0. /\ pc[a] = "ending" /\ \E place \in {"stopped", "last"} : pc' = [pc EXCEPT ![a] = place]
      /\ UNCHANGED queue \/ queue' = With(queue, s)
      /\ UNCHANGED out
  BY DEF Stop, Goto, At
<1>m. MailTypes /\ AgentTypes
  BY AgentParts
<1>1. s \in Posts /\ s.msg.kind = "END"
  BY Threads, MailboxesAreFinite DEF Posts, Messages
<1>. HIDE DEF s
<1>2. AsksNobody(a)
  BY <1>0 DEF AsksNobody, Inquiring
<1>3. s.msg.kind \notin Topics
  BY <1>1 DEF Topics
<1>4. CASE UNCHANGED queue
  BY <1>0, <1>m, <1>2, <1>4, NoMailKeepsAll, NoMailIsNoNews, NobodyAsks DEF Unrelated
<1>5. CASE queue' = With(queue, s)
  BY <1>0, <1>m, <1>1, <1>2, <1>3, <1>5, SendKeeps, SendIsNoNews, NobodyAsks DEF Unrelated
<1>. QED
  BY <1>0, <1>4, <1>5

LEMMA StopClusterAsksNobody ==
    ASSUME EInv, NEW a \in Holders, StopCluster(a)
    PROVE  Unrelated
<1>0. pc[a] = "last" /\ pc' = [pc EXCEPT ![a] = "stopped"] /\ ClusterStop /\ UNCHANGED out
  BY DEF StopCluster, Goto, At
<1>m. MailTypes /\ AgentTypes
  BY AgentParts
<1>1. AsksNobody(a)
  BY <1>0 DEF AsksNobody, Inquiring
<1>2. "END" \notin Topics
  BY DEF Topics
<1>. QED
  BY <1>0, <1>m, <1>1, <1>2, ClusterStopKeepsOthers, ClusterStopIsNoNews, NobodyAsks DEF Unrelated

LEMMA InvadeAsksNobody ==
    ASSUME EInv, NEW a \in Holders, Invade(a)
    PROVE  Unrelated
<1>0. /\ CanTake(a) /\ Message(a).kind = "INVADE" /\ pc[a] = "loop" /\ queue' = Taken(a)
      /\ UNCHANGED out
  BY DEF Invade, Takes
<1>m. MailTypes /\ AgentTypes
  BY AgentParts
<1>1. Message(a).kind \notin Topics
  BY <1>0 DEF Topics
<1>2. SameInquirers
  <2>1. \A b, winner : Outcome(b, winner) \in {"unwon", "seed", "lost"}
    BY DEF Outcome
  <2>2. CASE pc' = [b \in Holders |-> IF pc[b] = "electing" \/ b = a
                                         THEN Outcome(b, Winner(a)) ELSE pc[b]]
    <3>1. ASSUME NEW b \in Holders PROVE pc'[b] \in Inquiring <=> pc[b] \in Inquiring
      <4>1. CASE pc[b] = "electing" \/ b = a
        <5>1. pc'[b] = Outcome(b, Winner(a))
          BY <2>2, <4>1
        <5>2. pc'[b] \in {"unwon", "seed", "lost"}
          BY <2>1, <5>1
        <5>3. pc[b] \in {"electing", "loop"}
          BY <1>0, <4>1
        <5>. QED
          BY <5>2, <5>3 DEF Inquiring
      <4>2. CASE ~ (pc[b] = "electing" \/ b = a)
        BY <2>2, <4>2
      <4>. QED
        BY <4>1, <4>2
    <3>. QED
      BY <3>1 DEF SameInquirers
  <2>3. CASE Goto(a, "electing") \/ UNCHANGED pc
    <3>1. AsksNobody(a)
      BY <1>0, <2>3 DEF AsksNobody, Inquiring, Goto
    <3>. QED
      BY <1>m, <3>1, NobodyAsks
  <2>. QED
    BY <2>2, <2>3 DEF Invade
<1>. QED
  BY <1>0, <1>1, <1>2, <1>m, ReceiveKeeps, ReceiveIsNoNews DEF Unrelated

(* The steps that leave everyone where they are.                           *)
LEMMA SendNextAsksNobody ==
    ASSUME EInv, NEW a \in Holders, SendNext(a)
    PROVE  Kept(Queries) /\ SameInquirers
<1>1. MailTypes
  BY DEF EInv
<1>2. UNCHANGED pc
  BY DEF SendNext
<1>. QED
  BY <1>1, <1>2, SendNextKeepsAll DEF SameInquirers

LEMMA OthersAskNobody ==
    ASSUME EInv,
           \/ \E a \in Holders : Crash(a)
           \/ \E a \in Agents : EnterRegion(a) \/ LeaveRegion(a) \/ PassBarrier(a)
           \/ Miss \/ MainStep \/ SendKill \/ UNCHANGED vars
    PROVE  Unrelated
<1>m. MailTypes /\ MainTypes
  BY DEF EInv
<1>1. CASE \/ \E a \in Holders : Crash(a)
           \/ \E a \in Agents : EnterRegion(a) \/ LeaveRegion(a) \/ PassBarrier(a)
           \/ Miss \/ Unload \/ Join \/ UNCHANGED vars
  <2>1. UNCHANGED <<queue, out, pc>>
    BY <1>1 DEF Crash, Miss, MissCenter, MissLocated, FollowNull, EnterRegion, LeaveRegion,
                PassBarrier, Unload, Join, vars, agentVars
  <2>. QED
    BY <1>m, <2>1, NoMailKeepsAll, NoMailIsNoNews DEF SameInquirers, Unrelated
<1>3. CASE SendInvade
  <2>. DEFINE s == [to |-> main.next, msg |-> Control("INVADE")]
  <2>0. queue' = With(queue, s) /\ main.phase = "start" /\ UNCHANGED <<out, pc>>
    BY <1>3 DEF SendInvade, With
  <2>1. s \in Posts /\ s.msg.kind = "INVADE"
    BY <2>0, <1>m, Threads, MailboxesAreFinite DEF Posts, Messages, MainTypes, Control
  <2>. HIDE DEF s
  <2>2. s.msg.kind \notin Topics
    BY <2>1 DEF Topics
  <2>. QED
    BY <1>m, <2>0, <2>1, <2>2, SendKeeps, SendIsNoNews DEF SameInquirers, Unrelated
<1>4. CASE SendKill
  <2>. DEFINE s == [to |-> kill, msg |-> Control("END")]
  <2>0. /\ kill <= N + 1 => queue' = With(queue, s)
        /\ ~ (kill <= N + 1) => ClusterStop
        /\ UNCHANGED <<out, pc>>
    BY <1>4 DEF SendKill, With
  <2>1. SameInquirers
    BY <2>0 DEF SameInquirers
  <2>2. CASE kill <= N + 1
    <3>1. kill \in Holders
      BY <1>m, <2>2, Threads DEF MainTypes
    <3>2. s \in Posts /\ s.msg.kind = "END"
      BY <3>1, MailboxesAreFinite DEF Posts, Messages, Control
    <3>. HIDE DEF s
    <3>3. s.msg.kind \notin Topics
      BY <3>2 DEF Topics
    <3>. QED
      BY <1>m, <2>0, <2>1, <2>2, <3>2, <3>3, SendKeeps, SendIsNoNews DEF Unrelated
  <2>3. CASE ~ (kill <= N + 1)
    <3>1. "END" \notin Topics
      BY DEF Topics
    <3>. QED
      BY <1>m, <2>0, <2>1, <2>3, <3>1, ClusterStopKeepsOthers, ClusterStopIsNoNews DEF Unrelated
  <2>. QED
    BY <2>2, <2>3
<1>. QED
  BY <1>1, <1>3, <1>4 DEF MainStep

(* Questions to a directory and their answers.                             *)
LEMMA InquiryPairs ==
    ASSUME NEW r, NEW x \in Mailboxes, NEW m \in Messages
    PROVE  /\ <<x, m>> \in Inquiries(r) <=> \/ m.kind = "LOCATE" /\ m.from = r
                                            \/ m.kind = "INFO" /\ x = r
           /\ m.kind = "LOCATE" => Unit(<<x, m>>, Inquiries(r)) = IF r = m.from THEN 1 ELSE 0
           /\ m.kind = "INFO" => Unit(<<x, m>>, Inquiries(r)) = IF r = x THEN 1 ELSE 0
           /\ m.kind \notin Queries => Unit(<<x, m>>, Inquiries(r)) = 0
<1>1. <<x, m>> \in Inquiries(r) <=> \/ m.kind = "LOCATE" /\ m.from = r
                                    \/ m.kind = "INFO" /\ x = r
  BY DEF Inquiries
<1>. QED
  BY <1>1, UnitIs DEF Queries

LEMMA InquiriesChange ==
    ASSUME InquiryInv, NEW a \in Holders, \A b \in Holders \ {a} : pc'[b] = pc[b],
           \A r \in Mailboxes :
              /\ UnderWay(Inquiries(r)) \in Nat
              /\ UnderWay(Inquiries(r))' = UnderWay(Inquiries(r))
                    - (IF r = a /\ pc[a] \in Inquiring THEN 1 ELSE 0)
                    + (IF r = a /\ pc'[a] \in Inquiring THEN 1 ELSE 0)
    PROVE  InquiryInv'
<1>1. ASSUME NEW r \in Mailboxes
      PROVE  UnderWay(Inquiries(r))' = IF Asks(r)' THEN 1 ELSE 0
  <2>0. UnderWay(Inquiries(r)) = IF Asks(r) THEN 1 ELSE 0
    BY DEF InquiryInv
  <2>1. CASE r # a
    <3>1. Asks(r)' <=> Asks(r)
      BY <2>1 DEF Asks
    <3>2. UnderWay(Inquiries(r))' = UnderWay(Inquiries(r))
      BY <2>1
    <3>. QED
      BY <2>0, <3>1, <3>2
  <2>2. CASE r = a
    <3>1. (Asks(r)' <=> pc'[a] \in Inquiring) /\ (Asks(r) <=> pc[a] \in Inquiring)
      BY <2>2 DEF Asks
    <3>2. UnderWay(Inquiries(r))' = UnderWay(Inquiries(r))
                    - (IF pc[a] \in Inquiring THEN 1 ELSE 0)
                    + (IF pc'[a] \in Inquiring THEN 1 ELSE 0)
      BY <2>2
    <3>3. UnderWay(Inquiries(r)) = IF pc[a] \in Inquiring THEN 1 ELSE 0
      BY <2>0, <3>1
    <3>4. UnderWay(Inquiries(r))' = IF pc'[a] \in Inquiring THEN 1 ELSE 0
      BY <3>2, <3>3
    <3>. QED
      BY <3>1, <3>4
  <2>. QED
    BY <2>1, <2>2
<1>. QED
  BY <1>1 DEF InquiryInv

LEMMA AskingIsCounted ==
    ASSUME EInv, InquiryInv, NEW a \in Holders, NEW c \in Cores,
           queue' = With(queue, Locate(a, c)), UNCHANGED out,
           pc[a] \notin Inquiring, NEW place \in Inquiring, pc' = [pc EXCEPT ![a] = place]
    PROVE  InquiryInv' /\ NoNews
<1>. DEFINE s == Locate(a, c)
<1>m. MailTypes /\ AgentTypes
  BY AgentParts
<1>1. /\ s \in Posts /\ s.to \in Mailboxes /\ s.msg \in Messages
      /\ s.msg.kind = "LOCATE" /\ s.msg.from = a /\ queue' = With(queue, s)
  <2>1. s \in Posts
    BY PostsMade
  <2>. QED
    BY <2>1 DEF Posts, Locate
<1>. HIDE DEF s
<1>2. pc'[a] \in Inquiring /\ \A b \in Holders \ {a} : pc'[b] = pc[b]
  BY <1>m DEF AgentTypes
<1>3. ASSUME NEW r \in Mailboxes
      PROVE  /\ UnderWay(Inquiries(r)) \in Nat
             /\ UnderWay(Inquiries(r))' = UnderWay(Inquiries(r)) + (IF r = a THEN 1 ELSE 0)
  <2>1. /\ UnderWay(Inquiries(r)) \in Nat
        /\ UnderWay(Inquiries(r))'
              = UnderWay(Inquiries(r)) + Unit(<<s.to, s.msg>>, Inquiries(r))
    BY <1>m, <1>1, SendStep, UnderWayType
  <2>2. Unit(<<s.to, s.msg>>, Inquiries(r)) = IF r = a THEN 1 ELSE 0
    BY <1>1, InquiryPairs
  <2>. QED
    BY <2>1, <2>2
<1>4. ASSUME NEW r \in Mailboxes
      PROVE  /\ UnderWay(Inquiries(r)) \in Nat
             /\ UnderWay(Inquiries(r))' = UnderWay(Inquiries(r))
                    - (IF r = a /\ pc[a] \in Inquiring THEN 1 ELSE 0)
                    + (IF r = a /\ pc'[a] \in Inquiring THEN 1 ELSE 0)
  BY <1>2, <1>3
<1>5. NoNews
  <2>1. s.msg.kind \notin {"REGISTER", "INFO"} /\ s.to = Directory(s.msg.core)
    BY DEF s, Locate
  <2>2. AddsNoNews(With(queue, s))
    BY <1>m, <1>1, <2>1, MailIsNoNews, WithIsNoNews
  <2>. QED
    BY <1>1, <2>2 DEF NoNews
<1>. QED
  BY <1>2, <1>4, <1>5, InquiriesChange

LEMMA AnswerIsCounted ==
    ASSUME EInv, InquiryInv, NEW a \in Holders, CanTake(a), Message(a).kind = "INFO",
           queue' = Taken(a), UNCHANGED out,
           pc[a] \in Inquiring, NEW place, place \notin Inquiring, pc' = [pc EXCEPT ![a] = place]
    PROVE  InquiryInv' /\ NoNews
<1>. DEFINE m == Message(a)
<1>m. MailTypes /\ AgentTypes
  BY AgentParts
<1>1. m \in Messages /\ a \in Mailboxes /\ m.kind = "INFO"
  BY <1>m, MessageType, MailboxesAreFinite
<1>. HIDE DEF m
<1>2. pc'[a] \notin Inquiring /\ \A b \in Holders \ {a} : pc'[b] = pc[b]
  BY <1>m DEF AgentTypes
<1>3. ASSUME NEW r \in Mailboxes
      PROVE  /\ UnderWay(Inquiries(r)) \in Nat
             /\ UnderWay(Inquiries(r))' = UnderWay(Inquiries(r)) - (IF r = a THEN 1 ELSE 0)
  <2>1. /\ UnderWay(Inquiries(r)) \in Nat
        /\ UnderWay(Inquiries(r))' = UnderWay(Inquiries(r)) - Unit(<<a, m>>, Inquiries(r))
    BY <1>m, <1>1, ReceiveStep, UnderWayType DEF m
  <2>2. Unit(<<a, m>>, Inquiries(r)) = IF r = a THEN 1 ELSE 0
    BY <1>1, InquiryPairs
  <2>. QED
    BY <2>1, <2>2
<1>4. ASSUME NEW r \in Mailboxes
      PROVE  /\ UnderWay(Inquiries(r)) \in Nat
             /\ UnderWay(Inquiries(r))' = UnderWay(Inquiries(r))
                    - (IF r = a /\ pc[a] \in Inquiring THEN 1 ELSE 0)
                    + (IF r = a /\ pc'[a] \in Inquiring THEN 1 ELSE 0)
  BY <1>2, <1>3
<1>5. NoNews
  BY <1>m, ReceiveIsNoNews
<1>. QED
  BY <1>2, <1>4, <1>5, InquiriesChange

(* An answer that leads to another message.                                *)
LEMMA ReplyIsCounted ==
    ASSUME EInv, InquiryInv, NEW a \in Holders, CanTake(a), Message(a).kind = "INFO",
           NEW s \in Posts, queue' = With(Taken(a), s), UNCHANGED out,
           pc[a] \in Inquiring, NEW place, pc' = [pc EXCEPT ![a] = place],
           \/ /\ s.msg.kind = "LOCATE" /\ s.msg.from = a /\ place \in Inquiring
              /\ s.to = Directory(s.msg.core)
           \/ s.msg.kind \notin Topics /\ place \notin Inquiring
    PROVE  InquiryInv' /\ NoNews
<1>. DEFINE m == Message(a)
<1>m. MailTypes /\ AgentTypes
  BY AgentParts
<1>1. /\ m \in Messages /\ a \in Mailboxes /\ m.kind = "INFO"
      /\ s.to \in Mailboxes /\ s.msg \in Messages
  BY <1>m, MessageType, MailboxesAreFinite DEF Posts
<1>. HIDE DEF m
<1>2. pc'[a] = place /\ \A b \in Holders \ {a} : pc'[b] = pc[b]
  BY <1>m DEF AgentTypes
<1>4. ASSUME NEW r \in Mailboxes
      PROVE  /\ UnderWay(Inquiries(r)) \in Nat
             /\ UnderWay(Inquiries(r))' = UnderWay(Inquiries(r))
                    - (IF r = a /\ pc[a] \in Inquiring THEN 1 ELSE 0)
                    + (IF r = a /\ pc'[a] \in Inquiring THEN 1 ELSE 0)
  <2>1. /\ UnderWay(Inquiries(r)) \in Nat
        /\ UnderWay(Inquiries(r))' = UnderWay(Inquiries(r)) - Unit(<<a, m>>, Inquiries(r))
                                        + Unit(<<s.to, s.msg>>, Inquiries(r))
    BY <1>m, <1>1, AnswerStep, UnderWayType DEF m
  <2>2. Unit(<<a, m>>, Inquiries(r)) = IF r = a THEN 1 ELSE 0
    BY <1>1, InquiryPairs
  <2>3. Unit(<<s.to, s.msg>>, Inquiries(r)) = IF r = a /\ place \in Inquiring THEN 1 ELSE 0
    <3>1. CASE s.msg.kind = "LOCATE" /\ s.msg.from = a /\ place \in Inquiring
      BY <1>1, <3>1, InquiryPairs
    <3>2. CASE s.msg.kind \notin Topics /\ place \notin Inquiring
      BY <1>1, <3>2, InquiryPairs DEF Topics, Queries
    <3>. QED
      BY <3>1, <3>2
  <2>. QED
    BY <1>2, <2>1, <2>2, <2>3
<1>5. NoNews
  <2>1. /\ s.msg.kind \notin {"REGISTER", "INFO"}
        /\ s.msg.kind = "LOCATE" => s.to = Directory(s.msg.core)
    BY DEF Topics
  <2>2. AddsNoNews(With(Taken(a), s))
    BY <1>m, <2>1, TakenIsNoNews, WithIsNoNews
  <2>. QED
    BY <2>2 DEF NoNews
<1>. QED
  BY <1>2, <1>4, <1>5, InquiriesChange

LEMMA DirectoryIsCounted ==
    ASSUME EInv, InquiryInv, NEW d \in Directories, DirectoryStep(d)
    PROVE  InquiryInv'
<1>. DEFINE m == Head(queue[d])
            s == Information(d)
<1>m. MailTypes
  BY DEF EInv
<1>0. /\ queue[d] # <<>> /\ m \in Messages /\ m.kind \in {"REGISTER", "LOCATE", "END"}
      /\ d \in Mailboxes /\ UNCHANGED <<out, pc>>
      /\ m.kind # "LOCATE" => queue' = Without1st(d)
      /\ m.kind = "LOCATE" => m.from \in Holders /\ s \in Posts /\ queue' = With(Without1st(d), s)
  BY DirectoryAct, MailboxesAreFinite
<1>1. s.msg.kind = "INFO" /\ s.to = m.from
  BY DEF Information
<1>2. m.kind = "LOCATE" => s.to \in Mailboxes /\ s.msg \in Messages
  BY <1>0 DEF Posts
<1>. HIDE DEF s
<1>3. ASSUME NEW r \in Mailboxes
      PROVE  UnderWay(Inquiries(r))' = UnderWay(Inquiries(r))
  <2>0. UnderWay(Inquiries(r)) \in Nat
    BY <1>m, UnderWayType
  <2>1. CASE m.kind = "LOCATE"
    <3>1. UnderWay(Inquiries(r))' = UnderWay(Inquiries(r)) - Unit(<<d, m>>, Inquiries(r))
                                       + Unit(<<s.to, s.msg>>, Inquiries(r))
      BY <1>0, <1>m, <2>1, DirectoryMail DEF Without1st
    <3>. HIDE DEF m
    <3>2. Unit(<<d, m>>, Inquiries(r)) = IF r = m.from THEN 1 ELSE 0
      BY <1>0, <2>1, InquiryPairs
    <3>3. Unit(<<s.to, s.msg>>, Inquiries(r)) = IF r = m.from THEN 1 ELSE 0
      BY <1>1, <1>2, <2>1, InquiryPairs
    <3>. QED
      BY <2>0, <3>1, <3>2, <3>3
  <2>2. CASE m.kind # "LOCATE"
    <3>1. UnderWay(Inquiries(r))' = UnderWay(Inquiries(r)) - Unit(<<d, m>>, Inquiries(r))
      BY <1>0, <1>m, <2>2, DirectoryMail DEF Without1st
    <3>. HIDE DEF m
    <3>2. m.kind \notin Queries
      BY <1>0, <2>2 DEF Queries
    <3>3. Unit(<<d, m>>, Inquiries(r)) = 0
      BY <1>0, <3>2, InquiryPairs
    <3>. QED
      BY <2>0, <3>1, <3>3
  <2>. QED
    BY <2>1, <2>2
<1>4. ASSUME NEW r PROVE Asks(r)' <=> Asks(r)
  BY <1>0 DEF Asks
<1>. QED
  BY <1>3, <1>4 DEF InquiryInv

LEMMA AskersAreCounted ==
    ASSUME EInv, InquiryInv, NEW a \in Holders,
           LocateCore(a) \/ CoreLocated(a) \/ LocateCenter(a) \/ CenterLocated(a) \/ SendRequest(a)
    PROVE  InquiryInv' /\ NoNews
<1>m. /\ MailTypes /\ AgentTypes /\ InHand(a)
      /\ request[a] \in Requests /\ plan[a] \in Plans /\ a \in Mailboxes
  BY AgentParts, MailboxesAreFinite
<1>1. CASE LocateCore(a)
  <2>0. /\ queue' = With(queue, Locate(a, Min(Unlocated(a)))) /\ pc[a] = "cores"
        /\ pc' = [pc EXCEPT ![a] = "owner"] /\ Unlocated(a) # {} /\ UNCHANGED out
    BY <1>1 DEF LocateCore, Goto, At
  <2>1. Min(Unlocated(a)) \in Cores
    <3>1. Unlocated(a) \subseteq Cores
      BY <1>m DEF Unlocated, Requests, RegionsHere
    <3>2. IsFiniteSet(Unlocated(a)) /\ Unlocated(a) \subseteq Int
      BY <3>1, SubsetOfCores
    <3>. QED
      BY <2>0, <3>1, <3>2, LeastElement
  <2>2. pc[a] \notin Inquiring /\ "owner" \in Inquiring
    BY <2>0 DEF Inquiring
  <2>. QED
    BY <2>0, <2>1, <2>2, AskingIsCounted
<1>2. CASE CoreLocated(a)
  <2>0. /\ CanTake(a) /\ Message(a).kind = "INFO" /\ queue' = Taken(a) /\ UNCHANGED out
        /\ pc[a] = "owner" /\ pc' = [pc EXCEPT ![a] = "cores"]
    BY <1>2 DEF CoreLocated, Goto, Takes
  <2>1. pc[a] \in Inquiring /\ "cores" \notin Inquiring
    BY <2>0 DEF Inquiring
  <2>. QED
    BY <2>0, <2>1, AnswerIsCounted
<1>3. CASE LocateCenter(a)
  <2>0. /\ pc[a] = "next" /\ pc' = [pc EXCEPT ![a] = "center"] /\ plan[a].todo # <<>>
        /\ UNCHANGED out
    BY <1>3 DEF LocateCenter, Goto, At
  <2>1. PICK center \in CenterRead(a) : queue' = With(queue, Locate(a, center))
    BY <1>3 DEF LocateCenter
  <2>2. center \in Cores
    BY <1>m, <2>0, <2>1, CenterReadType
  <2>3. pc[a] \notin Inquiring /\ "center" \in Inquiring
    BY <2>0 DEF Inquiring
  <2>. QED
    BY <2>0, <2>1, <2>2, <2>3, AskingIsCounted
<1>4. CASE CenterLocated(a)
  <2>0. CanTake(a) /\ pc[a] = "center" /\ Message(a).kind = "INFO" /\ UNCHANGED out
    BY <1>4 DEF CenterLocated, Takes
  <2>1. pc[a] \in Inquiring /\ "cores" \notin Inquiring /\ "center again" \in Inquiring
    BY <2>0 DEF Inquiring
  <2>2. CASE Message(a).agent = a
    <3>1. queue' = Taken(a) /\ pc' = [pc EXCEPT ![a] = "cores"]
      BY <1>4, <2>2, BeginIsHandling DEF CenterLocated
    <3>. QED
      BY <2>0, <2>1, <3>1, AnswerIsCounted
  <2>3. CASE Message(a).agent # a
    <3>0. PICK center \in CenterRead(a) : queue' = With(Taken(a), Locate(a, center))
      BY <1>4, <2>3 DEF CenterLocated
    <3>. DEFINE s == Locate(a, center)
    <3>1. queue' = With(Taken(a), s) /\ pc' = [pc EXCEPT ![a] = "center again"]
      BY <1>4, <2>3, <3>0 DEF CenterLocated, Goto
    <3>2. center \in Cores
      <4>1. plan[a].todo # <<>>
        BY <1>m, <2>0, InHandParts DEF PlanInHand
      <4>. QED
        BY <1>m, <3>0, <4>1, CenterReadType
    <3>3. /\ s \in Posts /\ s.msg.kind = "LOCATE" /\ s.msg.from = a
          /\ s.to = Directory(s.msg.core)
      BY <3>2, PostsMade DEF Locate
    <3>. HIDE DEF s
    <3>. QED
      BY <2>0, <2>1, <3>1, <3>3, ReplyIsCounted
  <2>. QED
    BY <2>2, <2>3
<1>5. CASE SendRequest(a)
  <2>. DEFINE m == Message(a)
              s == [to |-> m.agent,
                    msg |-> [kind |-> "REQUEST", from |-> a, region |-> Piece(a).region]]
  <2>0. /\ CanTake(a) /\ pc[a] = "center again" /\ m.kind = "INFO" /\ m.agent # Null
        /\ queue' = With(Taken(a), s) /\ pc' = [pc EXCEPT ![a] = "next"] /\ UNCHANGED out
    BY <1>5 DEF SendRequest, Takes, Goto
  <2>1. s \in Posts /\ s.msg.kind = "REQUEST"
    <3>1. plan[a].todo # <<>> /\ plan[a].core # None
      BY <1>m, <2>0, InHandParts DEF PlanInHand, Planning
    <3>2. a \in Agents
      BY <1>m, <3>1, InHandParts DEF PlanInHand
    <3>3. m.agent \in Holders
      BY <1>m, <2>0, MessageType, MessageParts
    <3>4. m.agent \in Mailboxes
      BY <3>3, MailboxesAreFinite
    <3>5. Piece(a).region \in RegionsHere
      BY <1>m, <3>1, PieceType
    <3>. QED
      BY <3>2, <3>4, <3>5 DEF Posts, Messages
  <2>. HIDE DEF s
  <2>2. pc[a] \in Inquiring /\ "next" \notin Inquiring /\ s.msg.kind \notin Topics
    BY <2>0, <2>1 DEF Inquiring, Topics
  <2>. QED
    BY <2>0, <2>1, <2>2, ReplyIsCounted
<1>. QED
  BY <1>1, <1>2, <1>3, <1>4, <1>5

LEMMA InitiallyNobodyAsks ==
    ASSUME Init, EInv
    PROVE  InquiryInv
<1>1. \A P : (\A p \in P : p[2].kind # "REGISTER") => UnderWay(P) = 0
  BY OnlyRegistrations DEF EInv
<1>2. ASSUME NEW r PROVE UnderWay(Inquiries(r)) = 0
  BY <1>1 DEF Inquiries
<1>3. ASSUME NEW r PROVE ~ Asks(r)
  BY DEF Init, Asks, Inquiring
<1>. QED
  BY <1>2, <1>3 DEF InquiryInv

LEMMA HolderStepsKeepInquiries ==
    ASSUME EInv, InquiryInv, NEW a \in Holders, HolderStep(a)
    PROVE  InquiryInv' /\ (NoNews \/ SendNext(a))
<1>1. CASE Request(a) \/ CollectOffer(a) \/ Accepted(a) \/ Rejected(a) \/ End(a)
  BY <1>1, ReceiversAskNobody, UnrelatedStep
<1>2. CASE MakeOffer(a)
  BY <1>2, MakeOfferAsksNobody, UnrelatedStep
<1>3. CASE Forward(a)
  BY <1>3, ForwardAsksNobody, UnrelatedStep
<1>4. CASE Respond(a)
  BY <1>4, RespondAsksNobody, UnrelatedStep
<1>5. CASE Manage(a)
  BY <1>5, ManageAsksNobody, UnrelatedStep
<1>6. CASE Forwarded(a)
  BY <1>6, ForwardedAsksNobody, UnrelatedStep
<1>7. CASE LocateCore(a) \/ CoreLocated(a)
  BY <1>7, AskersAreCounted
<1>8. CASE SendNext(a)
  BY <1>8, SendNextAsksNobody, InquiriesStay
<1>9. CASE Crash(a)
  BY <1>9, OthersAskNobody, UnrelatedStep
<1>. QED
  BY <1>1, <1>2, <1>3, <1>4, <1>5, <1>6, <1>7, <1>8, <1>9 DEF HolderStep

LEMMA AgentStepsKeepInquiries ==
    ASSUME EInv, InquiryInv, NEW a \in Agents, AgentStep(a)
    PROVE  InquiryInv' /\ (NoNews \/ TakeOver(a))
<1>h. a \in Holders
  BY Threads
<1>1. CASE CollectResponse(a)
  BY <1>h, <1>1, ReceiversAskNobody, UnrelatedStep
<1>2. CASE \/ LookForWinner(a) \/ Seed(a) \/ Try(a) \/ ManageOwn(a)
           \/ AllRequested(a) \/ TryAgain(a)
  BY <1>h, <1>2, ThinkersAskNobody, UnrelatedStep
<1>3. CASE TakeOver(a)
  BY <1>h, <1>3, TakeOverAsksNobody, InquiriesStay
<1>4. CASE EndRound(a)
  BY <1>h, <1>4, EndRoundAsksNobody, UnrelatedStep
<1>5. CASE Invade(a)
  BY <1>h, <1>5, InvadeAsksNobody, UnrelatedStep
<1>6. CASE Stop(a)
  BY <1>h, <1>6, StopAsksNobody, UnrelatedStep
<1>7. CASE StopCluster(a)
  BY <1>h, <1>7, StopClusterAsksNobody, UnrelatedStep
<1>8. CASE LocateCenter(a) \/ CenterLocated(a) \/ SendRequest(a)
  BY <1>h, <1>8, AskersAreCounted
<1>9. CASE EnterRegion(a) \/ LeaveRegion(a) \/ PassBarrier(a)
  BY <1>9, OthersAskNobody, UnrelatedStep
<1>. QED
  BY <1>1, <1>2, <1>3, <1>4, <1>5, <1>6, <1>7, <1>8, <1>9 DEF AgentStep

LEMMA StepKeepsInquiries ==
    ASSUME EInv, InquiryInv, [Next]_vars
    PROVE  /\ InquiryInv'
           /\ \/ NoNews
              \/ \E a \in Holders : SendNext(a)
              \/ \E a \in Agents : TakeOver(a)
              \/ \E d \in Directories : DirectoryStep(d)
<1>1. CASE \E d \in Directories : DirectoryStep(d)
  BY <1>1, DirectoryIsCounted
<1>2. CASE Miss \/ MainStep \/ SendKill \/ UNCHANGED vars
  BY <1>2, OthersAskNobody, UnrelatedStep
<1>. QED
  BY <1>1, <1>2, HolderStepsKeepInquiries, AgentStepsKeepInquiries DEF Next, Terminating

(* Without an invader nobody waits for anything.                           *)
LEMMA NobodyIsActive ==
    ASSUME EInv, invading_agent = None
    PROVE  \A a \in Agents : ~ Active(a)
<1>0. ElectionInv /\ ElectionTypes /\ N \in Nat
  BY NAssumption DEF EInv
<1>1. Gathering \/ Decided
  <2>1. ready \in Nat /\ ready <= N
    BY <1>0 DEF ElectionTypes, ElectionInv
  <2>2. ready < N \/ ready = N
    BY <1>0, <2>1
  <2>. QED
    BY <1>0, <2>2 DEF ElectionInv
<1>2. CASE Gathering
  BY <1>2 DEF Gathering
<1>3. CASE Decided
  <2>1. ASSUME NEW a \in Agents, Active(a) PROVE FALSE
    <3>1. pc[a] \in {"unwon", "ending", "last", "stopped"}
      BY <1>3, <2>1 DEF Decided
    <3>2. PlanInHand(a, pc[a], plan[a])
      BY Threads, AgentParts, InHandParts
    <3>. QED
      BY <2>1, <3>1, <3>2 DEF Active, PlanInHand, Planning, Managing
  <2>. QED
    BY <2>1
<1>. QED
  BY <1>1, <1>2, <1>3

(* Nobody asks a directory unless the invader has not got all offers.      *)
LEMMA NobodyAsksWithoutNeed ==
    ASSUME EInv, CoreInv,
           \A a \in Agents : plan[a].core # None =>
              plan[a].awaited = 0 /\ pc[a] \in {"responses", "round over"}
    PROVE  NothingDue /\ \A h \in Holders : pc[h] \notin Inquiring
<1>1. NothingDue
  <2>1. ASSUME NEW x \in Agents, plan[x].core # None PROVE request[x].left = 0
    <3>1. RequestInHand(pc[x], request[x])
      BY Threads, AgentParts, InHandParts
    <3>2. pc[x] \notin Managing
      BY <2>1 DEF Managing
    <3>3. request[x] = NoRequest
      BY <3>1, <3>2 DEF RequestInHand
    <3>4. NoRequest.left = 0
      BY DEF NoRequest, Handling
    <3>. QED
      BY <3>3, <3>4
  <2>. QED
    BY <2>1 DEF NothingDue
<1>2. ASSUME NEW h \in Holders, pc[h] \in Inquiring PROVE FALSE
  <2>0. RequestInHand(pc[h], request[h]) /\ PlanInHand(h, pc[h], plan[h])
    BY AgentParts, InHandParts
  <2>1. CASE pc[h] = "owner"
    <3>1. request[h].invader # None
      BY <2>0, <2>1 DEF RequestInHand, Managing
    <3>2. request[h] = NoRequest
      BY <1>1, NobodyManages
    <3>3. NoRequest.invader = None
      BY DEF NoRequest, Handling
    <3>. QED
      BY <3>1, <3>2, <3>3
  <2>2. CASE pc[h] \in {"center", "center again"}
    <3>1. plan[h].core # None /\ h \in Agents
      BY <2>0, <2>2 DEF PlanInHand, Planning
    <3>. QED
      BY <2>2, <3>1
  <2>. QED
    BY <1>2, <2>1, <2>2 DEF Inquiring
<1>. QED
  BY <1>1, <1>2

LEMMA NobodyIsInquiring ==
    ASSUME EInv, CoreInv, invading_agent = None
    PROVE  NothingDue /\ \A h \in Holders : pc[h] \notin Inquiring
<1>1. \A a \in Agents : plan[a].core = None
  BY NobodyIsActive DEF Active
<1>. QED
  BY <1>1, NobodyAsksWithoutNeed

LEMMA NoQueries ==
    ASSUME EInv, CoreInv, InquiryInv, invading_agent = None,
           NEW x \in Mailboxes, NEW m \in Messages, m.kind \in Queries \union Dealings
    PROVE  \E P : UnderWay(P) = 0 /\ <<x, m>> \in P
<1>0. NothingDue /\ \A h \in Holders : pc[h] \notin Inquiring
  BY NobodyIsInquiring
<1>1. CASE m.kind \in Dealings
  <2>1. <<x, m>> \in InDealings
    BY <1>1 DEF InDealings
  <2>. QED
    BY <1>0, <2>1, NoDealings
<1>2. CASE m.kind \in Queries
  <2>1. PICK r \in Mailboxes : <<x, m>> \in Inquiries(r)
    <3>1. CASE m.kind = "LOCATE"
      BY <3>1, MessageParts, InquiryPairs, MailboxesAreFinite
    <3>2. CASE m.kind = "INFO"
      BY <3>2, InquiryPairs
    <3>. QED
      BY <1>2, <3>1, <3>2 DEF Queries
  <2>2. UnderWay(Inquiries(r)) = 0
    BY <1>0 DEF InquiryInv, Asks
  <2>. QED
    BY <2>1, <2>2
<1>. QED
  BY <1>1, <1>2

LEMMA QuietWithoutInvader ==
    EInv /\ CoreInv /\ InquiryInv => QuietBetweenRounds
<1>. SUFFICES ASSUME EInv, CoreInv, InquiryInv, invading_agent = None,
                     NEW m \in Unread \union Unsent
              PROVE  m.kind \in {"INVADE", "END", "ACCEPT", "REJECT", "REGISTER"}
  BY DEF QuietBetweenRounds
<1>m. MailTypes
  BY DEF EInv
<1>1. ASSUME NEW x \in Mailboxes, NEW n \in Messages, \A P : UnderWay(P) = 0 => <<x, n>> \notin P
      PROVE  n.kind \in {"INVADE", "END", "ACCEPT", "REJECT", "REGISTER"}
  <2>1. n.kind \notin Queries \union Dealings
    BY <1>1, NoQueries
  <2>2. n.kind \in {"INVADE", "END", "LOCATE", "REGISTER", "ACCEPT", "REJECT", "INFO",
                    "REQUEST", "FORWARD", "MAKE_OFFER", "OFFER"}
    BY DEF Messages
  <2>. QED
    BY <2>1, <2>2 DEF Queries, Dealings
<1>2. CASE m \in Unread
  <2>1. DOMAIN queue = Mailboxes
    BY <1>m DEF MailTypes
  <2>2. PICK r \in Mailboxes : \E i \in DOMAIN queue[r] : m = queue[r][i]
    BY <1>2, <2>1 DEF Unread, ToSet
  <2>3. PICK i \in DOMAIN queue[r] : m = queue[r][i]
    BY <2>2
  <2>4. queue[r] \in Seq(Messages)
    BY <1>m DEF MailTypes
  <2>5. m \in Messages
    BY <2>3, <2>4
  <2>6. \A P : UnderWay(P) = 0 => <<r, m>> \notin P
    BY <1>m, <2>3, NoneUnderWay
  <2>. QED
    BY <1>1, <2>5, <2>6
<1>3. CASE m \in Unsent
  <2>1. PICK a \in Holders : \E i \in DOMAIN out[a] : m = out[a][i].msg
    BY <1>3 DEF Unsent
  <2>2. PICK i \in DOMAIN out[a] : m = out[a][i].msg
    BY <2>1
  <2>3. out[a] \in Seq(Posts)
    BY <1>m DEF MailTypes
  <2>4. out[a][i] \in Posts
    BY <2>3
  <2>5. out[a][i].to \in Mailboxes /\ m \in Messages
    BY <2>2, <2>4 DEF Posts
  <2>6. \A P : UnderWay(P) = 0 => <<out[a][i].to, m>> \notin P
    BY <1>m, <2>2, NoneUnderWay
  <2>. QED
    BY <1>1, <2>5, <2>6
<1>. QED
  BY <1>2, <1>3

(* QuietBetweenRounds, for any number of agents and cores: when nobody     *)
(* invades there is no request, question or offer under way and no answer  *)
(* of a directory that the loop of distrm_agent could drop (distrm.c).     *)
THEOREM RoundsEndQuietly == Spec => []QuietBetweenRounds
<1>1. Init => EInv /\ InquiryInv
  BY InitEstablishes, InitiallyNobodyAsks
<1>2. (EInv /\ CoreInv) /\ InquiryInv /\ [Next]_vars => InquiryInv'
  BY StepKeepsInquiries
<1>3. (EInv /\ CoreInv) /\ InquiryInv => QuietBetweenRounds
  BY QuietWithoutInvader
<1>. QED
  BY <1>1, <1>2, <1>3, CoreInvariant, PTL DEF Spec

-----------------------------------------------------------------------------
(* What the directories know.  An agent that gains cores tells their       *)
(* directories before it ends its round, and until then nobody can ask.    *)
RegistersCore(m, c) == m.kind = "REGISTER" /\ m.core = c
Announces(b, c) == \E i \in DOMAIN out[b] : RegistersCore(out[b][i].msg, c)

(* Questions and registrations are in the mailbox of the right directory,  *)
(* and no registration is behind a question.                               *)
AddressInv ==
    /\ \A d \in Directories : \A i \in DOMAIN queue[d] :
          queue[d][i].kind \in {"LOCATE", "REGISTER"} => Directory(queue[d][i].core) = d
    /\ \A b \in Holders : \A i \in DOMAIN out[b] :
          out[b][i].msg.kind = "REGISTER" => out[b][i].to = Directory(out[b][i].msg.core)
NewsFirst(list) ==
    \A i, j \in DOMAIN list : i < j /\ list[i].kind = "LOCATE" => list[j].kind # "REGISTER"
NewsInv == \A d \in Directories : NewsFirst(queue[d])

(* Whom a directory will name for core c when it has read its mailbox, if  *)
(* it names known now.                                                     *)
Latest(list, known, c, h) ==
    \/ known = h /\ \A i \in DOMAIN list : ~ RegistersCore(list[i], c)
    \/ \E i \in DOMAIN list :
          /\ RegistersCore(list[i], c) /\ list[i].from = h
          /\ \A j \in DOMAIN list : j > i => ~ RegistersCore(list[j], c)
KnownInv ==
    \A c \in Cores :
        /\ \A b \in Holders : Announces(b, c) => b = HolderOf(c)
        /\ \/ \E b \in Holders : Announces(b, c)
           \/ Latest(queue[Directory(c)], directory[c], c, HolderOf(c))

(* LocatedIsHolder, for each mailbox.                                      *)
TruthInv ==
    \A r \in Mailboxes : \A i \in DOMAIN queue[r], c \in Cores :
        queue[r][i].kind = "INFO" /\ queue[r][i].core = c => queue[r][i].agent = HolderOf(c)

DirectoryInv == AddressInv /\ NewsInv /\ KnownInv /\ TruthInv

LEMMA Appended ==
    ASSUME NEW list \in Seq(Messages), NEW m \in Messages
    PROVE  /\ DOMAIN list = 1 .. Len(list) /\ Len(list) \in Nat
           /\ DOMAIN Append(list, m) = 1 .. Len(list) + 1
           /\ Append(list, m)[Len(list) + 1] = m
           /\ \A i \in 1 .. Len(list) : Append(list, m)[i] = list[i]
OBVIOUS

LEMMA LatestAppend ==
    ASSUME NEW list \in Seq(Messages), NEW m \in Messages, NEW c, NEW known, NEW h
    PROVE  /\ ~ RegistersCore(m, c) /\ Latest(list, known, c, h)
                 => Latest(Append(list, m), known, c, h)
           /\ RegistersCore(m, c) /\ m.from = h => Latest(Append(list, m), known, c, h)
<1>. DEFINE new == Append(list, m)
<1>0. /\ DOMAIN list = 1 .. Len(list) /\ Len(list) \in Nat
      /\ DOMAIN new = 1 .. Len(list) + 1 /\ new[Len(list) + 1] = m
      /\ \A i \in 1 .. Len(list) : new[i] = list[i]
  BY Appended
<1>. HIDE DEF new
<1>1. \A i \in DOMAIN new : \/ i \in DOMAIN list /\ new[i] = list[i]
                            \/ i = Len(list) + 1 /\ new[i] = m
  BY <1>0
<1>2. ASSUME ~ RegistersCore(m, c), Latest(list, known, c, h) PROVE Latest(new, known, c, h)
  <2>1. CASE known = h /\ \A i \in DOMAIN list : ~ RegistersCore(list[i], c)
    BY <1>1, <1>2, <2>1 DEF Latest
  <2>2. CASE \E i \in DOMAIN list :
                /\ RegistersCore(list[i], c) /\ list[i].from = h
                /\ \A j \in DOMAIN list : j > i => ~ RegistersCore(list[j], c)
    <3>1. PICK i \in DOMAIN list :
                /\ RegistersCore(list[i], c) /\ list[i].from = h
                /\ \A j \in DOMAIN list : j > i => ~ RegistersCore(list[j], c)
      BY <2>2
    <3>2. i \in DOMAIN new /\ new[i] = list[i]
      BY <1>0
    <3>3. \A j \in DOMAIN new : j > i => ~ RegistersCore(new[j], c)
      BY <1>1, <1>2, <3>1
    <3>. QED
      BY <3>1, <3>2, <3>3 DEF Latest
  <2>. QED
    BY <1>2, <2>1, <2>2 DEF Latest
<1>3. ASSUME RegistersCore(m, c), m.from = h PROVE Latest(new, known, c, h)
  <2>1. Len(list) + 1 \in DOMAIN new /\ new[Len(list) + 1] = m
    BY <1>0
  <2>2. \A j \in DOMAIN new : ~ (j > Len(list) + 1)
    BY <1>0
  <2>. QED
    BY <1>3, <2>1, <2>2 DEF Latest
<1>. QED
  BY <1>2, <1>3 DEF new

LEMMA Shifted ==
    ASSUME NEW list \in Seq(Messages), list # <<>>
    PROVE  /\ DOMAIN list = 1 .. Len(list) /\ Len(list) \in Nat /\ Len(list) >= 1
           /\ DOMAIN Tail(list) = 1 .. Len(list) - 1 /\ Head(list) = list[1]
           /\ \A i \in 1 .. Len(list) - 1 : Tail(list)[i] = list[i + 1]
           /\ Tail(list) \in Seq(Messages)
OBVIOUS

LEMMA LatestTail ==
    ASSUME NEW list \in Seq(Messages), list # <<>>, NEW c, NEW known, NEW h,
           Latest(list, known, c, h)
    PROVE  Latest(Tail(list), IF RegistersCore(Head(list), c) THEN Head(list).from ELSE known,
                  c, h)
<1>. DEFINE new == Tail(list)
<1>0. /\ DOMAIN list = 1 .. Len(list) /\ Len(list) \in Nat /\ Len(list) >= 1
      /\ DOMAIN new = 1 .. Len(list) - 1 /\ Head(list) = list[1]
      /\ \A i \in DOMAIN new : i + 1 \in DOMAIN list /\ new[i] = list[i + 1]
  BY Shifted
<1>. HIDE DEF new
<1>1. CASE known = h /\ \A i \in DOMAIN list : ~ RegistersCore(list[i], c)
  <2>1. ~ RegistersCore(Head(list), c)
    BY <1>0, <1>1
  <2>2. \A i \in DOMAIN new : ~ RegistersCore(new[i], c)
    BY <1>0, <1>1
  <2>. QED
    BY <1>1, <2>1, <2>2 DEF Latest, new
<1>2. CASE \E i \in DOMAIN list :
              /\ RegistersCore(list[i], c) /\ list[i].from = h
              /\ \A j \in DOMAIN list : j > i => ~ RegistersCore(list[j], c)
  <2>1. PICK i \in DOMAIN list :
              /\ RegistersCore(list[i], c) /\ list[i].from = h
              /\ \A j \in DOMAIN list : j > i => ~ RegistersCore(list[j], c)
    BY <1>2
  <2>2. CASE i = 1
    <3>1. RegistersCore(Head(list), c) /\ Head(list).from = h
      BY <1>0, <2>1, <2>2
    <3>2. \A j \in DOMAIN new : ~ RegistersCore(new[j], c)
      <4>1. ASSUME NEW j \in DOMAIN new PROVE ~ RegistersCore(new[j], c)
        <5>1. j + 1 > i /\ j + 1 \in DOMAIN list /\ new[j] = list[j + 1]
          BY <1>0, <2>2
        <5>. QED
          BY <2>1, <5>1
      <4>. QED
        BY <4>1
    <3>. QED
      BY <3>1, <3>2 DEF Latest, new
  <2>3. CASE i # 1
    <3>. DEFINE k == i - 1
    <3>1. k \in DOMAIN new /\ k + 1 = i
      BY <1>0, <2>3
    <3>2. RegistersCore(new[k], c) /\ new[k].from = h
      BY <1>0, <2>1, <3>1
    <3>3. ASSUME NEW j \in DOMAIN new, j > k PROVE ~ RegistersCore(new[j], c)
      <4>1. j + 1 > i /\ j + 1 \in DOMAIN list /\ new[j] = list[j + 1]
        BY <1>0, <3>1, <3>3
      <4>. QED
        BY <2>1, <4>1
    <3>. HIDE DEF k
    <3>. QED
      BY <3>1, <3>2, <3>3 DEF Latest, new
  <2>. QED
    BY <2>2, <2>3
<1>. QED
  BY <1>1, <1>2 DEF Latest

LEMMA NewsFirstStays ==
    ASSUME NEW list \in Seq(Messages), NewsFirst(list)
    PROVE  /\ \A m \in Messages :
                 m.kind # "REGISTER" \/ (\A i \in DOMAIN list : list[i].kind # "LOCATE")
                    => NewsFirst(Append(list, m))
           /\ list # <<>> => NewsFirst(Tail(list))
<1>1. ASSUME NEW m \in Messages,
             m.kind # "REGISTER" \/ (\A i \in DOMAIN list : list[i].kind # "LOCATE")
      PROVE  NewsFirst(Append(list, m))
  <2>. DEFINE new == Append(list, m)
  <2>0. /\ DOMAIN list = 1 .. Len(list) /\ Len(list) \in Nat
        /\ DOMAIN new = 1 .. Len(list) + 1 /\ new[Len(list) + 1] = m
        /\ \A i \in 1 .. Len(list) : new[i] = list[i]
    BY Appended
  <2>. HIDE DEF new
  <2>1. ASSUME NEW i \in DOMAIN new, NEW j \in DOMAIN new, i < j, new[i].kind = "LOCATE"
        PROVE  new[j].kind # "REGISTER"
    <3>1. i \in DOMAIN list /\ new[i] = list[i]
      BY <2>0, <2>1
    <3>2. CASE j = Len(list) + 1
      BY <1>1, <2>0, <2>1, <3>1, <3>2
    <3>3. CASE j # Len(list) + 1
      <4>1. j \in DOMAIN list /\ new[j] = list[j]
        BY <2>0, <3>3
      <4>. QED
        BY <2>1, <3>1, <4>1 DEF NewsFirst
    <3>. QED
      BY <3>2, <3>3
  <2>. QED
    BY <2>1 DEF NewsFirst, new
<1>2. ASSUME list # <<>> PROVE NewsFirst(Tail(list))
  <2>. DEFINE new == Tail(list)
  <2>0. /\ DOMAIN list = 1 .. Len(list) /\ Len(list) \in Nat
        /\ DOMAIN new = 1 .. Len(list) - 1
        /\ \A i \in 1 .. Len(list) - 1 : new[i] = list[i + 1]
    BY <1>2, Shifted
  <2>. HIDE DEF new
  <2>1. ASSUME NEW i \in DOMAIN new, NEW j \in DOMAIN new, i < j, new[i].kind = "LOCATE"
        PROVE  new[j].kind # "REGISTER"
    <3>1. /\ i + 1 \in DOMAIN list /\ j + 1 \in DOMAIN list /\ i + 1 < j + 1
          /\ new[i] = list[i + 1] /\ new[j] = list[j + 1]
      BY <2>0, <2>1
    <3>. QED
      BY <2>1, <3>1 DEF NewsFirst
  <2>. QED
    BY <2>1 DEF NewsFirst, new
<1>. QED
  BY <1>1, <1>2

(* Steps without news.                                                     *)
LEMMA NoNewsIsSafe ==
    ASSUME MailTypes, DirectoryInv, NoNews, UNCHANGED directory,
           \A c \in Cores : HolderOf(c)' = HolderOf(c)
    PROVE  DirectoryInv'
<1>m. /\ queue \in [Mailboxes -> Seq(Messages)]
      /\ \A d \in Directories : d \in Mailboxes /\ queue[d] \in Seq(Messages)
      /\ \A c \in Cores : Directory(c) \in Directories
  BY MailboxesAreFinite, DirectoryIsNoHolder DEF MailTypes
<1>1. ASSUME NEW d \in Directories
      PROVE  \/ queue'[d] = queue[d]
             \/ \E m \in Messages :
                   /\ m.kind \notin {"REGISTER", "INFO"}
                   /\ m.kind = "LOCATE" => Directory(m.core) = d
                   /\ queue'[d] = Append(queue[d], m)
  BY DEF NoNews, AddsNoNews
<1>2. ASSUME NEW d \in Directories, NEW i \in DOMAIN queue'[d]
      PROVE  \/ i \in DOMAIN queue[d] /\ queue'[d][i] = queue[d][i]
             \/ /\ queue'[d][i].kind \notin {"REGISTER", "INFO"}
                /\ queue'[d][i].kind = "LOCATE" => Directory(queue'[d][i].core) = d
  <2>1. CASE queue'[d] = queue[d]
    BY <2>1
  <2>2. ASSUME NEW m \in Messages, m.kind \notin {"REGISTER", "INFO"},
               m.kind = "LOCATE" => Directory(m.core) = d, queue'[d] = Append(queue[d], m)
        PROVE  \/ i \in DOMAIN queue[d] /\ queue'[d][i] = queue[d][i]
               \/ queue'[d][i] = m
    <3>1. /\ DOMAIN queue[d] = 1 .. Len(queue[d]) /\ Len(queue[d]) \in Nat
          /\ i \in 1 .. Len(queue[d]) + 1
          /\ queue'[d][Len(queue[d]) + 1] = m
          /\ \A j \in 1 .. Len(queue[d]) : queue'[d][j] = queue[d][j]
      BY <1>m, <1>2, <2>2, Appended
    <3>. QED
      BY <3>1
  <2>. QED
    BY <1>1, <2>1, <2>2
<1>3. ASSUME NEW b \in Holders, NEW c PROVE Announces(b, c)' <=> Announces(b, c)
  <2>1. CASE out'[b] = out[b]
    BY <2>1 DEF Announces
  <2>2. CASE NoRegistrations(out[b]) /\ NoRegistrations(out'[b])
    BY <2>2 DEF NoRegistrations, Announces, RegistersCore
  <2>. QED
    BY <2>1, <2>2 DEF NoNews
<1>4. AddressInv'
  <2>1. ASSUME NEW d \in Directories, NEW i \in DOMAIN queue'[d],
               queue'[d][i].kind \in {"LOCATE", "REGISTER"}
        PROVE  Directory(queue'[d][i].core) = d
    BY <1>2, <2>1 DEF DirectoryInv, AddressInv
  <2>2. ASSUME NEW b \in Holders, NEW i \in DOMAIN out'[b], out'[b][i].msg.kind = "REGISTER"
        PROVE  out'[b][i].to = Directory(out'[b][i].msg.core)
    <3>1. out'[b] = out[b]
      BY <2>2 DEF NoNews, NoRegistrations
    <3>. QED
      BY <2>2, <3>1 DEF DirectoryInv, AddressInv
  <2>. QED
    BY <2>1, <2>2 DEF AddressInv
<1>5. NewsInv'
  <2>1. ASSUME NEW d \in Directories PROVE NewsFirst(queue'[d])
    <3>1. NewsFirst(queue[d]) /\ queue[d] \in Seq(Messages)
      BY <1>m DEF DirectoryInv, NewsInv
    <3>. QED
      BY <1>1, <3>1, NewsFirstStays
  <2>. QED
    BY <2>1 DEF NewsInv, NewsFirst
<1>6. TruthInv'
  <2>1. ASSUME NEW r \in Mailboxes, NEW i \in DOMAIN queue'[r], queue'[r][i].kind = "INFO"
        PROVE  \E j \in DOMAIN queue[r] : queue[r][j] = queue'[r][i]
    <3>1. CASE r \in Holders
      BY <2>1, <3>1 DEF NoNews, AddsNoNews
    <3>2. CASE r \in Directories
      BY <1>2, <2>1, <3>2
    <3>. QED
      BY <3>1, <3>2 DEF Mailboxes
  <2>2. ASSUME NEW r \in Mailboxes, NEW i \in DOMAIN queue'[r], NEW c \in Cores,
               queue'[r][i].kind = "INFO", queue'[r][i].core = c
        PROVE  queue'[r][i].agent = HolderOf(c)'
    <3>1. PICK j \in DOMAIN queue[r] : queue[r][j] = queue'[r][i]
      BY <2>1, <2>2
    <3>2. queue[r][j].agent = HolderOf(c)
      BY <2>2, <3>1 DEF DirectoryInv, TruthInv
    <3>3. HolderOf(c)' = HolderOf(c)
      OBVIOUS
    <3>. QED
      BY <3>1, <3>2, <3>3
  <2>. QED
    BY <2>2 DEF TruthInv
<1>7. KnownInv'
  <2>1. ASSUME NEW c \in Cores
        PROVE  /\ \A b \in Holders : Announces(b, c)' => b = HolderOf(c)'
               /\ \/ \E b \in Holders : Announces(b, c)'
                  \/ Latest(queue[Directory(c)], directory[c], c, HolderOf(c))'
    <3>. DEFINE d == Directory(c)
    <3>0. HolderOf(c)' = HolderOf(c) /\ d \in Directories /\ queue[d] \in Seq(Messages)
      BY <1>m
    <3>1. PICK h : h = HolderOf(c)
      OBVIOUS
    <3>2. \A b \in Holders : Announces(b, c)' => b = HolderOf(c)'
      BY <1>3, <3>0 DEF DirectoryInv, KnownInv
    <3>3. CASE \E b \in Holders : Announces(b, c)
      BY <1>3, <3>2, <3>3
    <3>4. CASE Latest(queue[d], directory[c], c, HolderOf(c))
      <4>1. Latest(queue[d], directory[c], c, h)
        BY <3>1, <3>4
      <4>. HIDE DEF d
      <4>2. ASSUME queue'[d] = queue[d] PROVE Latest(queue'[d], directory[c], c, h)
        BY <4>1, <4>2
      <4>3. ASSUME NEW m \in Messages, m.kind # "REGISTER", queue'[d] = Append(queue[d], m)
            PROVE  Latest(queue'[d], directory[c], c, h)
        <5>1. ~ RegistersCore(m, c)
          BY <4>3 DEF RegistersCore
        <5>. QED
          BY <3>0, <4>1, <4>3, <5>1, LatestAppend
      <4>4. HolderOf(c)' = h /\ directory'[c] = directory[c]
        BY <3>0, <3>1
      <4>5. Latest(queue'[d], directory'[c], c, h)
        BY <1>1, <3>0, <4>1, <4>2, <4>3, <4>4
      <4>6. Latest(queue[Directory(c)], directory[c], c, HolderOf(c))'
        BY <4>4, <4>5 DEF Latest, d
      <4>. QED
        BY <3>2, <4>6
    <3>. QED
      BY <3>2, <3>3, <3>4 DEF DirectoryInv, KnownInv
  <2>. QED
    BY <2>1 DEF KnownInv
<1>. QED
  BY <1>4, <1>5, <1>6, <1>7 DEF DirectoryInv

LEMMA NoQuestions ==
    ASSUME EInv, InquiryInv, \A h \in Holders : pc[h] \notin Inquiring,
           NEW r \in Mailboxes, NEW i \in DOMAIN queue[r]
    PROVE  queue[r][i].kind \notin Queries
<1>. DEFINE m == queue[r][i]
<1>m. MailTypes
  BY DEF EInv
<1>1. m \in Messages
  BY <1>m DEF MailTypes
<1>2. ASSUME NEW x PROVE <<r, m>> \notin Inquiries(x)
  <2>1. CASE x \in Mailboxes
    <3>1. UnderWay(Inquiries(x)) = 0
      BY <2>1 DEF InquiryInv, Asks
    <3>. QED
      BY <1>m, <3>1, NoneUnderWay
  <2>2. CASE x \notin Mailboxes
    BY <1>1, <2>2, InquiryPairs, MessageParts, MailboxesAreFinite
  <2>. QED
    BY <2>1, <2>2
<1>. HIDE DEF m
<1>3. m.kind \notin Queries
  BY <1>1, <1>2, InquiryPairs DEF Queries
<1>. QED
  BY <1>3 DEF m

LEMMA AnnouncersAreDone ==
    ASSUME EInv, CoreInv, NEW b \in Holders, NEW i \in DOMAIN out[b],
           out[b][i].msg.kind = "REGISTER"
    PROVE  /\ pc[b] = "round over" /\ out[b][i].msg.from = b /\ b \in Agents /\ Active(b)
           /\ \A h \in Holders : pc[h] \notin Inquiring
<1>1. OutInHand(b, pc[b], out[b]) /\ PlanInHand(b, pc[b], plan[b])
  BY AgentParts, InHandParts
<1>2. pc[b] = "round over" /\ out[b][i].msg.from = b
  BY <1>1 DEF OutInHand, Outgoing
<1>3. plan[b].core # None /\ b \in Agents /\ plan[b].awaited = 0
  BY <1>1, <1>2 DEF PlanInHand, Planning
<1>4. Active(b)
  BY <1>3 DEF Active
<1>5. \A x \in Agents : plan[x].core # None => x = b
  BY <1>3, <1>4, InvaderIsAlone DEF Active
<1>6. \A h \in Holders : pc[h] \notin Inquiring
  BY <1>2, <1>3, <1>5, NobodyAsksWithoutNeed
<1>. QED
  BY <1>2, <1>3, <1>4, <1>6

(* The invader tells the directories of the cores that it takes.           *)
LEMMA TakeOverIsAnnounced ==
    ASSUME EInv, EInv', CoreInv, CoreInv', InquiryInv, DirectoryInv, NEW a \in Agents, TakeOver(a)
    PROVE  DirectoryInv'
<1>h. a \in Holders
  BY Threads
<1>0. /\ pc[a] = "responses" /\ out[a] = <<>> /\ plan[a].awaited = 0
      /\ UNCHANGED <<queue, directory>>
  BY DEF TakeOver, At, Elsewhere, clusterVars
<1>m. /\ MailTypes /\ plan[a] \in Plans /\ PlanInHand(a, pc[a], plan[a])
      /\ \A d \in Directories : d \in Mailboxes
      /\ \A c \in Cores : Directory(c) \in Directories
  BY <1>h, AgentParts, InHandParts, MailboxesAreFinite, DirectoryIsNoHolder
<1>1. Active(a)
  BY TakeOverIsSafe
<1>2. \A h \in Holders : pc[h] \notin Inquiring
  <2>1. \A x \in Agents : plan[x].core # None => x = a
    BY <1>1, InvaderIsAlone DEF Active
  <2>. QED
    BY <1>0, <2>1, NobodyAsksWithoutNeed
<1>3. \A r \in Mailboxes : \A i \in DOMAIN queue[r] : queue[r][i].kind \notin Queries
  BY <1>2, NoQuestions
<1>4. \A b \in Holders : \A i \in DOMAIN out[b] : out[b][i].msg.kind # "REGISTER"
  <2>1. ASSUME NEW b \in Holders, NEW i \in DOMAIN out[b], out[b][i].msg.kind = "REGISTER"
        PROVE  FALSE
    <3>1. pc[b] = "round over" /\ b \in Agents /\ Active(b)
      BY <2>1, AnnouncersAreDone
    <3>2. b = a
      BY <1>1, <3>1, InvaderIsAlone
    <3>. QED
      BY <1>0, <3>1, <3>2
  <2>. QED
    BY <2>1
<1>5. PICK taken \in SUBSET Cores :
          /\ taken \subseteq Offered(a) /\ Sends(a, Answers(a, taken)) /\ Captures(a, taken)
  BY TakeOverIsSafe
<1>6. \A c \in Cores : HolderOf(c)' = IF c \in taken THEN a ELSE HolderOf(c)
  BY <1>5, HoldersAfterCapture
<1>. DEFINE list == Answers(a, taken)
            numbers == InOrderOfId(AnswerNumbers(a, taken))
<1>7. /\ \A c \in taken : \E i \in DOMAIN list : numbers[i] = 2 * c + 1
      /\ \A i \in DOMAIN list :
            \/ \E c \in Offered(a) : numbers[i] = 2 * c /\ list[i] = Answered(a, taken, c)
            \/ \E c \in taken : numbers[i] = 2 * c + 1 /\ list[i] = Register(a, c)
  <2>1. plan[a].offers \in Offers
    BY <1>m DEF Plans
  <2>. QED
    BY <1>h, <1>5, <2>1, AnswersAre
<1>8. \A c \in taken : \E i \in DOMAIN list : list[i] = Register(a, c)
  <2>1. ASSUME NEW c \in taken PROVE \E i \in DOMAIN list : list[i] = Register(a, c)
    <3>1. PICK i \in DOMAIN list : numbers[i] = 2 * c + 1
      BY <1>7
    <3>. HIDE DEF list, numbers
    <3>2. taken \subseteq Int /\ Offered(a) \subseteq Int
      <4>1. Cores \subseteq Int /\ plan[a].offers \in Offers
        BY <1>m, CoresAreNumbers DEF Plans
      <4>2. Offered(a) \subseteq Cores
        BY <4>1, OffersAreViews DEF Offered
      <4>. QED
        BY <4>1, <4>2
    <3>3. \A k \in Offered(a) : numbers[i] # 2 * k
      BY <3>1, <3>2
    <3>4. PICK k \in taken : numbers[i] = 2 * k + 1 /\ list[i] = Register(a, k)
      BY <1>7, <3>3
    <3>5. k = c
      BY <3>1, <3>2, <3>4
    <3>. QED
      BY <3>4, <3>5
  <2>. QED
    BY <2>1
<1>9. \A i \in DOMAIN list :
         list[i].msg.kind # "REGISTER" \/ \E c \in taken : list[i] = Register(a, c)
  <2>1. ASSUME NEW c PROVE Answered(a, taken, c).msg.kind # "REGISTER"
    BY DEF Answered, Reply
  <2>. HIDE DEF list, numbers
  <2>. QED
    BY <1>7, <2>1
<1>10. out'[a] = list /\ \A b \in Holders \ {a} : out'[b] = out[b]
  BY <1>h, <1>m, <1>5 DEF Sends, MailTypes
<1>. HIDE DEF list, numbers
<1>11. ASSUME NEW c \in Cores, NEW b \in Holders
       PROVE  Announces(b, c)' <=> b = a /\ c \in taken
  <2>1. CASE b # a
    BY <1>4, <1>10, <2>1 DEF Announces, RegistersCore
  <2>2. CASE b = a
    <3>1. Announces(b, c)' <=> \E i \in DOMAIN list : RegistersCore(list[i].msg, c)
      BY <1>10, <2>2 DEF Announces
    <3>2. ASSUME NEW i \in DOMAIN list, RegistersCore(list[i].msg, c) PROVE c \in taken
      <4>1. PICK k \in taken : list[i] = Register(a, k)
        BY <1>9, <3>2 DEF RegistersCore
      <4>2. k = c
        BY <3>2, <4>1 DEF RegistersCore, Register
      <4>. QED
        BY <4>2
    <3>3. ASSUME c \in taken PROVE \E i \in DOMAIN list : RegistersCore(list[i].msg, c)
      <4>1. PICK i \in DOMAIN list : list[i] = Register(a, c)
        BY <1>8, <3>3
      <4>2. RegistersCore(Register(a, c).msg, c)
        BY DEF RegistersCore, Register
      <4>. QED
        BY <4>1, <4>2
    <3>. QED
      BY <2>2, <3>1, <3>2, <3>3
  <2>. QED
    BY <2>1, <2>2
<1>12. AddressInv'
  <2>1. ASSUME NEW b \in Holders, NEW i \in DOMAIN out'[b], out'[b][i].msg.kind = "REGISTER"
        PROVE  out'[b][i].to = Directory(out'[b][i].msg.core)
    <3>1. b = a
      BY <1>4, <1>10, <2>1
    <3>2. PICK c \in taken : out'[b][i] = Register(a, c)
      BY <1>9, <1>10, <2>1, <3>1
    <3>. QED
      BY <3>2 DEF Register
  <2>2. \A d \in Directories : \A i \in DOMAIN queue'[d] :
           queue'[d][i].kind \in {"LOCATE", "REGISTER"} => Directory(queue'[d][i].core) = d
    BY <1>0 DEF DirectoryInv, AddressInv
  <2>. QED
    BY <2>1, <2>2 DEF AddressInv
<1>13. NewsInv'
  BY <1>0 DEF DirectoryInv, NewsInv, NewsFirst
<1>14. TruthInv'
  BY <1>0, <1>3 DEF TruthInv, Queries
<1>15. KnownInv'
  <2>1. ASSUME NEW c \in Cores
        PROVE  /\ \A b \in Holders : Announces(b, c)' => b = HolderOf(c)'
               /\ \/ \E b \in Holders : Announces(b, c)'
                  \/ Latest(queue[Directory(c)], directory[c], c, HolderOf(c))'
    <3>0. \A b \in Holders : Announces(b, c)' <=> b = a /\ c \in taken
      BY <1>11
    <3>1. CASE c \in taken
      BY <1>6, <1>h, <3>0, <3>1
    <3>2. CASE c \notin taken
      <4>1. Latest(queue[Directory(c)], directory[c], c, HolderOf(c))
        BY <1>4 DEF DirectoryInv, KnownInv, Announces, RegistersCore
      <4>2. HolderOf(c)' = HolderOf(c)
        BY <1>6, <3>2
      <4>3. Latest(queue[Directory(c)], directory[c], c, HolderOf(c))'
        BY <1>0, <4>1, <4>2 DEF Latest
      <4>. QED
        BY <3>0, <3>2, <4>3
    <3>. QED
      BY <3>1, <3>2
  <2>. QED
    BY <2>1 DEF KnownInv
<1>. QED
  BY <1>12, <1>13, <1>14, <1>15 DEF DirectoryInv

(* One message of those that an agent is about to send.                    *)
LEMMA SendNextIsSafe ==
    ASSUME EInv, CoreInv, InquiryInv, DirectoryInv, NEW a \in Holders, SendNext(a),
           \A c \in Cores : HolderOf(c)' = HolderOf(c)
    PROVE  DirectoryInv'
<1>. DEFINE s == Head(out[a]) m == s.msg to == s.to
<1>m. /\ queue \in [Mailboxes -> Seq(Messages)] /\ out \in [Holders -> Seq(Posts)]
      /\ \A d \in Directories : d \in Mailboxes /\ queue[d] \in Seq(Messages)
      /\ \A c \in Cores : Directory(c) \in Directories
      /\ OutInHand(a, pc[a], out[a])
  BY AgentParts, InHandParts, MailboxesAreFinite, DirectoryIsNoHolder DEF MailTypes
<1>0. /\ out[a] # <<>> /\ queue' = With(queue, s) /\ out' = [out EXCEPT ![a] = Tail(out[a])]
      /\ UNCHANGED directory
  BY DEF SendNext, Elsewhere, clusterVars
<1>1. /\ DOMAIN out[a] = 1 .. Len(out[a]) /\ Len(out[a]) \in Nat /\ Len(out[a]) >= 1
      /\ s = out[a][1] /\ 1 \in DOMAIN out[a] /\ s \in Posts
      /\ DOMAIN Tail(out[a]) = 1 .. Len(out[a]) - 1
      /\ \A i \in 1 .. Len(out[a]) - 1 : Tail(out[a])[i] = out[a][i + 1]
  <2>1. out[a] \in Seq(Posts)
    BY <1>m
  <2>. QED
    BY <1>0, <2>1
<1>2. m \in Messages /\ to \in Mailboxes /\ m.kind \notin {"INFO", "LOCATE"}
  <2>1. m.kind \in {"INVADE", "END", "MAKE_OFFER", "ACCEPT", "REJECT", "REGISTER"}
    BY <1>1, <1>m DEF OutInHand, Outgoing
  <2>. QED
    BY <1>1, <2>1 DEF Posts
<1>3. queue'[to] = Append(queue[to], m) /\ \A r \in Mailboxes \ {to} : queue'[r] = queue[r]
  BY <1>0, <1>2, <1>m DEF With
<1>4. /\ out'[a] = Tail(out[a]) /\ \A b \in Holders \ {a} : out'[b] = out[b]
      /\ \A b \in Holders : \A i \in DOMAIN out'[b] :
            \E j \in DOMAIN out[b] : out[b][j] = out'[b][i]
  <2>1. out'[a] = Tail(out[a]) /\ \A b \in Holders \ {a} : out'[b] = out[b]
    BY <1>0, <1>m
  <2>2. ASSUME NEW i \in DOMAIN out'[a] PROVE \E j \in DOMAIN out[a] : out[a][j] = out'[a][i]
    <3>1. i + 1 \in DOMAIN out[a] /\ out[a][i + 1] = out'[a][i]
      BY <1>1, <2>1, <2>2
    <3>. QED
      BY <3>1
  <2>. QED
    BY <2>1, <2>2
<1>5. \A r \in Mailboxes : \A i \in DOMAIN queue'[r] :
         \/ i \in DOMAIN queue[r] /\ queue'[r][i] = queue[r][i]
         \/ r = to /\ queue'[r][i] = m
  <2>1. ASSUME NEW r \in Mailboxes, NEW i \in DOMAIN queue'[r], r = to
        PROVE  \/ i \in DOMAIN queue[r] /\ queue'[r][i] = queue[r][i]
               \/ queue'[r][i] = m
    <3>0. queue[r] \in Seq(Messages) /\ queue'[r] = Append(queue[r], m)
      BY <1>3, <1>m, <2>1
    <3>. HIDE DEF m
    <3>1. /\ DOMAIN queue[r] = 1 .. Len(queue[r]) /\ Len(queue[r]) \in Nat
          /\ i \in 1 .. Len(queue[r]) + 1 /\ queue'[r][Len(queue[r]) + 1] = m
          /\ \A j \in 1 .. Len(queue[r]) : queue'[r][j] = queue[r][j]
      BY <1>2, <2>1, <3>0, Appended
    <3>. QED
      BY <3>1
  <2>. QED
    BY <1>3, <2>1
<1>6. m.kind = "REGISTER" =>
         /\ m.from = a /\ m.core \in Cores /\ to = Directory(m.core)
         /\ \A r \in Mailboxes : \A i \in DOMAIN queue[r] : queue[r][i].kind \notin Queries
  <2>1. ASSUME m.kind = "REGISTER"
        PROVE  /\ m.from = a /\ m.core \in Cores /\ to = Directory(m.core)
               /\ \A h \in Holders : pc[h] \notin Inquiring
    <3>1. out[a][1].msg.kind = "REGISTER" /\ 1 \in DOMAIN out[a]
      BY <1>1, <2>1
    <3>2. out[a][1].msg.from = a /\ \A h \in Holders : pc[h] \notin Inquiring
      BY <3>1, AnnouncersAreDone
    <3>3. out[a][1].to = Directory(out[a][1].msg.core)
      BY <3>1 DEF DirectoryInv, AddressInv
    <3>. QED
      BY <1>1, <1>2, <2>1, <3>2, <3>3, MessageParts
  <2>. QED
    BY <2>1, NoQuestions
<1>. HIDE DEF s, m, to
<1>7. AddressInv'
  <2>1. ASSUME NEW d \in Directories, NEW i \in DOMAIN queue'[d],
               queue'[d][i].kind \in {"LOCATE", "REGISTER"}
        PROVE  Directory(queue'[d][i].core) = d
    <3>1. CASE i \in DOMAIN queue[d] /\ queue'[d][i] = queue[d][i]
      BY <2>1, <3>1 DEF DirectoryInv, AddressInv
    <3>2. CASE d = to /\ queue'[d][i] = m
      BY <1>2, <1>6, <2>1, <3>2
    <3>. QED
      BY <1>5, <1>m, <3>1, <3>2
  <2>2. ASSUME NEW b \in Holders, NEW i \in DOMAIN out'[b], out'[b][i].msg.kind = "REGISTER"
        PROVE  out'[b][i].to = Directory(out'[b][i].msg.core)
    BY <1>4, <2>2 DEF DirectoryInv, AddressInv
  <2>. QED
    BY <2>1, <2>2 DEF AddressInv
<1>8. NewsInv'
  <2>1. ASSUME NEW d \in Directories PROVE NewsFirst(queue'[d])
    <3>1. NewsFirst(queue[d]) /\ queue[d] \in Seq(Messages) /\ d \in Mailboxes
      BY <1>m DEF DirectoryInv, NewsInv
    <3>2. m.kind # "REGISTER" \/ \A i \in DOMAIN queue[d] : queue[d][i].kind # "LOCATE"
      BY <1>6, <3>1 DEF Queries
    <3>3. CASE d = to
      BY <1>2, <1>3, <3>1, <3>2, <3>3, NewsFirstStays
    <3>4. CASE d # to
      BY <1>3, <3>1, <3>4
    <3>. QED
      BY <3>3, <3>4
  <2>. QED
    BY <2>1 DEF NewsInv, NewsFirst
<1>9. TruthInv'
  <2>1. ASSUME NEW r \in Mailboxes, NEW i \in DOMAIN queue'[r], NEW c \in Cores,
               queue'[r][i].kind = "INFO", queue'[r][i].core = c
        PROVE  queue'[r][i].agent = HolderOf(c)'
    <3>1. i \in DOMAIN queue[r] /\ queue'[r][i] = queue[r][i]
      BY <1>2, <1>5, <2>1
    <3>2. queue[r][i].agent = HolderOf(c)
      BY <2>1, <3>1 DEF DirectoryInv, TruthInv
    <3>3. HolderOf(c)' = HolderOf(c)
      OBVIOUS
    <3>. QED
      BY <3>1, <3>2, <3>3
  <2>. QED
    BY <2>1 DEF TruthInv
<1>10. KnownInv'
  <2>1. ASSUME NEW c \in Cores
        PROVE  /\ \A b \in Holders : Announces(b, c)' => b = HolderOf(c)'
               /\ \/ \E b \in Holders : Announces(b, c)'
                  \/ Latest(queue[Directory(c)], directory[c], c, HolderOf(c))'
    <3>. DEFINE d == Directory(c)
    <3>0. /\ HolderOf(c)' = HolderOf(c) /\ d \in Mailboxes /\ queue[d] \in Seq(Messages)
          /\ directory'[c] = directory[c]
      BY <1>0, <1>m
    <3>1. PICK h : h = HolderOf(c)
      OBVIOUS
    <3>2. \A b \in Holders : Announces(b, c)' => b = h
      BY <1>4, <3>1 DEF DirectoryInv, KnownInv, Announces
    <3>3. CASE RegistersCore(m, c)
      <4>1. m.kind = "REGISTER" /\ m.core = c
        BY <3>3 DEF RegistersCore
      <4>2. m.from = a /\ to = d
        BY <1>6, <4>1
      <4>3. Announces(a, c)
        BY <1>1, <3>3 DEF Announces, m
      <4>4. a = h
        BY <3>1, <4>3 DEF DirectoryInv, KnownInv
      <4>. HIDE DEF d
      <4>5. Latest(queue'[d], directory[c], c, h)
        BY <1>2, <1>3, <3>0, <3>3, <4>2, <4>4, LatestAppend
      <4>6. Latest(queue[Directory(c)], directory[c], c, HolderOf(c))'
        BY <3>0, <3>1, <4>5 DEF Latest, d
      <4>. QED
        BY <3>0, <3>1, <3>2, <4>6
    <3>4. CASE ~ RegistersCore(m, c)
      <4>1. ASSUME NEW b \in Holders, Announces(b, c) PROVE Announces(b, c)'
        <5>1. PICK i \in DOMAIN out[b] : RegistersCore(out[b][i].msg, c)
          BY <4>1 DEF Announces
        <5>2. CASE b # a
          BY <1>4, <5>1, <5>2 DEF Announces
        <5>3. CASE b = a
          <6>1. i # 1
            BY <1>1, <3>4, <5>1, <5>3 DEF m
          <6>2. i - 1 \in DOMAIN out'[a] /\ out'[a][i - 1] = out[a][i]
            BY <1>1, <1>4, <5>3, <6>1
          <6>. QED
            BY <5>1, <5>3, <6>2 DEF Announces
        <5>. QED
          BY <5>2, <5>3
      <4>2. CASE \E b \in Holders : Announces(b, c)
        BY <3>0, <3>1, <3>2, <4>1, <4>2
      <4>3. CASE Latest(queue[d], directory[c], c, HolderOf(c))
        <5>1. Latest(queue[d], directory[c], c, h)
          BY <3>1, <4>3
        <5>. HIDE DEF d
        <5>2. Latest(queue'[d], directory[c], c, h)
          <6>1. CASE d = to
            BY <1>2, <1>3, <3>0, <3>4, <5>1, <6>1, LatestAppend
          <6>2. CASE d # to
            BY <1>3, <3>0, <5>1, <6>2
          <6>. QED
            BY <6>1, <6>2
        <5>3. Latest(queue[Directory(c)], directory[c], c, HolderOf(c))'
          BY <3>0, <3>1, <5>2 DEF Latest, d
        <5>. QED
          BY <3>0, <3>1, <3>2, <5>3
      <4>. QED
        BY <4>2, <4>3 DEF DirectoryInv, KnownInv
    <3>. QED
      BY <3>3, <3>4
  <2>. QED
    BY <2>1 DEF KnownInv
<1>. QED
  BY <1>7, <1>8, <1>9, <1>10 DEF DirectoryInv

(* A directory reads its next message.                                     *)
LEMMA DirectoryStepIsSafe ==
    ASSUME EInv, CoreInv, InquiryInv, DirectoryInv, NEW d \in Directories, DirectoryStep(d),
           \A c \in Cores : HolderOf(c)' = HolderOf(c)
    PROVE  DirectoryInv'
<1>. DEFINE m == Head(queue[d])
            list == queue[d]
<1>m. /\ queue \in [Mailboxes -> Seq(Messages)]
      /\ d \in Mailboxes /\ list \in Seq(Messages) /\ d \notin Holders
      /\ \A x \in Directories : x \in Mailboxes /\ x \notin Holders
      /\ \A c \in Cores : Directory(c) \in Directories
      /\ directory \in [Cores -> Holders \union {Null}]
  BY MailboxesAreFinite, DirectoryIsNoHolder DEF EInv, MailTypes, ClusterTypes
<1>0. /\ list # <<>> /\ m \in Messages /\ m.kind \in {"REGISTER", "LOCATE", "END"}
      /\ UNCHANGED <<out, pc>>
      /\ m.kind = "LOCATE" => m.from \in Holders /\ m.core \in Cores
      /\ m.kind # "LOCATE" => queue' = Without1st(d)
      /\ m.kind = "LOCATE" => queue' = With(Without1st(d), Information(d))
  BY DirectoryAct
<1>1. /\ DOMAIN list = 1 .. Len(list) /\ Len(list) \in Nat /\ 1 \in DOMAIN list /\ m = list[1]
      /\ DOMAIN Tail(list) = 1 .. Len(list) - 1 /\ Tail(list) \in Seq(Messages)
      /\ \A i \in DOMAIN Tail(list) : i + 1 \in DOMAIN list /\ Tail(list)[i] = list[i + 1]
  BY <1>0, <1>m, Shifted
<1>2. /\ Without1st(d)[d] = Tail(list) /\ Without1st(d) \in [Mailboxes -> Seq(Messages)]
      /\ \A r \in Mailboxes \ {d} : Without1st(d)[r] = queue[r]
  BY <1>1, <1>m DEF Without1st
<1>a. m.kind \in {"LOCATE", "REGISTER"} => Directory(m.core) = d
  BY <1>1 DEF DirectoryInv, AddressInv
<1>d. /\ m.kind # "REGISTER" => UNCHANGED directory
      /\ m.kind = "REGISTER" =>
            directory' = [directory EXCEPT ![m.core] = m.from] /\ m.core \in Cores
  BY <1>0, MessageParts DEF DirectoryStep, DirectoryTakes, DirectoryRegisters, DirectoryAnswers, DirectoryEnds
<1>. DEFINE news == Information(d).msg
<1>3. /\ queue'[d] = Tail(list) /\ \A x \in Directories \ {d} : queue'[x] = queue[x]
      /\ m.kind = "LOCATE" =>
            /\ queue'[m.from] = Append(queue[m.from], news) /\ news \in Messages
            /\ \A h \in Holders \ {m.from} : queue'[h] = queue[h]
      /\ m.kind # "LOCATE" => \A h \in Holders : queue'[h] = queue[h]
  <2>1. CASE m.kind = "LOCATE"
    <3>1. Information(d) \in Posts /\ Information(d).to = m.from
      BY <2>1, DirectoryAct DEF Information
    <3>2. m.from \in Mailboxes /\ m.from # d /\ m.from \in Holders
      BY <1>0, <1>m, <2>1, MailboxesAreFinite
    <3>3. With(Without1st(d), Information(d))
             = [Without1st(d) EXCEPT ![m.from] = Append(Without1st(d)[m.from], news)]
      BY <3>1 DEF With
    <3>4. queue' = [Without1st(d) EXCEPT ![m.from] = Append(Without1st(d)[m.from], news)]
      BY <1>0, <2>1, <3>3
    <3>. HIDE DEF news, m, list
    <3>5. /\ queue'[m.from] = Append(Without1st(d)[m.from], news)
          /\ \A r \in Mailboxes \ {m.from} : queue'[r] = Without1st(d)[r]
      BY <1>2, <3>2, <3>4
    <3>6. \A x \in Directories : x # m.from /\ x \in Mailboxes
      BY <1>m, <3>2
    <3>7. \A h \in Holders : h # d /\ h \in Mailboxes
      BY <1>m, MailboxesAreFinite
    <3>8. news \in Messages
      BY <3>1 DEF news, Posts
    <3>. QED
      BY <1>2, <2>1, <3>2, <3>5, <3>6, <3>7, <3>8
  <2>2. CASE m.kind # "LOCATE"
    <3>. HIDE DEF m, list
    <3>1. queue' = Without1st(d)
      BY <1>0, <2>2
    <3>2. \A h \in Holders : h # d /\ h \in Mailboxes
      BY <1>m, MailboxesAreFinite
    <3>. QED
      BY <1>2, <1>m, <2>2, <3>1, <3>2
  <2>. QED
    BY <2>1, <2>2
<1>4. m.kind = "LOCATE" =>
         news.kind = "INFO" /\ news.core = m.core /\ news.agent = HolderOf(m.core)
  <2>1. ASSUME m.kind = "LOCATE" PROVE directory[m.core] = HolderOf(m.core)
    <3>1. \A b \in Holders : ~ Announces(b, m.core)
      <4>1. ASSUME NEW b \in Holders, Announces(b, m.core) PROVE FALSE
        <5>1. PICK i \in DOMAIN out[b] : out[b][i].msg.kind = "REGISTER"
          BY <4>1 DEF Announces, RegistersCore
        <5>2. \A h \in Holders : pc[h] \notin Inquiring
          BY <5>1, AnnouncersAreDone
        <5>3. m.kind \notin Queries
          BY <1>1, <1>m, <5>2, NoQuestions
        <5>. QED
          BY <2>1, <5>3 DEF Queries
      <4>. QED
        BY <4>1
    <3>2. \A i \in DOMAIN list : ~ RegistersCore(list[i], m.core)
      <4>1. ASSUME NEW i \in DOMAIN list PROVE list[i].kind # "REGISTER"
        <5>1. CASE i = 1
          BY <1>1, <2>1, <5>1
        <5>2. CASE i # 1
          <6>1. 1 < i
            BY <1>1, <5>2
          <6>2. NewsFirst(list)
            BY DEF DirectoryInv, NewsInv
          <6>. QED
            BY <1>1, <2>1, <6>1, <6>2 DEF NewsFirst
        <5>. QED
          BY <5>1, <5>2
      <4>. QED
        BY <4>1 DEF RegistersCore
    <3>3. Directory(m.core) = d /\ m.core \in Cores
      BY <1>0, <1>a, <2>1
    <3>4. Latest(list, directory[m.core], m.core, HolderOf(m.core))
      BY <3>1, <3>3 DEF DirectoryInv, KnownInv
    <3>. QED
      BY <3>2, <3>4 DEF Latest
  <2>2. news.kind = "INFO" /\ news.core = m.core /\ news.agent = directory[m.core]
    BY DEF Information
  <2>. QED
    BY <2>1, <2>2
<1>. HIDE DEF news, list, m
<1>t. \A i \in DOMAIN queue'[d] : \E j \in DOMAIN queue[d] : queue[d][j] = queue'[d][i]
  <2>1. ASSUME NEW tail, tail = Tail(list), NEW i \in DOMAIN tail
        PROVE  \E j \in DOMAIN list : list[j] = tail[i]
    <3>1. i + 1 \in DOMAIN list /\ tail[i] = list[i + 1]
      BY <1>1, <2>1
    <3>. QED
      BY <3>1
  <2>2. queue'[d] = Tail(list) /\ queue[d] = list
    BY <1>3 DEF list
  <2>. QED
    BY <2>1, <2>2, Zenon
<1>5. AddressInv'
  <2>1. ASSUME NEW x \in Directories, NEW i \in DOMAIN queue'[x],
               queue'[x][i].kind \in {"LOCATE", "REGISTER"}
        PROVE  Directory(queue'[x][i].core) = x
    <3>1. \E j \in DOMAIN queue[x] : queue[x][j] = queue'[x][i]
      <4>1. CASE x = d
        BY <1>t, <2>1, <4>1
      <4>2. CASE x # d
        BY <1>3, <2>1, <4>2
      <4>. QED
        BY <4>1, <4>2
    <3>. QED
      BY <2>1, <3>1 DEF DirectoryInv, AddressInv
  <2>2. \A b \in Holders : \A i \in DOMAIN out'[b] :
           out'[b][i].msg.kind = "REGISTER" => out'[b][i].to = Directory(out'[b][i].msg.core)
    BY <1>0 DEF DirectoryInv, AddressInv
  <2>. QED
    BY <2>1, <2>2 DEF AddressInv
<1>6. NewsInv'
  <2>1. ASSUME NEW x \in Directories PROVE NewsFirst(queue'[x])
    <3>1. NewsFirst(queue[x])
      BY DEF DirectoryInv, NewsInv
    <3>2. CASE x = d
      BY <1>0, <1>3, <1>m, <3>1, <3>2, NewsFirstStays DEF list
    <3>3. CASE x # d
      BY <1>3, <3>1, <3>3
    <3>. QED
      BY <3>2, <3>3
  <2>. QED
    BY <2>1 DEF NewsInv, NewsFirst
<1>7. TruthInv'
  <2>1. ASSUME NEW r \in Mailboxes, NEW i \in DOMAIN queue'[r]
        PROVE  \/ \E j \in DOMAIN queue[r] : queue[r][j] = queue'[r][i]
               \/ m.kind = "LOCATE" /\ queue'[r][i] = news
    <3>1. CASE r = d
      BY <1>t, <2>1, <3>1
    <3>2. CASE m.kind = "LOCATE" /\ r = m.from /\ r # d
      <4>0. queue[r] \in Seq(Messages) /\ queue'[r] = Append(queue[r], news) /\ news \in Messages
        BY <1>3, <1>m, <3>2
      <4>1. /\ DOMAIN queue[r] = 1 .. Len(queue[r]) /\ Len(queue[r]) \in Nat
            /\ i \in 1 .. Len(queue[r]) + 1 /\ queue'[r][Len(queue[r]) + 1] = news
            /\ \A j \in 1 .. Len(queue[r]) : queue'[r][j] = queue[r][j]
        BY <2>1, <4>0, Appended
      <4>2. CASE i = Len(queue[r]) + 1
        BY <3>2, <4>1, <4>2
      <4>3. CASE i # Len(queue[r]) + 1
        <5>1. i \in DOMAIN queue[r] /\ queue'[r][i] = queue[r][i]
          BY <4>1, <4>3
        <5>. QED
          BY <5>1
      <4>. QED
        BY <4>2, <4>3
    <3>3. CASE r # d /\ ~ (m.kind = "LOCATE" /\ r = m.from)
      <4>1. queue'[r] = queue[r]
        BY <1>3, <3>3 DEF Mailboxes
      <4>. QED
        BY <2>1, <4>1
    <3>. QED
      BY <3>1, <3>2, <3>3
  <2>2. ASSUME NEW r \in Mailboxes, NEW i \in DOMAIN queue'[r], NEW c \in Cores,
               queue'[r][i].kind = "INFO", queue'[r][i].core = c
        PROVE  queue'[r][i].agent = HolderOf(c)'
    <3>0. HolderOf(c)' = HolderOf(c)
      OBVIOUS
    <3>1. CASE \E j \in DOMAIN queue[r] : queue[r][j] = queue'[r][i]
      <4>1. queue'[r][i].agent = HolderOf(c)
        BY <2>2, <3>1 DEF DirectoryInv, TruthInv
      <4>. QED
        BY <3>0, <4>1
    <3>2. CASE m.kind = "LOCATE" /\ queue'[r][i] = news
      <4>1. m.core = c /\ news.agent = HolderOf(m.core)
        BY <1>4, <2>2, <3>2
      <4>. QED
        BY <3>0, <3>2, <4>1
    <3>. QED
      BY <2>1, <3>1, <3>2
  <2>. QED
    BY <2>2 DEF TruthInv
<1>8. KnownInv'
  <2>1. ASSUME NEW c \in Cores
        PROVE  /\ \A b \in Holders : Announces(b, c)' => b = HolderOf(c)'
               /\ \/ \E b \in Holders : Announces(b, c)'
                  \/ Latest(queue[Directory(c)], directory[c], c, HolderOf(c))'
    <3>. DEFINE x == Directory(c)
    <3>0. HolderOf(c)' = HolderOf(c) /\ x \in Directories /\ directory[c] \in Holders \union {Null}
      BY <1>m
    <3>1. PICK h : h = HolderOf(c)
      OBVIOUS
    <3>2. \A b \in Holders : Announces(b, c)' <=> Announces(b, c)
      BY <1>0 DEF Announces
    <3>3. \A b \in Holders : Announces(b, c)' => b = HolderOf(c)'
      BY <3>0, <3>2 DEF DirectoryInv, KnownInv
    <3>4. CASE \E b \in Holders : Announces(b, c)
      BY <3>2, <3>3, <3>4
    <3>5. CASE Latest(queue[x], directory[c], c, HolderOf(c))
      <4>1. Latest(queue[x], directory[c], c, h)
        BY <3>1, <3>5
      <4>2. Latest(queue'[x], directory'[c], c, h)
        <5>1. CASE x = d
          <6>1. Latest(Tail(list), IF RegistersCore(m, c) THEN m.from ELSE directory[c], c, h)
            BY <1>0, <1>m, <4>1, <5>1, LatestTail DEF list, m
          <6>2. directory'[c] = IF RegistersCore(m, c) THEN m.from ELSE directory[c]
            BY <1>d, <1>m DEF RegistersCore
          <6>. QED
            BY <1>3, <5>1, <6>1, <6>2
        <5>2. CASE x # d
          <6>1. m.kind = "REGISTER" => m.core # c
            BY <1>a, <5>2
          <6>2. directory'[c] = directory[c]
            BY <1>d, <1>m, <6>1
          <6>. QED
            BY <1>3, <3>0, <4>1, <5>2, <6>2
        <5>. QED
          BY <5>1, <5>2
      <4>3. Latest(queue[Directory(c)], directory[c], c, HolderOf(c))'
        BY <3>0, <3>1, <4>2 DEF Latest, x
      <4>. QED
        BY <3>3, <4>3
    <3>. QED
      BY <3>4, <3>5 DEF DirectoryInv, KnownInv
  <2>. QED
    BY <2>1 DEF KnownInv
<1>. QED
  BY <1>5, <1>6, <1>7, <1>8 DEF DirectoryInv

LEMMA OnlyDirectoriesChange ==
    ASSUME [Next]_vars, ~ \E d \in Directories : DirectoryStep(d)
    PROVE  UNCHANGED directory
<1>1. ASSUME NEW a \in Holders, HolderStep(a) PROVE UNCHANGED directory
  <2>1. CASE MakeOffer(a) \/ Request(a) \/ LocateCore(a) \/ CoreLocated(a) \/ Manage(a)
    BY <2>1 DEF MakeOffer, Request, LocateCore, CoreLocated, Manage, Elsewhere, clusterVars
  <2>2. CASE Forward(a) \/ Forwarded(a) \/ CollectOffer(a) \/ Respond(a)
    BY <2>2 DEF Forward, Forwarded, CollectOffer, Respond, Elsewhere, clusterVars
  <2>3. CASE Accepted(a) \/ Rejected(a) \/ End(a) \/ SendNext(a) \/ Crash(a)
    BY <2>3 DEF Accepted, Rejected, End, SendNext, Crash, FollowNull, Elsewhere, clusterVars
  <2>. QED
    BY <1>1, <2>1, <2>2, <2>3 DEF HolderStep
<1>2. ASSUME NEW a \in Agents, AgentStep(a) PROVE UNCHANGED directory
  <2>1. CASE \/ Invade(a) \/ LookForWinner(a) \/ Seed(a) \/ Try(a) \/ ManageOwn(a)
             \/ LocateCenter(a) \/ CenterLocated(a)
    BY <2>1 DEF Invade, LookForWinner, Seed, Try, ManageOwn, LocateCenter, CenterLocated,
                Elsewhere, clusterVars
  <2>2. CASE \/ SendRequest(a) \/ AllRequested(a) \/ CollectResponse(a) \/ TryAgain(a)
             \/ TakeOver(a) \/ EndRound(a)
    BY <2>2 DEF SendRequest, AllRequested, CollectResponse, TryAgain, TakeOver, EndRound,
                Elsewhere, clusterVars
  <2>3. CASE \/ EnterRegion(a) \/ LeaveRegion(a) \/ PassBarrier(a) \/ Stop(a)
             \/ StopCluster(a)
    BY <2>3 DEF EnterRegion, LeaveRegion, PassBarrier, Stop, StopCluster,
                Elsewhere, clusterVars
  <2>. QED
    BY <1>2, <2>1, <2>2, <2>3 DEF AgentStep
<1>3. CASE Miss \/ MainStep \/ SendKill \/ UNCHANGED vars
  BY <1>3 DEF Miss, MissCenter, MissLocated, FollowNull, MainStep, SendInvade, Unload, Join, SendKill, vars, clusterVars
<1>. QED
  BY <1>1, <1>2, <1>3 DEF Next, Terminating

(* At the start each owner has registered with the directory of its core.  *)
LEMMA InitiallyRegistered ==
    ASSUME Init, EInv, CoreInv
    PROVE  DirectoryInv
<1>1. PICK owner \in InitialOwners :
          /\ queue = [r \in Mailboxes |->
                         IF r \in Directories THEN Registrations(owner, r) ELSE <<>>]
          /\ out = [a \in Holders |-> <<>>]
          /\ owned = [a \in Holders |->
                         {c \in Cores : owner[c] = (IF a = Idle THEN Null ELSE a)}]
  BY DEF Init, Mailboxes
<1>. DEFINE first(c) == IF owner[c] = Null THEN Idle ELSE owner[c]
            news(c) == Register(first(c), c).msg
<1>m. /\ owner \in [Cores -> Agents \union {Null}]
      /\ \A d \in Directories : d \in Mailboxes /\ d \notin Holders
      /\ \A c \in Cores : Directory(c) \in Directories
  BY InitialAssumption, MailboxesAreFinite, DirectoryIsNoHolder
<1>2. \A c \in Cores : first(c) \in Holders
  BY <1>m, Threads
<1>3. \A c \in Cores : HolderOf(c) = first(c)
  <2>1. ASSUME NEW c \in Cores PROVE Has(first(c), c)
    <3>1. c \in owned[first(c)]
      BY <1>1, <1>2, <1>m, Threads
    <3>. QED
      BY <3>1 DEF Has
  <2>2. HolderInv
    BY DEF CoreInv
  <2>. HIDE DEF first
  <2>. QED
    BY <1>2, <2>1, <2>2, HolderIsFound
<1>4. /\ \A r \in Mailboxes : r \notin Directories => queue[r] = <<>>
      /\ \A d \in Directories : queue[d] = Registrations(owner, d)
  BY <1>1, <1>m
<1>5. ASSUME NEW d \in Directories
      PROVE  /\ \A i \in DOMAIN queue[d] :
                   \E c \in Cores : Directory(c) = d /\ queue[d][i] = news(c)
             /\ \A c \in Cores :
                   Directory(c) = d => \E i \in DOMAIN queue[d] : queue[d][i] = news(c)
             /\ \A i, j \in DOMAIN queue[d] : queue[d][i] = queue[d][j] => i = j
  <2>. DEFINE list == Registrations(owner, d)
  <2>1. /\ \A i \in DOMAIN list : \E c \in Cores : Directory(c) = d /\ list[i] = news(c)
        /\ \A c \in Cores : Directory(c) = d => \E i \in DOMAIN list : list[i] = news(c)
        /\ \A i, j \in DOMAIN list : list[i] = list[j] => i = j
    BY <1>m, RegistrationsType
  <2>2. queue[d] = list
    BY <1>4
  <2>. HIDE DEF list, news
  <2>. QED
    BY <2>1, <2>2
<1>6. ASSUME NEW c PROVE RegistersCore(news(c), c) /\ news(c).from = first(c) /\ news(c).core = c
  BY DEF RegistersCore, Register
<1>7. ASSUME NEW c PROVE news(c).kind = "REGISTER"
  BY DEF Register
<1>. HIDE DEF news, first
<1>8. ASSUME NEW r \in Mailboxes, NEW i \in DOMAIN queue[r] PROVE queue[r][i].kind = "REGISTER"
  BY <1>4, <1>5, <1>7
<1>9. \A b \in Holders, c \in Cores : ~ Announces(b, c)
  BY <1>1 DEF Announces
<1>10. AddressInv
  <2>1. \A d \in Directories : \A i \in DOMAIN queue[d] : Directory(queue[d][i].core) = d
    BY <1>5, <1>6
  <2>. QED
    BY <1>1, <2>1 DEF AddressInv
<1>11. NewsInv
  BY <1>8, <1>m DEF NewsInv, NewsFirst
<1>12. TruthInv
  BY <1>8 DEF TruthInv
<1>13. KnownInv
  <2>1. ASSUME NEW c \in Cores
        PROVE  Latest(queue[Directory(c)], directory[c], c, HolderOf(c))
    <3>. DEFINE d == Directory(c)
    <3>1. d \in Directories
      BY <1>m
    <3>2. PICK i \in DOMAIN queue[d] : queue[d][i] = news(c)
      BY <1>5, <3>1
    <3>3. RegistersCore(queue[d][i], c) /\ queue[d][i].from = HolderOf(c)
      BY <1>3, <1>6, <3>2
    <3>4. ASSUME NEW j \in DOMAIN queue[d], RegistersCore(queue[d][j], c) PROVE j = i
      <4>1. PICK k \in Cores : queue[d][j] = news(k)
        BY <1>5, <3>1
      <4>2. k = c
        BY <1>6, <3>4, <4>1 DEF RegistersCore
      <4>. QED
        BY <1>5, <3>1, <3>2, <4>1, <4>2
    <3>. HIDE DEF d
    <3>5. \A j \in DOMAIN queue[d] : j > i => ~ RegistersCore(queue[d][j], c)
      <4>1. queue[d] \in Seq(Messages)
        BY <1>m, <3>1 DEF EInv, MailTypes
      <4>2. i \in Int
        BY <4>1
      <4>. QED
        BY <3>4, <4>2
    <3>. QED
      BY <3>3, <3>5 DEF Latest, d
  <2>. QED
    BY <1>9, <2>1 DEF KnownInv
<1>. QED
  BY <1>10, <1>11, <1>12, <1>13 DEF DirectoryInv

LEMMA StepKeepsDirectories ==
    ASSUME EInv, CoreInv, InquiryInv, DirectoryInv, [Next]_vars
    PROVE  DirectoryInv'
<1>1. /\ EInv' /\ CoreInv'
      /\ SameHolders \/ \E a \in Agents : TakeOver(a)
  BY StepMovesCores
<1>2. CASE \E a \in Agents : TakeOver(a)
  BY <1>1, <1>2, TakeOverIsAnnounced
<1>3. CASE SameHolders
  <2>1. \A c \in Cores : HolderOf(c)' = HolderOf(c)
    BY <1>1, <1>3, HoldersStayTheSame
  <2>2. CASE \E a \in Holders : SendNext(a)
    BY <2>1, <2>2, SendNextIsSafe
  <2>3. CASE \E d \in Directories : DirectoryStep(d)
    BY <2>1, <2>3, DirectoryStepIsSafe
  <2>4. CASE NoNews /\ ~ \E d \in Directories : DirectoryStep(d)
    <3>1. UNCHANGED directory
      BY <2>4, OnlyDirectoriesChange
    <3>2. MailTypes
      BY DEF EInv
    <3>. QED
      BY <2>1, <2>4, <3>1, <3>2, NoNewsIsSafe
  <2>. QED
    BY <1>2, <2>2, <2>3, <2>4, StepKeepsInquiries
<1>. QED
  BY <1>1, <1>2, <1>3

LEMMA AnswersAreTrue ==
    EInv /\ DirectoryInv => LocatedIsHolder
<1>. SUFFICES ASSUME EInv, DirectoryInv, NEW m \in Unread, m.kind = "INFO"
              PROVE  m.agent = HolderOf(m.core)
  BY DEF LocatedIsHolder
<1>1. DOMAIN queue = Mailboxes /\ \A r \in Mailboxes : queue[r] \in Seq(Messages)
  BY DEF EInv, MailTypes
<1>2. PICK r \in Mailboxes : \E i \in DOMAIN queue[r] : m = queue[r][i]
  BY <1>1 DEF Unread, ToSet
<1>3. PICK i \in DOMAIN queue[r] : m = queue[r][i]
  BY <1>2
<1>4. m \in Messages
  BY <1>1, <1>3
<1>5. m.core \in Cores
  BY <1>4, MessageParts
<1>. QED
  BY <1>3, <1>5 DEF DirectoryInv, TruthInv

(* LocatedIsHolder, for any number of agents, cores and clusters: although *)
(* new owners register by messages that nobody waits for (handle_offer,    *)
(* distrm.c), what a directory answers (directory_service, cluster.c) is   *)
(* still true when the answer is read.                                     *)
THEOREM LocatedOwnersAreHolders == Spec => []LocatedIsHolder
<1>1. Init => EInv /\ CoreInv
  BY InitEstablishes, InitEstablishesCoreInv
<1>2. Init => InquiryInv /\ DirectoryInv
  BY <1>1, InitiallyNobodyAsks, InitiallyRegistered
<1>3. (EInv /\ CoreInv) /\ (InquiryInv /\ DirectoryInv) /\ [Next]_vars
         => (InquiryInv /\ DirectoryInv)'
  BY StepKeepsInquiries, StepKeepsDirectories
<1>4. (EInv /\ CoreInv) /\ (InquiryInv /\ DirectoryInv) => LocatedIsHolder
  BY AnswersAreTrue
<1>. QED
  BY <1>2, <1>3, <1>4, CoreInvariant, PTL DEF Spec

-----------------------------------------------------------------------------
(* The end of the rounds.  As long as nobody is interrupted, an END is     *)
(* sent only when no agent can invade any more, and the directories get it *)
(* only when all agents have left the region of interest.                  *)
RoiProofs == INSTANCE RoiBarrierProofs WITH ready <- roiReady

Over == {"ending", "last", "stopped"}
Out == {"last", "stopped"}
Ended == \A a \in Agents : pc[a] \in Over
Exhausted == rounds = MaxRounds * N /\ invading_agent = None
Ending == Exhausted \/ Ended

ExitInv ==
    /\ RoiProofs!IInv
    /\ \A a \in Agents : roi[a] \in {"waitStop", "wokenStop", "outside"} => pc[a] \in Over
    /\ (\E a \in Agents : pc[a] \in Out) => Ended

HasEnd(list) == \E i \in DOMAIN list : list[i].kind = "END"
EndsMean ==
    /\ \A h \in Holders : HasEnd(queue[h]) => Ending
    /\ \A b \in Holders : \A i \in DOMAIN out[b] :
          out[b][i].msg.kind = "END" => Ending /\ out[b][i].to \in Agents
    /\ \A d \in Directories : HasEnd(queue[d]) => Ended
EmptyPartReached == options.region_size > SizeThresh /\ \E a \in Agents : AtEmptyPart(a)
EndInv ==
    kill = 1 =>
        /\ crashed => EmptyPartReached
        /\ EndsMean
        /\ \A d \in Directories : d \notin listening => Ended

(* A directory that has stopped has read all registrations.                *)
NewsBefore(list) ==
    \A i, j \in DOMAIN list : i < j /\ list[i].kind = "END" => list[j].kind # "REGISTER"
ClosedInv ==
    kill = 1 => \A d \in Directories :
        /\ NewsBefore(queue[d])
        /\ d \notin listening => \A i \in DOMAIN queue[d] : queue[d][i].kind # "REGISTER"

(* What main has collected so far.                                         *)
Collected(c) ==
    main.phase \in {"join", "done"} \/ (main.phase = "unload" /\ Directory(c) < main.next)
Assigned(h) == IF h = Idle THEN Null ELSE h
SystemInv ==
    kill = 1 => \A c \in Cores :
        Collected(c) => Directory(c) \notin listening /\ system[c] = Assigned(HolderOf(c))

(* The barrier of Distrm is the one of RoiBarrierProofs, for its agents.   *)
LEMMA RoiAgents == RoiProofs!IsFiniteSet(Agents) /\ Agents # {}
<1>1. IsFiniteSet(Agents) /\ 1 \in Agents
  BY Threads DEF Agents
<1>. QED
  BY <1>1 DEF IsFiniteSet, RoiProofs!IsFiniteSet

LEMMA RoiStep ==
    ASSUME RoiProofs!IInv,
           \/ UNCHANGED <<roiReady, roi>>
           \/ \E a \in Agents : Barrier!StartROI(a) \/ Barrier!StopROI(a) \/ Barrier!Return(a)
    PROVE  RoiProofs!IInv'
<1>1. RoiProofs!Next \/ UNCHANGED RoiProofs!roiVars
  <2>1. CASE UNCHANGED <<roiReady, roi>>
    BY <2>1 DEF RoiProofs!roiVars
  <2>2. ASSUME NEW a \in Agents, Barrier!StartROI(a) \/ Barrier!StopROI(a) \/ Barrier!Return(a)
        PROVE  RoiProofs!Step(a)
    BY <2>2 DEF RoiProofs!Step, Barrier!StartROI, RoiProofs!StartROI,
                Barrier!StopROI, RoiProofs!StopROI, Barrier!Return, RoiProofs!Return,
                Barrier!Broadcast, RoiProofs!Broadcast,
                Barrier!Cardinality, RoiProofs!Cardinality
  <2>. QED
    BY <2>1, <2>2 DEF RoiProofs!Next
<1>. QED
  BY <1>1, RoiAgents, RoiProofs!IInvStep DEF RoiProofs!roiVars

LEMMA RoiInit == Barrier!Init => RoiProofs!IInv
BY RoiAgents, RoiProofs!IInvInit DEF Barrier!Init, RoiProofs!Init

(* Only few steps have a part in the barrier, in what main collects, in    *)
(* the signal handler, or in the end of a directory or the program.        *)
UsesBarrier == \E a \in Agents : EnterRegion(a) \/ LeaveRegion(a) \/ PassBarrier(a)
LEMMA OnlyTheseChange ==
    ASSUME [Next]_vars
    PROVE  /\ UNCHANGED <<roiReady, roi>> \/ UsesBarrier
           /\ UNCHANGED <<main, system>> \/ MainStep
           /\ UNCHANGED kill \/ SendKill
           /\ UNCHANGED listening \/ \E d \in Directories : DirectoryEnds(d)
           /\ UNCHANGED crashed \/ Miss \/ \E a \in Holders : Crash(a)
           /\ \/ UNCHANGED <<rounds, invading_agent>>
              \/ \E a \in Agents : Invade(a) \/ EndRound(a)
<1>. DEFINE Most == UNCHANGED <<roiReady, roi, main, system, kill>>
            Rest == UNCHANGED <<rounds, invading_agent>>
<1>1. ASSUME NEW a \in Holders, HolderStep(a)
      PROVE  Most /\ Rest /\ UNCHANGED listening /\ (UNCHANGED crashed \/ Crash(a))
  <2>1. CASE MakeOffer(a) \/ Request(a) \/ LocateCore(a) \/ CoreLocated(a) \/ Manage(a)
    BY <2>1 DEF MakeOffer, Request, LocateCore, CoreLocated, Manage, Elsewhere, clusterVars,
                mainVars, electionVars
  <2>2. CASE Forward(a) \/ Forwarded(a) \/ CollectOffer(a) \/ Respond(a)
    BY <2>2 DEF Forward, Forwarded, CollectOffer, Respond, Elsewhere, clusterVars,
                mainVars, electionVars
  <2>3. CASE Accepted(a) \/ Rejected(a) \/ End(a) \/ SendNext(a) \/ Crash(a)
    BY <2>3 DEF Accepted, Rejected, End, SendNext, Crash, FollowNull, Elsewhere, clusterVars,
                mainVars, electionVars
  <2>. QED
    BY <1>1, <2>1, <2>2, <2>3 DEF HolderStep
<1>2. ASSUME NEW a \in Agents, AgentStep(a)
      PROVE  /\ UNCHANGED <<main, system, kill, listening, crashed>>
             /\ UNCHANGED <<roiReady, roi>> \/ EnterRegion(a) \/ LeaveRegion(a) \/ PassBarrier(a)
             /\ Rest \/ Invade(a) \/ EndRound(a)
  <2>1. CASE \/ Invade(a) \/ LookForWinner(a) \/ Seed(a) \/ Try(a) \/ ManageOwn(a)
             \/ LocateCenter(a) \/ CenterLocated(a)
    BY <2>1 DEF Invade, LookForWinner, Seed, Try, ManageOwn, LocateCenter, CenterLocated,
                Elsewhere, clusterVars, mainVars, electionVars
  <2>2. CASE \/ SendRequest(a) \/ AllRequested(a) \/ CollectResponse(a) \/ TryAgain(a)
             \/ TakeOver(a) \/ EndRound(a)
    BY <2>2 DEF SendRequest, AllRequested, CollectResponse, TryAgain, TakeOver, EndRound,
                Elsewhere, clusterVars, mainVars, electionVars
  <2>3. CASE \/ EnterRegion(a) \/ LeaveRegion(a) \/ PassBarrier(a) \/ Stop(a)
             \/ StopCluster(a)
    BY <2>3 DEF EnterRegion, LeaveRegion, PassBarrier, Stop, StopCluster,
                Elsewhere, clusterVars, mainVars, electionVars
  <2>. QED
    BY <1>2, <2>1, <2>2, <2>3 DEF AgentStep
<1>3. ASSUME NEW d \in Directories, DirectoryStep(d)
      PROVE  Most /\ Rest /\ UNCHANGED crashed /\ (UNCHANGED listening \/ DirectoryEnds(d))
  BY <1>3 DEF DirectoryStep, DirectoryRegisters, DirectoryAnswers, DirectoryEnds,
              DirectoryTakes, mainVars, electionVars
<1>4. ASSUME MainStep
      PROVE  UNCHANGED <<roiReady, roi, kill, listening, crashed>> /\ Rest
  BY <1>4 DEF MainStep, SendInvade, Unload, Join, clusterVars, electionVars
<1>5. ASSUME SendKill
      PROVE  UNCHANGED <<roiReady, roi, main, system, listening, crashed>> /\ Rest
  BY <1>5 DEF SendKill, electionVars
<1>6. ASSUME UNCHANGED vars
      PROVE  Most /\ Rest /\ UNCHANGED <<listening, crashed>>
  BY <1>6 DEF vars, mainVars, clusterVars, electionVars
<1>7. ASSUME Miss PROVE Most /\ Rest /\ UNCHANGED listening
  BY <1>7 DEF Miss, MissCenter, MissLocated, FollowNull, mainVars, clusterVars, electionVars
<1>. QED
  BY <1>1, <1>2, <1>3, <1>4, <1>5, <1>6, <1>7 DEF Next, Terminating, UsesBarrier

(* A thread that has followed a NULL pointer has ended the program.        *)
LEMMA CrashIsFinal ==
    ASSUME [Next]_vars, crashed
    PROVE  UNCHANGED vars
<1>1. ASSUME NEW a \in Holders, HolderStep(a) PROVE FALSE
  BY <1>1 DEF HolderStep, MakeOffer, Request, LocateCore, CoreLocated, Manage, Forward,
              Forwarded, CollectOffer, Respond, Accepted, Rejected, End, SendNext, Crash,
              At, Takes, CanTake
<1>2. ASSUME NEW a \in Agents, AgentStep(a) PROVE FALSE
  BY <1>2 DEF AgentStep, Invade, LookForWinner, Seed, Try, ManageOwn, LocateCenter,
              CenterLocated, SendRequest, AllRequested, CollectResponse, TryAgain, TakeOver,
              EndRound, EnterRegion, LeaveRegion, PassBarrier, Stop, StopCluster,
              At, Takes, CanTake
<1>3. ASSUME NEW d \in Directories, DirectoryStep(d) PROVE FALSE
  BY <1>3 DEF DirectoryStep, DirectoryRegisters, DirectoryAnswers, DirectoryEnds, DirectoryTakes
<1>4. ~ Miss
  BY DEF Miss, MissCenter, MissLocated, At, Takes, CanTake
<1>5. ~ MainStep /\ ~ SendKill
  BY DEF MainStep, SendInvade, Unload, Join, SendKill
<1>. QED
  BY <1>1, <1>2, <1>3, <1>4, <1>5 DEF Next, Terminating

(* What is planned fits the options of the program, which do not change.   *)
PartInv == \A a \in Holders : plan[a].todo \in Seq(Fitting)

LEMMA InitiallyNoParts ==
    ASSUME Init
    PROVE  PartInv
<1>1. PICK owner \in InitialOwners : plan = [a \in Holders |-> NoPlan]
  BY DEF Init
<1>2. NoPlan.todo = <<>> /\ <<>> \in Seq(Fitting)
  BY DEF NoPlan, Planned
<1>. QED
  BY <1>1, <1>2 DEF PartInv

LEMMA OptionsStay ==
    ASSUME [Next]_vars
    PROVE  options' = options /\ Fitting' = Fitting
<1>1. ASSUME NEW a \in Holders, HolderStep(a) PROVE options' = options
  BY <1>1 DEF HolderStep, MakeOffer, Request, LocateCore, CoreLocated, Manage, Forward,
              Forwarded, CollectOffer, Respond, Accepted, Rejected, End, SendNext, Crash,
              FollowNull, Elsewhere, electionVars
<1>2. ASSUME NEW a \in Agents, AgentStep(a) PROVE options' = options
  <2>1. CASE \/ Invade(a) \/ LookForWinner(a) \/ Seed(a) \/ Try(a) \/ ManageOwn(a)
             \/ LocateCenter(a) \/ CenterLocated(a)
    BY <2>1 DEF Invade, LookForWinner, Seed, Try, ManageOwn, LocateCenter, CenterLocated,
                Elsewhere, electionVars
  <2>2. CASE \/ SendRequest(a) \/ AllRequested(a) \/ CollectResponse(a) \/ TryAgain(a)
             \/ TakeOver(a) \/ EndRound(a)
    BY <2>2 DEF SendRequest, AllRequested, CollectResponse, TryAgain, TakeOver, EndRound,
                Elsewhere, electionVars
  <2>3. CASE \/ EnterRegion(a) \/ LeaveRegion(a) \/ PassBarrier(a) \/ Stop(a)
             \/ StopCluster(a)
    BY <2>3 DEF EnterRegion, LeaveRegion, PassBarrier, Stop, StopCluster, Elsewhere, electionVars
  <2>. QED
    BY <1>2, <2>1, <2>2, <2>3 DEF AgentStep
<1>3. ASSUME NEW d \in Directories, DirectoryStep(d) PROVE options' = options
  BY <1>3 DEF DirectoryStep, DirectoryRegisters, DirectoryAnswers, DirectoryEnds,
              DirectoryTakes, electionVars
<1>4. ASSUME MainStep \/ SendKill \/ Miss PROVE options' = options
  BY <1>4 DEF MainStep, SendInvade, Unload, Join, SendKill, Miss, MissCenter, MissLocated,
              FollowNull, electionVars
<1>5. options' = options
  BY <1>1, <1>2, <1>3, <1>4 DEF Next, Terminating, vars, electionVars
<1>. QED
  BY <1>5 DEF Fitting, Centered, Centers

LEMMA TriesFit ==
    ASSUME EInv, NEW a \in Agents, Try(a)
    PROVE  \E todo \in Seq(Fitting) : plan' = [plan EXCEPT ![a].todo = todo]
<1>h. a \in Holders
  BY Threads
<1>c. plan[a].core \in Cores /\ options \in Options
  <2>1. pc[a] = "try" /\ InHand(a) /\ plan[a] \in Plans
    BY <1>h, AgentParts DEF Try, At
  <2>2. plan[a].core # None
    BY <2>1, InHandParts DEF PlanInHand, Planning
  <2>. QED
    BY <2>1, <2>2 DEF Plans, EInv, ElectionTypes
<1>1. PICK kept \in Selections(plan[a].core, RegionNum, options.max_par_reqs,
                              NearLimit(plan[a].tries)) :
         \E centers \in SetToSeqs(kept) :
            plan' = [plan EXCEPT ![a].todo =
                       FlattenSeq([i \in DOMAIN centers |-> PiecesOf(plan[a].core, centers[i])])]
  BY DEF Try
<1>2. kept \subseteq Cores
  BY DEF Selections
<1>3. PICK centers \in SetToSeqs(kept) :
         plan' = [plan EXCEPT ![a].todo =
                    FlattenSeq([i \in DOMAIN centers |-> PiecesOf(plan[a].core, centers[i])])]
  BY <1>1
<1>. DEFINE todo == FlattenSeq([i \in DOMAIN centers |-> PiecesOf(plan[a].core, centers[i])])
<1>4. todo \in Seq(Fitting)
  BY <1>2, <1>c, TodoType
<1>5. plan' = [plan EXCEPT ![a].todo = todo]
  BY <1>3
<1>. HIDE DEF todo
<1>. QED
  BY <1>4, <1>5

LEMMA StepKeepsParts ==
    ASSUME EInv, PartInv, [Next]_vars
    PROVE  PartInv'
<1>o. Fitting' = Fitting
  BY OptionsStay
<1>t. AgentTypes /\ \A b \in Holders : plan[b] \in Plans /\ plan[b].todo \in Seq(Fitting)
  BY DEF EInv, AgentTypes, PartInv
<1>0. ASSUME UNCHANGED plan PROVE PartInv'
  BY <1>0, <1>o, <1>t DEF PartInv
<1>e. ASSUME NEW a \in Holders, NEW pl, pl.todo \in Seq(Fitting), plan' = [plan EXCEPT ![a] = pl]
      PROVE  PartInv'
  BY <1>e, <1>o, <1>t DEF PartInv, AgentTypes
<1>p. ASSUME NEW a \in Holders, plan[a].todo # <<>>, plan' = Popped(a) PROVE PartInv'
  <2>. DEFINE pl == [plan[a] EXCEPT !.todo = Tail(@), !.awaited = @ + 1]
  <2>1. Tail(plan[a].todo) \in Seq(Fitting)
    BY <1>t, <1>p
  <2>2. pl.todo \in Seq(Fitting)
    BY <1>t, <2>1 DEF Plans
  <2>3. plan' = [plan EXCEPT ![a] = pl]
    BY <1>p DEF Popped
  <2>. HIDE DEF pl
  <2>. QED
    BY <1>e, <2>2, <2>3
<1>1. ASSUME NEW a \in Holders, HolderStep(a) PROVE PartInv'
  <2>1. UNCHANGED plan
    BY <1>1 DEF HolderStep, MakeOffer, Request, LocateCore, CoreLocated, Manage, Forward,
                Forwarded, CollectOffer, Respond, Accepted, Rejected, End, SendNext, Crash,
                FollowNull, agentVars
  <2>. QED
    BY <1>0, <2>1
<1>2. ASSUME NEW a \in Agents, AgentStep(a) PROVE PartInv'
  <2>h. a \in Holders /\ plan[a] \in Plans /\ plan[a].todo \in Seq(Fitting)
    BY <1>t, Threads
  <2>1. CASE \/ Invade(a) \/ LookForWinner(a) \/ LocateCenter(a) \/ AllRequested(a)
             \/ EnterRegion(a) \/ LeaveRegion(a) \/ PassBarrier(a) \/ Stop(a) \/ StopCluster(a)
    <3>1. UNCHANGED plan
      BY <2>1 DEF Invade, LookForWinner, LocateCenter, AllRequested, EnterRegion, LeaveRegion,
                  PassBarrier, Stop, StopCluster, agentVars
    <3>. QED
      BY <1>0, <3>1
  <2>2. CASE Try(a)
    <3>1. PICK todo \in Seq(Fitting) : plan' = [plan EXCEPT ![a].todo = todo]
      BY <2>2, TriesFit
    <3>. DEFINE pl == [plan[a] EXCEPT !.todo = todo]
    <3>2. plan' = [plan EXCEPT ![a] = pl] /\ pl.todo \in Seq(Fitting)
      BY <2>h, <3>1 DEF Plans
    <3>. HIDE DEF pl
    <3>. QED
      BY <1>e, <2>h, <3>2
  <2>3. CASE ManageOwn(a) \/ SendRequest(a)
    <3>1. plan[a].todo # <<>>
      <4>1. CASE ManageOwn(a)
        BY <4>1 DEF ManageOwn
      <4>2. CASE SendRequest(a)
        BY <4>2, AgentParts, InHandParts, <2>h DEF SendRequest, Takes, PlanInHand, Planning
      <4>. QED
        BY <2>3, <4>1, <4>2
    <3>. QED
      BY <1>p, <2>3, <2>h, <3>1 DEF ManageOwn, SendRequest
  <2>4. CASE CenterLocated(a)
    <3>1. plan[a].todo # <<>>
      BY <2>4, AgentParts, InHandParts, <2>h DEF CenterLocated, Takes, PlanInHand, Planning
    <3>. QED
      BY <1>0, <1>p, <2>4, <2>h, <3>1 DEF CenterLocated
  <2>5. CASE CollectResponse(a)
    <3>. DEFINE pl == [plan[a] EXCEPT !.awaited = @ - 1, !.offers = Concat(@, Message(a).cores)]
    <3>1. plan' = [plan EXCEPT ![a] = pl] /\ pl.todo \in Seq(Fitting)
      BY <2>5, <2>h, <1>t DEF CollectResponse, Plans, AgentTypes
    <3>. HIDE DEF pl
    <3>. QED
      BY <1>e, <2>h, <3>1
  <2>6. CASE TryAgain(a)
    <3>. DEFINE pl == [plan[a] EXCEPT !.tries = @ + 1]
    <3>1. plan' = [plan EXCEPT ![a] = pl] /\ pl.todo \in Seq(Fitting)
      BY <2>6, <2>h DEF TryAgain, Plans
    <3>. HIDE DEF pl
    <3>. QED
      BY <1>e, <2>h, <3>1
  <2>7. CASE Seed(a) \/ TakeOver(a) \/ EndRound(a)
    <3>1. \E core, taken : plan' = [plan EXCEPT ![a] = Planned(core, taken)]
      BY <2>7 DEF Seed, TakeOver, EndRound, NoPlan
    <3>2. \A core, taken : Planned(core, taken).todo = <<>>
      BY DEF Planned
    <3>3. <<>> \in Seq(Fitting)
      OBVIOUS
    <3>. QED
      BY <1>e, <2>h, <3>1, <3>2, <3>3
  <2>. QED
    BY <1>2, <2>1, <2>2, <2>3, <2>4, <2>5, <2>6, <2>7 DEF AgentStep
<1>3. ASSUME NEW d \in Directories, DirectoryStep(d) PROVE PartInv'
  BY <1>0, <1>3 DEF DirectoryStep, DirectoryRegisters, DirectoryAnswers, DirectoryEnds,
                    DirectoryTakes
<1>4. ASSUME MainStep \/ SendKill \/ Miss PROVE PartInv'
  BY <1>0, <1>4 DEF MainStep, SendInvade, Unload, Join, SendKill, Miss, MissCenter, MissLocated,
                    FollowNull, agentVars
<1>5. ASSUME UNCHANGED vars PROVE PartInv'
  BY <1>0, <1>5 DEF vars, agentVars
<1>. QED
  BY <1>1, <1>2, <1>3, <1>4, <1>5 DEF Next, Terminating

(* Only the center of a part without cores is no core.                     *)
LEMMA OnlyEmptyPartsAreMissed ==
    ASSUME EInv, PartInv, Miss
    PROVE  EmptyPartReached'
<1>1. UNCHANGED <<pc, plan, options>>
  BY DEF Miss, MissCenter, MissLocated, FollowNull, agentVars, electionVars
<1>2. PICK a \in Agents : CenterIsGarbage(a)
  BY DEF Miss, MissCenter, MissLocated
<1>3. a \in Holders /\ plan[a] \in Plans /\ plan[a].todo # <<>>
  BY <1>2, Threads, AgentParts DEF CenterIsGarbage, Centering
<1>4. Centers(Piece(a).region) /\ Piece(a).region.center \notin Cores
  BY <1>2, <1>3, PieceType, CoresAreNumbers DEF CenterIsGarbage
<1>5. options.region_size > SizeThresh /\ AtEmptyPart(a)
  <2>1. Piece(a) \in Fitting
    BY <1>3 DEF PartInv, Piece
  <2>. QED
    BY <1>2, <1>4, <2>1 DEF Centers, AtEmptyPart, CenterIsGarbage, Fitting
<1>6. AtEmptyPart(a)'
  BY <1>1, <1>5 DEF AtEmptyPart, Centering, Piece
<1>. QED
  BY <1>1, <1>5, <1>6 DEF EmptyPartReached

-----------------------------------------------------------------------------
(* The steps by which no END gets into a mailbox, and where they lead.     *)
NoEnds(list) == \A i \in DOMAIN list : list[i].msg.kind # "END"
Unending(a) ==
    /\ \/ UNCHANGED queue
       \/ CanTake(a) /\ queue' = Taken(a)
       \/ \E s : s.msg.kind # "END" /\ queue' = With(queue, s)
       \/ \E s : s.msg.kind # "END" /\ CanTake(a) /\ queue' = With(Taken(a), s)
    /\ \/ UNCHANGED out
       \/ \E list : Sends(a, list) /\ NoEnds(list)
NoNewEnds ==
    /\ \A r \in Mailboxes : HasEnd(queue'[r]) => HasEnd(queue[r])
    /\ \A b \in Holders : \A i \in DOMAIN out'[b] :
          out'[b][i].msg.kind = "END" => \E j \in DOMAIN out[b] : out[b][j] = out'[b][i]

LEMMA EndsAppended ==
    ASSUME NEW list \in Seq(Messages), NEW m
    PROVE  HasEnd(Append(list, m)) <=> HasEnd(list) \/ m.kind = "END"
<1>1. /\ DOMAIN list = 1 .. Len(list) /\ Len(list) \in Nat
      /\ DOMAIN Append(list, m) = 1 .. Len(list) + 1
      /\ Append(list, m)[Len(list) + 1] = m
      /\ \A i \in 1 .. Len(list) : Append(list, m)[i] = list[i]
  OBVIOUS
<1>. QED
  BY <1>1 DEF HasEnd

LEMMA EndsTaken ==
    ASSUME MailTypes, NEW a \in Holders, CanTake(a), NEW r \in Mailboxes
    PROVE  /\ HasEnd(Taken(a)[r]) => HasEnd(queue[r])
           /\ Taken(a)[r] \in Seq(Messages) /\ DOMAIN Taken(a) = Mailboxes
<1>1. a \in Mailboxes /\ queue[a] \in Seq(Messages) /\ queue[r] \in Seq(Messages)
  BY MailboxesAreFinite DEF MailTypes
<1>2. Taken(a) = [queue EXCEPT ![a] = Unlinked(queue[a], Accepts(pc[a]))]
  BY DEF Taken
<1>3. /\ Taken(a)[r] = IF r = a THEN Unlinked(queue[a], Accepts(pc[a])) ELSE queue[r]
      /\ DOMAIN Taken(a) = Mailboxes
  BY <1>1, <1>2 DEF MailTypes
<1>4. Acceptable(queue[a], Accepts(pc[a])) # {}
  BY DEF CanTake
<1>. QED
  BY <1>1, <1>3, <1>4, UnlinkedIsOld DEF HasEnd

LEMMA EndsWith ==
    ASSUME NEW q, DOMAIN q = Mailboxes, NEW r \in Mailboxes, q[r] \in Seq(Messages), NEW s
    PROVE  /\ HasEnd(With(q, s)[r]) => HasEnd(q[r]) \/ (s.msg.kind = "END" /\ r = s.to)
           /\ r # s.to => With(q, s)[r] = q[r]
<1>1. With(q, s)[r] = IF r = s.to THEN Append(q[r], s.msg) ELSE q[r]
  BY DEF With
<1>. QED
  BY <1>1, EndsAppended

LEMMA NothingEnds ==
    ASSUME MailTypes, NEW a \in Holders, Unending(a)
    PROVE  NoNewEnds
<1>1. ASSUME NEW r \in Mailboxes PROVE HasEnd(queue'[r]) => HasEnd(queue[r])
  <2>1. CASE UNCHANGED queue
    BY <2>1
  <2>2. CASE CanTake(a) /\ queue' = Taken(a)
    BY <2>2, EndsTaken
  <2>3. ASSUME NEW s, s.msg.kind # "END", queue' = With(queue, s)
        PROVE  HasEnd(queue'[r]) => HasEnd(queue[r])
    <3>1. DOMAIN queue = Mailboxes /\ queue[r] \in Seq(Messages)
      BY DEF MailTypes
    <3>. QED
      BY <2>3, <3>1, EndsWith
  <2>4. ASSUME NEW s, s.msg.kind # "END", CanTake(a), queue' = With(Taken(a), s)
        PROVE  HasEnd(queue'[r]) => HasEnd(queue[r])
    <3>1. DOMAIN Taken(a) = Mailboxes /\ Taken(a)[r] \in Seq(Messages)
      BY <2>4, EndsTaken
    <3>2. HasEnd(Taken(a)[r]) => HasEnd(queue[r])
      BY <2>4, EndsTaken
    <3>. QED
      BY <2>4, <3>1, <3>2, EndsWith
  <2>. QED
    BY <2>1, <2>2, <2>3, <2>4 DEF Unending
<1>2. ASSUME NEW b \in Holders, NEW i \in DOMAIN out'[b], out'[b][i].msg.kind = "END"
      PROVE  \E j \in DOMAIN out[b] : out[b][j] = out'[b][i]
  <2>1. CASE UNCHANGED out
    BY <1>2, <2>1
  <2>2. ASSUME NEW list, Sends(a, list), NoEnds(list)
        PROVE  \E j \in DOMAIN out[b] : out[b][j] = out'[b][i]
    <3>1. out'[b] = IF b = a THEN list ELSE out[b]
      BY <2>2 DEF Sends, MailTypes
    <3>. QED
      BY <1>2, <2>2, <3>1 DEF NoEnds
  <2>. QED
    BY <2>1, <2>2 DEF Unending
<1>. QED
  BY <1>1, <1>2 DEF NoNewEnds

(* Nobody comes back from the end of its loop, and an agent is beyond the  *)
(* exit of the region only after Stop.                                     *)
Onward(a) ==
    UNCHANGED pc \/ \E p : /\ pc' = [pc EXCEPT ![a] = p]
                           /\ a \in Agents => pc[a] \notin Over /\ p \notin Out
Straying ==
    \A b \in Agents : /\ pc[b] \in Over => pc'[b] \in Over
                      /\ pc'[b] \in Out => pc[b] \in Out

LEMMA OnwardStrays ==
    ASSUME AgentTypes, NEW a \in Holders, Onward(a)
    PROVE  Straying
<1>0. Agents \subseteq Holders
  BY Threads
<1>. QED
  BY <1>0 DEF AgentTypes, Onward, Straying

LEMMA ReceiversGoOn ==
    ASSUME EInv, NEW a \in Holders,
           \/ Request(a) \/ CollectOffer(a) \/ Accepted(a) \/ Rejected(a) \/ End(a)
           \/ CollectResponse(a) \/ CoreLocated(a)
    PROVE  Unending(a) /\ Onward(a)
<1>1. CanTake(a) /\ queue' = Taken(a) /\ UNCHANGED out
  BY DEF Request, CollectOffer, Accepted, Rejected, End, CollectResponse, CoreLocated, Takes
<1>2. UNCHANGED pc \/ \E p \in {"cores", "ending", "stopped"} :
                         /\ pc' = [pc EXCEPT ![a] = p]
                         /\ pc[a] \in {"loop", "owner"}
                         /\ p = "stopped" => a \notin Agents
  <2>1. CASE Request(a)
    BY <2>1, BeginIsHandling DEF Request, Takes
  <2>2. CASE CollectOffer(a) \/ Accepted(a) \/ Rejected(a) \/ CollectResponse(a)
    BY <2>2 DEF CollectOffer, Accepted, Rejected, CollectResponse
  <2>3. CASE End(a)
    BY <2>3, Threads DEF End, Takes, Goto
  <2>4. CASE CoreLocated(a)
    BY <2>4 DEF CoreLocated, Takes, Goto
  <2>. QED
    BY <2>1, <2>2, <2>3, <2>4
<1>. QED
  BY <1>1, <1>2 DEF Unending, Onward, Over, Out

LEMMA SendersGoOn ==
    ASSUME EInv, NEW a \in Holders, LocateCore(a) \/ Forward(a) \/ Respond(a) \/ LocateCenter(a)
    PROVE  Unending(a) /\ Onward(a)
<1>1. \E s : s.msg.kind # "END" /\ queue' = With(queue, s)
  <2>1. CASE LocateCore(a)
    <3>. DEFINE s == Locate(a, Min(Unlocated(a)))
    <3>1. s.msg.kind # "END"
      BY DEF Locate
    <3>2. queue' = With(queue, s)
      BY <2>1 DEF LocateCore
    <3>. HIDE DEF s
    <3>. QED
      BY <3>1, <3>2
  <2>2. CASE Forward(a)
    <3>. DEFINE s == [to |-> Handler(a),
                      msg |-> [kind |-> "FORWARD", from |-> a, region |-> request[a].region,
                               invader |-> request[a].invader, neighbors |-> Asked(a)]]
    <3>1. s.msg.kind # "END" /\ queue' = With(queue, s)
      BY <2>2 DEF Forward
    <3>. HIDE DEF s
    <3>. QED
      BY <3>1
  <2>3. CASE Respond(a)
    <3>1. PICK cores, view : queue' = With(queue, Offer(a, request[a].invader, view))
      BY <2>3 DEF Respond
    <3>. DEFINE s == Offer(a, request[a].invader, view)
    <3>2. s.msg.kind # "END"
      BY DEF Offer
    <3>. HIDE DEF s
    <3>. QED
      BY <3>1, <3>2 DEF s
  <2>4. CASE LocateCenter(a)
    <3>1. PICK center : queue' = With(queue, Locate(a, center))
      BY <2>4 DEF LocateCenter
    <3>. DEFINE s == Locate(a, center)
    <3>2. s.msg.kind # "END"
      BY DEF Locate
    <3>. HIDE DEF s
    <3>. QED
      BY <3>1, <3>2 DEF s
  <2>. QED
    BY <2>1, <2>2, <2>3, <2>4
<1>2. UNCHANGED out /\ \E p \in {"owner", "next", "loop", "center"} :
                          /\ pc' = [pc EXCEPT ![a] = p]
                          /\ pc[a] \in {"cores", "offers", "next"}
  BY DEF LocateCore, Forward, Respond, LocateCenter, At, Goto
<1>. QED
  BY <1>1, <1>2 DEF Unending, Onward, Over, Out

LEMMA AnswerersGoOn ==
    ASSUME EInv, NEW a \in Holders, MakeOffer(a) \/ SendRequest(a) \/ CenterLocated(a)
    PROVE  Unending(a) /\ Onward(a)
<1>1. CanTake(a) /\ UNCHANGED out
  BY DEF MakeOffer, SendRequest, CenterLocated, Takes
<1>2. \/ queue' = Taken(a)
      \/ \E s : s.msg.kind # "END" /\ queue' = With(Taken(a), s)
  <2>1. CASE MakeOffer(a)
    <3>1. PICK view : queue' = With(Taken(a), Offer(a, Message(a).from, view))
      BY <2>1 DEF MakeOffer
    <3>. DEFINE s == Offer(a, Message(a).from, view)
    <3>2. s.msg.kind # "END"
      BY DEF Offer
    <3>. HIDE DEF s
    <3>. QED
      BY <3>1, <3>2 DEF s
  <2>2. CASE SendRequest(a)
    <3>. DEFINE s == [to |-> Message(a).agent,
                      msg |-> [kind |-> "REQUEST", from |-> a, region |-> Piece(a).region]]
    <3>1. s.msg.kind # "END" /\ queue' = With(Taken(a), s)
      BY <2>2 DEF SendRequest
    <3>. HIDE DEF s
    <3>. QED
      BY <3>1
  <2>3. CASE CenterLocated(a)
    <3>1. CASE \E center : queue' = With(Taken(a), Locate(a, center))
      <4>1. PICK center : queue' = With(Taken(a), Locate(a, center))
        BY <3>1
      <4>. DEFINE s == Locate(a, center)
      <4>2. s.msg.kind # "END"
        BY DEF Locate
      <4>. HIDE DEF s
      <4>. QED
        BY <4>1, <4>2 DEF s
    <3>. QED
      BY <2>3, <3>1 DEF CenterLocated
  <2>. QED
    BY <2>1, <2>2, <2>3
<1>3. UNCHANGED pc \/ \E p \in {"next", "cores", "center again"} :
                         /\ pc' = [pc EXCEPT ![a] = p]
                         /\ pc[a] \in {"center", "center again"}
  <2>1. CASE MakeOffer(a)
    BY <2>1 DEF MakeOffer
  <2>2. CASE SendRequest(a)
    BY <2>2 DEF SendRequest, Takes, Goto
  <2>3. CASE CenterLocated(a)
    BY <2>3, BeginIsHandling DEF CenterLocated, Takes, Goto
  <2>. QED
    BY <2>1, <2>2, <2>3
<1>. QED
  BY <1>1, <1>2, <1>3 DEF Unending, Onward, Over, Out

LEMMA QuestionersGoOn ==
    ASSUME EInv, NEW a \in Holders, Manage(a) \/ Forwarded(a) \/ TakeOver(a)
    PROVE  Unending(a) /\ Onward(a)
<1>1. \E list : Sends(a, list) /\ NoEnds(list)
  <2>1. CASE Manage(a) \/ Forwarded(a)
    <3>1. PICK neighbors, region, invader : Ask(a, neighbors, region, invader)
      BY <2>1 DEF Manage, Forwarded
    <3>. DEFINE list == Questions(a, neighbors, region, invader)
    <3>2. Sends(a, list)
      BY <3>1, AskIsQuestions
    <3>3. NoEnds(list)
      BY DEF NoEnds, Questions
    <3>. HIDE DEF list
    <3>. QED
      BY <3>2, <3>3
  <2>2. CASE TakeOver(a)
    <3>1. PICK taken \in SUBSET Offered(a) : Sends(a, Answers(a, taken))
      BY <2>2 DEF TakeOver
    <3>2. plan[a].offers \in Offers
      BY AgentParts DEF Plans
    <3>. DEFINE list == Answers(a, taken)
    <3>3. \A i \in DOMAIN list : list[i].msg.kind \in {"ACCEPT", "REJECT", "REGISTER"}
      BY <3>2, AnswersCount
    <3>. HIDE DEF list
    <3>4. NoEnds(list)
      BY <3>3 DEF NoEnds
    <3>. QED
      BY <3>1, <3>4 DEF list
  <2>. QED
    BY <2>1, <2>2
<1>2. UNCHANGED queue \/ (CanTake(a) /\ queue' = Taken(a))
  BY DEF Manage, Forwarded, TakeOver, Takes
<1>3. \E p \in {"offers", "round over"} :
         pc' = [pc EXCEPT ![a] = p] /\ pc[a] \in {"cores", "loop", "responses"}
  BY DEF Manage, Forwarded, TakeOver, Takes, At, Goto
<1>. QED
  BY <1>1, <1>2, <1>3 DEF Unending, Onward, Over, Out

LEMMA ThinkersGoOn ==
    ASSUME EInv, NEW a \in Holders,
           \/ LookForWinner(a) \/ Seed(a) \/ Try(a) \/ ManageOwn(a)
           \/ AllRequested(a) \/ TryAgain(a)
    PROVE  Unending(a) /\ Onward(a)
<1>1. UNCHANGED <<queue, out>>
  BY DEF LookForWinner, Seed, Try, ManageOwn, AllRequested, TryAgain, Elsewhere
<1>2. \E p \in {"ending", "loop", "try", "next", "cores", "responses"} :
         /\ pc' = [pc EXCEPT ![a] = p]
         /\ pc[a] \in {"lost", "unwon", "seed", "try", "next", "responses"}
  <2>1. CASE LookForWinner(a) \/ Seed(a) \/ TryAgain(a)
    BY <2>1 DEF LookForWinner, Seed, TryAgain, At, Goto
  <2>2. CASE Try(a) \/ AllRequested(a)
    BY <2>2 DEF Try, AllRequested, At, Goto
  <2>3. CASE ManageOwn(a)
    BY <2>3, BeginIsHandling DEF ManageOwn, At
  <2>. QED
    BY <2>1, <2>2, <2>3
<1>. QED
  BY <1>1, <1>2 DEF Unending, Onward, Over, Out

LEMMA InvadersGoOn ==
    ASSUME EInv, NEW a \in Agents, Invade(a)
    PROVE  Unending(a) /\ Straying
<1>0. CanTake(a) /\ pc[a] = "loop" /\ queue' = Taken(a) /\ UNCHANGED out /\ a \in Holders
  BY Threads DEF Invade, Takes
<1>t. AgentTypes
  BY DEF EInv
<1>1. CASE pc' = [b \in Holders |-> IF pc[b] = "electing" \/ b = a
                                       THEN Outcome(b, Winner(a)) ELSE pc[b]]
  <2>1. \A b, winner : Outcome(b, winner) \in {"unwon", "seed", "lost"}
    BY DEF Outcome
  <2>2. ASSUME NEW b \in Agents
        PROVE  pc'[b] = pc[b] \/ (pc[b] \notin Over /\ pc'[b] \notin Out)
    <3>1. CASE pc[b] = "electing" \/ b = a
      <4>1. pc'[b] = Outcome(b, Winner(a))
        BY <1>1, <3>1, Threads
      <4>2. pc'[b] \in {"unwon", "seed", "lost"}
        BY <2>1, <4>1
      <4>3. pc[b] \in {"electing", "loop"}
        BY <1>0, <3>1
      <4>. QED
        BY <4>2, <4>3 DEF Over, Out
    <3>2. CASE ~ (pc[b] = "electing" \/ b = a)
      BY <1>1, <3>2, Threads
    <3>. QED
      BY <3>1, <3>2
  <2>. QED
    BY <1>0, <2>2 DEF Unending, Straying
<1>2. CASE Goto(a, "electing") \/ UNCHANGED pc
  <2>1. Onward(a)
    BY <1>0, <1>2 DEF Onward, Goto, Over, Out
  <2>. QED
    BY <1>0, <1>t, <2>1, OnwardStrays DEF Unending
<1>. QED
  BY <1>1, <1>2 DEF Invade

LEMMA DirectoriesGoOn ==
    ASSUME EInv, NEW d \in Directories, DirectoryStep(d)
    PROVE  NoNewEnds /\ Straying
<1>m. MailTypes /\ d \in Mailboxes
  BY MailboxesAreFinite DEF EInv
<1>0. queue[d] \in Seq(Messages) /\ queue[d] # <<>>
  BY <1>m, DirectoryAct DEF MailTypes
<1>1. UNCHANGED <<out, pc>>
  BY DirectoryAct
<1>2. ASSUME NEW r \in Mailboxes
      PROVE  /\ HasEnd(Without1st(d)[r]) => HasEnd(queue[r])
             /\ Without1st(d)[r] \in Seq(Messages) /\ DOMAIN Without1st(d) = Mailboxes
  <2>1. /\ Without1st(d)[r] = IF r = d THEN Tail(queue[d]) ELSE queue[r]
        /\ DOMAIN Without1st(d) = Mailboxes
    BY <1>m DEF Without1st, MailTypes
  <2>2. HasEnd(Tail(queue[d])) => HasEnd(queue[d])
    BY <1>0, Shifted DEF HasEnd
  <2>3. Tail(queue[d]) \in Seq(Messages) /\ queue[r] \in Seq(Messages)
    BY <1>0, <1>m DEF MailTypes
  <2>. QED
    BY <2>1, <2>2, <2>3
<1>3. ASSUME NEW r \in Mailboxes PROVE HasEnd(queue'[r]) => HasEnd(queue[r])
  <2>1. CASE Head(queue[d]).kind # "LOCATE"
    <3>1. queue' = Without1st(d)
      BY <2>1, DirectoryAct
    <3>. QED
      BY <1>2, <3>1
  <2>2. CASE Head(queue[d]).kind = "LOCATE"
    <3>. DEFINE s == Information(d)
    <3>1. queue' = With(Without1st(d), s)
      BY <2>2, DirectoryAct
    <3>2. s.msg.kind # "END"
      BY DEF Information
    <3>. HIDE DEF s
    <3>. QED
      BY <1>2, <3>1, <3>2, EndsWith
  <2>. QED
    BY <2>1, <2>2
<1>. QED
  BY <1>1, <1>3 DEF NoNewEnds, Straying

LEMMA MainGoesOn ==
    ASSUME EInv,
           \/ \E a \in Holders : Crash(a)
           \/ Miss \/ UsesBarrier \/ MainStep \/ UNCHANGED vars
    PROVE  NoNewEnds
<1>m. MailTypes /\ Idle \in Holders
  BY Threads DEF EInv
<1>1. CASE \/ \E a \in Holders : Crash(a)
           \/ Miss \/ UsesBarrier \/ Unload \/ Join \/ UNCHANGED vars
  <2>1. UNCHANGED <<queue, out>>
    BY <1>1 DEF Crash, Miss, MissCenter, MissLocated, FollowNull, UsesBarrier, EnterRegion,
                LeaveRegion, PassBarrier, Unload, Join, vars, agentVars
  <2>. QED
    BY <1>m, <2>1, NothingEnds DEF Unending
<1>2. CASE SendInvade
  <2>. DEFINE s == [to |-> main.next, msg |-> Control("INVADE")]
  <2>1. queue' = With(queue, s) /\ UNCHANGED out
    BY <1>2 DEF SendInvade, With
  <2>2. s.msg.kind # "END"
    BY DEF Control
  <2>. HIDE DEF s
  <2>3. Unending(Idle)
    BY <2>1, <2>2 DEF Unending
  <2>. QED
    BY <1>m, <2>3, NothingEnds
<1>. QED
  BY <1>1, <1>2 DEF MainStep

(* What each step does about the end.                                      *)
LEMMA StepGoesOn ==
    ASSUME EInv, [Next]_vars
    PROVE  /\ Straying \/ \E a \in Agents : Stop(a)
           /\ \/ NoNewEnds
              \/ \E a \in Holders : SendNext(a)
              \/ \E a \in Agents : EndRound(a) \/ Stop(a) \/ StopCluster(a)
              \/ SendKill
<1>t. AgentTypes /\ MailTypes /\ Agents \subseteq Holders
  BY Threads DEF EInv
<1>1. ASSUME NEW a \in Holders, Unending(a), Onward(a) PROVE NoNewEnds /\ Straying
  BY <1>1, <1>t, NothingEnds, OnwardStrays
<1>2. ASSUME NEW a \in Holders, HolderStep(a)
      PROVE  Straying /\ (NoNewEnds \/ SendNext(a))
  <2>1. CASE SendNext(a) \/ Crash(a)
    <3>1. Straying
      BY <2>1 DEF SendNext, Crash, FollowNull, agentVars, Straying
    <3>. QED
      BY <2>1, <3>1, MainGoesOn
  <2>2. CASE \/ Request(a) \/ CollectOffer(a) \/ Accepted(a) \/ Rejected(a) \/ End(a)
             \/ CoreLocated(a)
    BY <1>1, <2>2, ReceiversGoOn
  <2>3. CASE LocateCore(a) \/ Forward(a) \/ Respond(a)
    BY <1>1, <2>3, SendersGoOn
  <2>4. CASE MakeOffer(a)
    BY <1>1, <2>4, AnswerersGoOn
  <2>5. CASE Manage(a) \/ Forwarded(a)
    BY <1>1, <2>5, QuestionersGoOn
  <2>. QED
    BY <1>2, <2>1, <2>2, <2>3, <2>4, <2>5 DEF HolderStep
<1>3. ASSUME NEW a \in Agents, AgentStep(a)
      PROVE  /\ Straying \/ Stop(a)
             /\ NoNewEnds \/ EndRound(a) \/ Stop(a) \/ StopCluster(a)
  <2>0. a \in Holders
    BY <1>t
  <2>1. CASE Invade(a)
    BY <1>t, <2>0, <2>1, InvadersGoOn, NothingEnds
  <2>2. CASE \/ LookForWinner(a) \/ Seed(a) \/ Try(a) \/ ManageOwn(a)
             \/ AllRequested(a) \/ TryAgain(a)
    BY <1>1, <2>0, <2>2, ThinkersGoOn
  <2>3. CASE LocateCenter(a)
    BY <1>1, <2>0, <2>3, SendersGoOn
  <2>4. CASE CenterLocated(a) \/ SendRequest(a)
    BY <1>1, <2>0, <2>4, AnswerersGoOn
  <2>5. CASE CollectResponse(a)
    BY <1>1, <2>0, <2>5, ReceiversGoOn
  <2>6. CASE TakeOver(a)
    BY <1>1, <2>0, <2>6, QuestionersGoOn
  <2>7. CASE EndRound(a) \/ StopCluster(a)
    <3>1. CASE EndRound(a)
      <4>1. pc[a] = "round over" /\ \E p \in {"loop", "ending"} : pc' = [pc EXCEPT ![a] = p]
        BY <3>1 DEF EndRound, At, Goto
      <4>2. Onward(a)
        BY <4>1 DEF Onward, Over, Out
      <4>. QED
        BY <1>t, <2>0, <3>1, <4>2, OnwardStrays
    <3>2. CASE StopCluster(a)
      <4>1. pc[a] = "last" /\ pc' = [pc EXCEPT ![a] = "stopped"]
        BY <3>2 DEF StopCluster, At, Goto
      <4>2. Straying
        BY <1>t, <4>1 DEF Straying, Over, Out, AgentTypes
      <4>. QED
        BY <3>2, <4>2
    <3>. QED
      BY <2>7, <3>1, <3>2
  <2>8. CASE EnterRegion(a) \/ LeaveRegion(a) \/ PassBarrier(a)
    <3>1. Straying
      BY <2>8 DEF EnterRegion, LeaveRegion, PassBarrier, agentVars, Straying
    <3>. QED
      BY <2>8, <3>1, MainGoesOn DEF UsesBarrier
  <2>9. CASE Stop(a)
    BY <2>9
  <2>. QED
    BY <1>3, <2>1, <2>2, <2>3, <2>4, <2>5, <2>6, <2>7, <2>8, <2>9 DEF AgentStep
<1>4. ASSUME MainStep \/ SendKill \/ UNCHANGED vars PROVE Straying /\ (NoNewEnds \/ SendKill)
  <2>1. UNCHANGED pc
    BY <1>4 DEF MainStep, SendInvade, Unload, Join, SendKill, vars, agentVars
  <2>. QED
    BY <1>4, <2>1, MainGoesOn DEF Straying
<1>5. CASE Miss
  BY <1>5, MainGoesOn DEF Straying, Miss, MissCenter, MissLocated, FollowNull, agentVars
<1>. QED
  BY <1>2, <1>3, <1>4, <1>5, DirectoriesGoOn DEF Next, Terminating

(* An agent passes the exit of the region when all have come to it.        *)
LEMMA LeaversAreLast ==
    ASSUME EInv, ExitInv, NEW a \in Agents, Stop(a)
    PROVE  Ended /\ Ended'
<1>1. RoiProofs!ExitComplete /\ roi[a] = "outside"
  BY DEF Stop, ExitInv, RoiProofs!IInv
<1>2. \A b \in Agents : roi[b] \in {"wokenStop", "outside"}
  BY <1>1 DEF RoiProofs!ExitComplete
<1>3. Ended
  BY <1>2 DEF ExitInv, Ended
<1>4. \E p \in Out : pc' = [pc EXCEPT ![a] = p]
  BY DEF Stop, Goto, Out
<1>5. AgentTypes /\ Agents \subseteq Holders
  BY Threads DEF EInv
<1>6. \A b \in Agents : pc'[b] \in Over
  BY <1>3, <1>4, <1>5 DEF Ended, Over, Out, AgentTypes
<1>. QED
  BY <1>3, <1>6 DEF Ended, Over

(* The end of the rounds is final: the last one has been won, or all       *)
(* agents are past their loops.                                            *)
LEMMA EndIsFinal ==
    ASSUME EInv, ExitInv, [Next]_vars
    PROVE  ExitInv' /\ (Ended => Ended') /\ (Ending => Ending')
<1>t. /\ AgentTypes /\ Agents \subseteq Holders /\ rounds \in Nat /\ MaxRounds * N \in Nat
      /\ roi \in [Agents -> Barrier!Stages]
  <2>1. AgentTypes /\ rounds \in 0 .. MaxRounds * N /\ roi \in [Agents -> Barrier!Stages]
    BY DEF EInv, ElectionTypes, Barrier!TypeOK
  <2>2. MaxRounds \in Nat /\ N \in Nat
    BY Threads, OptionsAssumption
  <2>3. MaxRounds * N \in Nat
    BY <2>2
  <2>4. rounds \in Nat
    BY <2>1, <2>3
  <2>. QED
    BY <2>1, <2>3, <2>4, Threads
<1>1. ASSUME NEW a \in Agents, Stop(a) PROVE Ended /\ Ended'
  BY <1>1, LeaversAreLast
<1>2. Ended => Ended'
  BY <1>1, StepGoesOn DEF Straying, Ended
<1>3. Exhausted => Exhausted'
  <2>1. CASE UNCHANGED <<rounds, invading_agent>>
    BY <2>1 DEF Exhausted
  <2>2. ASSUME NEW a \in Agents, Invade(a), Exhausted PROVE Exhausted'
    BY <1>t, <2>2 DEF Invade, Exhausted
  <2>3. ASSUME NEW a \in Agents, EndRound(a), Exhausted PROVE Exhausted'
    BY <2>3 DEF EndRound, NewElection, Exhausted
  <2>. QED
    BY <2>1, <2>2, <2>3, OnlyTheseChange
<1>4. ExitInv'
  <2>1. RoiProofs!IInv'
    <3>1. \/ UNCHANGED <<roiReady, roi>>
          \/ \E a \in Agents : Barrier!StartROI(a) \/ Barrier!StopROI(a) \/ Barrier!Return(a)
      BY OnlyTheseChange DEF UsesBarrier, EnterRegion, LeaveRegion, PassBarrier
    <3>. QED
      BY <3>1, RoiStep DEF ExitInv
  <2>2. ASSUME NEW b \in Agents, roi'[b] \in {"waitStop", "wokenStop", "outside"}
        PROVE  pc'[b] \in Over
    <3>1. CASE roi[b] \in {"waitStop", "wokenStop", "outside"}
      BY <3>1, <1>1, <1>2, StepGoesOn DEF ExitInv, Straying, Ended
    <3>2. CASE roi[b] \notin {"waitStop", "wokenStop", "outside"}
      <4>1. PICK a \in Agents : EnterRegion(a) \/ LeaveRegion(a) \/ PassBarrier(a)
        BY <2>2, <3>2, OnlyTheseChange DEF UsesBarrier
      <4>2. UNCHANGED pc
        BY <4>1 DEF EnterRegion, LeaveRegion, PassBarrier, agentVars
      <4>3. a = b /\ LeaveRegion(a)
        <5>1. CASE EnterRegion(a)
          BY <1>t, <2>2, <3>2, <5>1 DEF EnterRegion, Barrier!StartROI, Barrier!Broadcast
        <5>2. CASE PassBarrier(a)
          BY <1>t, <2>2, <3>2, <5>2 DEF PassBarrier, Barrier!Return
        <5>3. CASE LeaveRegion(a) /\ a # b
          BY <1>t, <2>2, <3>2, <5>3 DEF LeaveRegion, Barrier!StopROI, Barrier!Broadcast
        <5>. QED
          BY <4>1, <5>1, <5>2, <5>3
      <4>4. pc[b] = "ending"
        BY <4>3 DEF LeaveRegion, At
      <4>. QED
        BY <4>2, <4>4 DEF Over
    <3>. QED
      BY <3>1, <3>2
  <2>3. ASSUME NEW a \in Agents, pc'[a] \in Out PROVE Ended'
    <3>1. CASE pc[a] \in Out
      BY <1>2, <3>1 DEF ExitInv
    <3>2. CASE pc[a] \notin Out
      BY <1>1, <2>3, <3>2, StepGoesOn DEF Straying
    <3>. QED
      BY <3>1, <3>2
  <2>. QED
    BY <2>1, <2>2, <2>3 DEF ExitInv, Ended, Out
<1>. QED
  BY <1>2, <1>3, <1>4 DEF Ending

(* Who could crash when all that remains is to end?                        *)
LEMMA NobodyInvades ==
    ASSUME EInv, Ending
    PROVE  \A a \in Agents : ~ Active(a)
<1>1. CASE Exhausted
  BY <1>1, NobodyIsActive DEF Exhausted
<1>2. CASE Ended
  <2>1. ASSUME NEW a \in Agents, Active(a) PROVE FALSE
    <3>1. pc[a] \in Over
      BY <1>2 DEF Ended
    <3>2. PlanInHand(a, pc[a], plan[a])
      BY Threads, AgentParts, InHandParts
    <3>. QED
      BY <2>1, <3>1, <3>2 DEF Active, PlanInHand, Planning, Managing, Over
  <2>. QED
    BY <2>1
<1>. QED
  BY <1>1, <1>2 DEF Ending

LEMMA NobodyWaits ==
    ASSUME EInv, CoreInv, Ending, NEW h \in Holders
    PROVE  pc[h] \notin Managing \union Planning
<1>1. \A a \in Agents : plan[a].core = None
  BY NobodyInvades DEF Active
<1>2. NothingDue
  BY <1>1 DEF NothingDue
<1>3. request[h] = NoRequest /\ NoRequest.invader = None
  BY <1>2, NobodyManages, RequestsMade
<1>4. RequestInHand(pc[h], request[h]) /\ PlanInHand(h, pc[h], plan[h])
  BY AgentParts, InHandParts
<1>5. pc[h] \notin Managing
  BY <1>3, <1>4 DEF RequestInHand
<1>6. pc[h] \notin Planning
  BY <1>1, <1>4 DEF PlanInHand
<1>. QED
  BY <1>5, <1>6

(* A message that is taken is in the mailbox.                              *)
LEMMA TakenFromMailbox ==
    ASSUME MailTypes, NEW a \in Holders, CanTake(a)
    PROVE  \E i \in DOMAIN queue[a] : queue[a][i] = Message(a)
<1>1. queue[a] \in Seq(Messages) /\ Acceptable(queue[a], Accepts(pc[a])) # {}
  BY MailboxesAreFinite DEF MailTypes, CanTake
<1>. QED
  BY <1>1, FirstAcceptableProperties DEF Message, Found

LEMMA NobodyCrashes ==
    ASSUME EInv, CoreInv, DirectoryInv, EndInv, kill = 1, NEW a \in Holders, Crash(a)
    PROVE  FALSE
<1>. DEFINE m == Message(a)
<1>0. CanTake(a)
  BY DEF Crash
<1>m. MailTypes /\ a \in Mailboxes
  BY MailboxesAreFinite DEF EInv
<1>1. m \in Messages /\ m.kind \in Accepts(pc[a])
  BY <1>0, <1>m, MessageType
<1>2. PICK i \in DOMAIN queue[a] : queue[a][i] = m
  BY <1>0, <1>m, TakenFromMailbox
<1>3. \/ pc[a] # "loop" /\ m.kind = "END"
      \/ pc[a] = "responses" /\ m.kind = "MAKE_OFFER"
      \/ m.kind = "INFO" /\ m.agent = Null
      \/ m.kind \in {"ACCEPT", "REJECT"} /\ m.core \notin reserved[a]
  BY DEF Crash
<1>. HIDE DEF m
<1>4. CASE pc[a] # "loop" /\ m.kind = "END"
  <2>1. Ending
    BY <1>2, <1>4 DEF EndInv, EndsMean, HasEnd
  <2>2. pc[a] \notin Managing \union Planning
    BY <2>1, NobodyWaits
  <2>3. pc[a] \in {"center", "center again", "owner", "offers", "responses"}
    BY <1>1, <1>4 DEF Accepts
  <2>. QED
    BY <2>2, <2>3 DEF Managing, Planning
<1>5. CASE pc[a] = "responses" /\ m.kind = "MAKE_OFFER"
  <2>1. PlanInHand(a, pc[a], plan[a])
    BY AgentParts, InHandParts
  <2>2. a \in Agents /\ Active(a)
    BY <1>5, <2>1 DEF PlanInHand, Planning, Active
  <2>3. m.invader \in Agents
    BY <1>1, <1>5, MessageParts
  <2>4. <<a, m>> \in ForInvader(m.invader)
    BY <1>1, <1>5, <1>m DEF ForInvader
  <2>5. UnderWay(ForInvader(m.invader)) # 0
    BY <1>2, <1>m, <2>4, NoneUnderWay
  <2>6. a = m.invader
    BY <2>2, <2>3, <2>5, RequestIsForTheActive DEF CoreInv
  <2>7. <<a, m>> \in Misled
    BY <1>1, <1>5, <1>m, <2>6 DEF Misled
  <2>8. UnderWay(Misled) # 0
    BY <1>2, <1>m, <2>7, NoneUnderWay
  <2>. QED
    BY <2>8 DEF CoreInv
<1>6. CASE m.kind = "INFO" /\ m.agent = Null
  <2>1. m.core \in Cores
    BY <1>1, <1>6, MessageParts
  <2>2. m.agent = HolderOf(m.core)
    BY <1>2, <1>6, <1>m, <2>1 DEF DirectoryInv, TruthInv
  <2>3. HolderOf(m.core) \in Holders
    BY <2>1, HolderIsFound DEF CoreInv
  <2>. QED
    BY <1>6, <2>2, <2>3, Threads
<1>7. CASE m.kind \in {"ACCEPT", "REJECT"} /\ m.core \notin reserved[a]
  <2>1. m.core \in Cores
    BY <1>1, <1>7, MessageParts
  <2>2. <<a, m>> \in Tokens(m.core, a)
    BY <1>1, <1>7, <1>m, <2>1, TokenPairs
  <2>3. UnderWay(Tokens(m.core, a)) # 0 /\ UnderWay(Tokens(m.core, a)) \in Nat
    BY <1>2, <1>m, <2>2, NoneUnderWay, UnderWayType
  <2>4. /\ Cardinality(Responding(m.core, a)) \in Nat
        /\ Cardinality(Collecting(m.core, a)) \in Nat
    BY HoldersAreCounted DEF Responding, Collecting
  <2>5. UnderWay(Tokens(m.core, a)) + Cardinality(Responding(m.core, a))
           + Cardinality(Collecting(m.core, a)) = 0
    BY <1>7, <2>1 DEF CoreInv, TokenInv
  <2>. QED
    BY <2>3, <2>4, <2>5
<1>. QED
  BY <1>3, <1>4, <1>5, <1>6, <1>7

(* An END is only sent at the end.                                         *)
LEMMA EndRoundEnds ==
    ASSUME EInv, EndInv, kill = 1, (Ending => Ending'), (Ended => Ended'),
           NEW a \in Agents, EndRound(a)
    PROVE  EndsMean'
<1>1. UNCHANGED queue
  BY DEF EndRound
<1>2. ASSUME NEW b \in Holders, NEW i \in DOMAIN out'[b], out'[b][i].msg.kind = "END"
      PROVE  Ending' /\ out'[b][i].to \in Agents
  <2>1. out \in [Holders -> Seq(Posts)] /\ rounds \in 0 .. MaxRounds * N /\ a \in Holders
        /\ MaxRounds * N \in Nat
    <3>1. out \in [Holders -> Seq(Posts)] /\ rounds \in 0 .. MaxRounds * N
      BY DEF EInv, MailTypes, ElectionTypes
    <3>2. a \in Holders
      BY Threads
    <3>3. MaxRounds \in Nat /\ N \in Nat
      BY Threads, OptionsAssumption
    <3>4. MaxRounds * N \in Nat
      BY <3>3
    <3>. QED
      BY <3>1, <3>2, <3>4
  <2>2. CASE b # a
    <3>1. out'[b] = out[b]
      BY <2>1, <2>2 DEF EndRound, Sends
    <3>. QED
      BY <1>2, <3>1 DEF EndInv, EndsMean
  <2>3. CASE b = a /\ rounds < MaxRounds * N
    <3>1. Sends(a, ToAll("INVADE", a))
      BY <2>3 DEF EndRound
    <3>2. out'[b] = ToAll("INVADE", a)
      BY <2>1, <2>3, <3>1 DEF Sends
    <3>. QED
      BY <1>2, <3>2 DEF ToAll
  <2>4. CASE b = a /\ ~ (rounds < MaxRounds * N)
    <3>1. Sends(a, ToAll("END", a))
      BY <2>4 DEF EndRound
    <3>2. out'[b] = ToAll("END", a)
      BY <2>1, <2>4, <3>1 DEF Sends
    <3>3. rounds' = MaxRounds * N /\ invading_agent' = None
      <4>1. rounds' = rounds /\ invading_agent' = None
        BY DEF EndRound, NewElection
      <4>2. rounds = MaxRounds * N
        BY <2>1, <2>4
      <4>. QED
        BY <4>1, <4>2
    <3>4. Exhausted'
      BY <3>3 DEF Exhausted
    <3>. QED
      BY <1>2, <2>4, <3>2, <3>4 DEF ToAll, Ending
  <2>. QED
    BY <2>2, <2>3, <2>4
<1>. QED
  BY <1>1, <1>2 DEF EndInv, EndsMean

LEMMA NoNewEndsKeep ==
    ASSUME EndsMean, Ending => Ending', Ended => Ended', NoNewEnds
    PROVE  EndsMean'
<1>1. Holders \subseteq Mailboxes /\ Directories \subseteq Mailboxes
  BY MailboxesAreFinite
<1>2. \A r \in Mailboxes : HasEnd(queue'[r]) => HasEnd(queue[r])
  BY DEF NoNewEnds
<1>3. ASSUME NEW b \in Holders, NEW i \in DOMAIN out'[b], out'[b][i].msg.kind = "END"
      PROVE  Ending' /\ out'[b][i].to \in Agents
  BY <1>3 DEF NoNewEnds, EndsMean
<1>. QED
  BY <1>1, <1>2, <1>3 DEF EndsMean

LEMMA SentEndsKeep ==
    ASSUME EInv, EndsMean, Ending => Ending', Ended => Ended', NEW a \in Holders, SendNext(a)
    PROVE  EndsMean'
<1>. DEFINE s == Head(out[a])
<1>m. /\ queue \in [Mailboxes -> Seq(Messages)] /\ out \in [Holders -> Seq(Posts)]
      /\ Holders \subseteq Mailboxes /\ Directories \subseteq Mailboxes
  BY MailboxesAreFinite DEF EInv, MailTypes
<1>0. out[a] # <<>> /\ queue' = With(queue, s) /\ out' = [out EXCEPT ![a] = Tail(out[a])]
  BY DEF SendNext
<1>1. /\ s = out[a][1] /\ 1 \in DOMAIN out[a]
      /\ \A i \in DOMAIN Tail(out[a]) : i + 1 \in DOMAIN out[a] /\ Tail(out[a])[i] = out[a][i + 1]
  <2>1. out[a] \in Seq(Posts)
    BY <1>m
  <2>. QED
    BY <1>0, <2>1
<1>2. s.msg.kind = "END" => Ending /\ s.to \in Agents
  BY <1>1 DEF EndsMean
<1>. HIDE DEF s
<1>3. \A r \in Mailboxes :
         HasEnd(queue'[r]) => HasEnd(queue[r]) \/ (s.msg.kind = "END" /\ r = s.to)
  BY <1>0, <1>m, EndsWith
<1>4. \A d \in Directories : d \notin Agents
  BY DirectoryIsNoHolder, Threads
<1>5. ASSUME NEW b \in Holders, NEW i \in DOMAIN out'[b], out'[b][i].msg.kind = "END"
      PROVE  Ending' /\ out'[b][i].to \in Agents
  <2>1. out'[b] = IF b = a THEN Tail(out[a]) ELSE out[b]
    BY <1>0, <1>m
  <2>2. \E j \in DOMAIN out[b] : out[b][j] = out'[b][i]
    BY <1>1, <1>5, <2>1
  <2>. QED
    BY <1>5, <2>2 DEF EndsMean
<1>6. \A h \in Holders : HasEnd(queue'[h]) => Ending'
  BY <1>2, <1>3, <1>m DEF EndsMean
<1>7. \A d \in Directories : HasEnd(queue'[d]) => Ended'
  BY <1>2, <1>3, <1>4, <1>m DEF EndsMean
<1>. QED
  BY <1>5, <1>6, <1>7 DEF EndsMean

LEMMA LeaversKeepEnds ==
    ASSUME EInv, ExitInv, EndsMean, Ending => Ending', Ended => Ended', NEW a \in Agents,
           Stop(a) \/ StopCluster(a)
    PROVE  EndsMean'
<1>m. /\ queue \in [Mailboxes -> Seq(Messages)]
      /\ Holders \subseteq Mailboxes /\ Directories \subseteq Mailboxes
  BY MailboxesAreFinite DEF EInv, MailTypes
<1>1. Ended
  <2>1. CASE Stop(a)
    BY <2>1, LeaversAreLast
  <2>2. CASE StopCluster(a)
    <3>1. pc[a] \in Out
      BY <2>2 DEF StopCluster, At, Out
    <3>. QED
      BY <3>1 DEF ExitInv
  <2>. QED
    BY <2>1, <2>2
<1>2. Ended' /\ Ending'
  BY <1>1 DEF Ending
<1>3. UNCHANGED out
  BY DEF Stop, StopCluster
<1>. QED
  BY <1>2, <1>3 DEF EndsMean

(* Nobody has been interrupted: that is so from the beginning.             *)
LEMMA NobodyInterrupts ==
    ASSUME EInv, [Next]_vars, kill' = 1
    PROVE  kill = 1 /\ ~ SendKill
<1>1. kill \in 1 .. N + 3 /\ N \in Nat
  BY Threads DEF EInv, MainTypes
<1>2. ASSUME SendKill PROVE FALSE
  <2>1. kill' = kill + 1
    BY <1>2 DEF SendKill
  <2>. QED
    BY <1>1, <2>1
<1>. QED
  BY <1>2, OnlyTheseChange

LEMMA EndsRemain ==
    ASSUME EInv, CoreInv, DirectoryInv, PartInv, ExitInv, EndInv, [Next]_vars
    PROVE  ExitInv' /\ EndInv'
<1>1. ExitInv' /\ (Ended => Ended') /\ (Ending => Ending')
  BY EndIsFinal
<1>2. ASSUME kill' = 1
      PROVE  /\ crashed' => EmptyPartReached'
             /\ EndsMean'
             /\ \A d \in Directories : d \notin listening' => Ended'
  <2>1. kill = 1 /\ ~ SendKill
    BY <1>2, NobodyInterrupts
  <2>2. (crashed => EmptyPartReached) /\ EndsMean /\ \A d \in Directories : d \notin listening => Ended
    BY <2>1 DEF EndInv
  <2>3. ASSUME crashed' PROVE EmptyPartReached'
    <3>1. CASE crashed
      <4>1. UNCHANGED <<pc, plan, options>>
        BY <3>1, CrashIsFinal DEF vars, agentVars, electionVars
      <4>. QED
        BY <2>2, <3>1, <4>1 DEF EmptyPartReached, AtEmptyPart, Centering, Piece
    <3>2. CASE ~ crashed
      <4>1. Miss
        BY <2>1, <2>3, <3>2, OnlyTheseChange, NobodyCrashes
      <4>. QED
        BY <4>1, OnlyEmptyPartsAreMissed
    <3>. QED
      BY <3>1, <3>2
  <2>4. EndsMean'
    <3>1. CASE NoNewEnds
      BY <1>1, <2>2, <3>1, NoNewEndsKeep
    <3>2. CASE \E a \in Holders : SendNext(a)
      BY <1>1, <2>2, <3>2, SentEndsKeep
    <3>3. ASSUME NEW a \in Agents, EndRound(a) PROVE EndsMean'
      BY <1>1, <2>1, <3>3, EndRoundEnds
    <3>4. ASSUME NEW a \in Agents, Stop(a) \/ StopCluster(a) PROVE EndsMean'
      BY <1>1, <2>2, <3>4, LeaversKeepEnds
    <3>. QED
      BY <2>1, <3>1, <3>2, <3>3, <3>4, StepGoesOn
  <2>5. ASSUME NEW d \in Directories, d \notin listening' PROVE Ended
    <3>1. CASE d \notin listening
      BY <2>2, <3>1
    <3>2. CASE d \in listening
      <4>1. PICK e \in Directories : DirectoryEnds(e)
        BY <2>5, <3>2, OnlyTheseChange
      <4>2. queue[e] # <<>> /\ Head(queue[e]).kind = "END"
        BY <4>1 DEF DirectoryEnds, DirectoryTakes
      <4>3. queue[e] \in Seq(Messages)
        BY MailboxesAreFinite DEF EInv, MailTypes
      <4>4. HasEnd(queue[e])
        BY <4>2, <4>3 DEF HasEnd
      <4>. QED
        BY <2>2, <4>4 DEF EndsMean
    <3>. QED
      BY <3>1, <3>2
  <2>. QED
    BY <1>1, <2>3, <2>4, <2>5
<1>. QED
  BY <1>1, <1>2 DEF EndInv

LEMMA InitiallyNobodyEnds ==
    ASSUME Init, EInv
    PROVE  ExitInv /\ EndInv
<1>1. PICK owner \in InitialOwners :
          /\ queue = [r \in Mailboxes |->
                         IF r \in Directories THEN Registrations(owner, r) ELSE <<>>]
          /\ out = [a \in Holders |-> <<>>]
          /\ pc = [a \in Holders |-> "loop"]
          /\ listening = Directories
          /\ Barrier!Init
          /\ crashed = FALSE
  BY DEF Init, Mailboxes
<1>2. \A r \in Mailboxes : ~ HasEnd(queue[r])
  <2>1. ASSUME NEW d \in Directories, NEW i \in DOMAIN Registrations(owner, d)
        PROVE  Registrations(owner, d)[i].kind = "REGISTER"
    BY <2>1, InitialAssumption, RegistrationsType DEF Register
  <2>2. \A r \in Mailboxes : queue[r] = IF r \in Directories THEN Registrations(owner, r) ELSE <<>>
    BY <1>1
  <2>. QED
    BY <2>1, <2>2 DEF HasEnd
<1>3. EndInv
  <2>1. Holders \subseteq Mailboxes /\ Directories \subseteq Mailboxes
    BY MailboxesAreFinite
  <2>. QED
    BY <1>1, <1>2, <2>1 DEF EndInv, EndsMean
<1>4. ExitInv
  <2>1. \A a \in Agents : roi[a] = "new" /\ pc[a] = "loop"
    BY <1>1, Threads DEF Barrier!Init
  <2>2. RoiProofs!IInv
    BY <1>1, RoiInit
  <2>. QED
    BY <2>1, <2>2 DEF ExitInv, Out
<1>. QED
  BY <1>3, <1>4

(* OnlySigintOrEmptyPartCrashes, for any number of agents, cores, clusters *)
(* and all options: unless the user ends the program, no thread takes an   *)
(* END for an answer, finds no owner of a core, or misses a core in its    *)
(* reserve (handle_offer, remove_reserved_core and agent_recv_filter in    *)
(* distrm.c), and cluster_get_directory and directory_service find all     *)
(* cores but the center of a part without cores (region.c:118), which only *)
(* regions larger than size_thresh can have.                               *)
THEOREM OnlySigintAndEmptyPartsAreFatal == Spec => []OnlySigintOrEmptyPartCrashes
<1>1. Init => EInv /\ CoreInv
  BY InitEstablishes, InitEstablishesCoreInv
<1>2. Init => (InquiryInv /\ DirectoryInv) /\ (PartInv /\ ExitInv /\ EndInv)
  BY <1>1, InitiallyNobodyAsks, InitiallyRegistered, InitiallyNobodyEnds, InitiallyNoParts
<1>3. (EInv /\ CoreInv) /\ (InquiryInv /\ DirectoryInv) /\ [Next]_vars
         => (InquiryInv /\ DirectoryInv)'
  BY StepKeepsInquiries, StepKeepsDirectories
<1>4. (EInv /\ CoreInv) /\ (InquiryInv /\ DirectoryInv) /\ (PartInv /\ ExitInv /\ EndInv) /\ [Next]_vars
         => (PartInv /\ ExitInv /\ EndInv)'
  BY EndsRemain, StepKeepsParts
<1>5. EInv /\ EndInv => OnlySigintOrEmptyPartCrashes
  <2>1. EInv => kill \in Nat /\ kill >= 1
    BY Threads DEF EInv, MainTypes
  <2>. QED
    BY <2>1 DEF EndInv, EmptyPartReached, AtEmptyPart, OnlySigintOrEmptyPartCrashes
<1>. QED
  BY <1>2, <1>3, <1>4, <1>5, CoreInvariant, PTL DEF Spec

-----------------------------------------------------------------------------
(* What main reads from a directory that has stopped.                      *)
NoNewsIn(list) == \A i \in DOMAIN list : list[i].kind # "REGISTER"
Closed(list, d, open) == NewsBefore(list) /\ (d \notin open => NoNewsIn(list))

LEMMA ClosedAppend ==
    ASSUME NEW list \in Seq(Messages), NEW m \in Messages, NEW d, NEW open, Closed(list, d, open),
           m.kind # "REGISTER" \/ ~ (HasEnd(list) \/ d \notin open)
    PROVE  Closed(Append(list, m), d, open)
<1>. DEFINE more == Append(list, m)
<1>1. /\ DOMAIN list = 1 .. Len(list) /\ Len(list) \in Nat
      /\ DOMAIN more = 1 .. Len(list) + 1
      /\ more[Len(list) + 1] = m
      /\ \A i \in 1 .. Len(list) : more[i] = list[i]
  BY Appended
<1>. HIDE DEF more
<1>2. ASSUME NEW i \in DOMAIN more, NEW j \in DOMAIN more, i < j, more[i].kind = "END"
      PROVE  more[j].kind # "REGISTER"
  <2>1. i \in DOMAIN list /\ list[i].kind = "END"
    BY <1>1, <1>2
  <2>2. CASE j = Len(list) + 1
    BY <1>1, <2>1, <2>2 DEF HasEnd
  <2>3. CASE j # Len(list) + 1
    BY <1>1, <1>2, <2>1, <2>3 DEF Closed, NewsBefore
  <2>. QED
    BY <2>2, <2>3
<1>3. d \notin open => NoNewsIn(more)
  BY <1>1 DEF Closed, NoNewsIn
<1>. QED
  BY <1>2, <1>3 DEF more, Closed, NewsBefore

LEMMA ClosedTail ==
    ASSUME NEW list \in Seq(Messages), list # <<>>, NEW d, NEW open, NEW left,
           Closed(list, d, open), d \notin left => d \notin open \/ Head(list).kind = "END"
    PROVE  Closed(Tail(list), d, left)
<1>. DEFINE rest == Tail(list)
<1>1. /\ DOMAIN list = 1 .. Len(list) /\ Len(list) \in Nat /\ Len(list) >= 1
      /\ DOMAIN rest = 1 .. Len(list) - 1 /\ Head(list) = list[1]
      /\ \A i \in 1 .. Len(list) - 1 : rest[i] = list[i + 1]
  BY Shifted
<1>. HIDE DEF rest
<1>2. NewsBefore(rest)
  <2>1. ASSUME NEW i \in DOMAIN rest, NEW j \in DOMAIN rest, i < j, rest[i].kind = "END"
        PROVE  rest[j].kind # "REGISTER"
    <3>1. /\ i + 1 \in DOMAIN list /\ j + 1 \in DOMAIN list /\ i + 1 < j + 1
          /\ list[i + 1].kind = "END" /\ rest[j] = list[j + 1]
      BY <1>1, <2>1
    <3>. QED
      BY <3>1 DEF Closed, NewsBefore
  <2>. QED
    BY <2>1 DEF NewsBefore
<1>3. ASSUME d \notin left, NEW i \in DOMAIN rest PROVE rest[i].kind # "REGISTER"
  <2>1. 1 \in DOMAIN list /\ i + 1 \in DOMAIN list /\ 1 < i + 1 /\ rest[i] = list[i + 1]
    BY <1>1, <1>3
  <2>2. CASE d \notin open
    BY <2>1, <2>2 DEF Closed, NoNewsIn
  <2>3. CASE list[1].kind = "END"
    BY <2>1, <2>3 DEF Closed, NewsBefore
  <2>. QED
    BY <1>1, <1>3, <2>2, <2>3
<1>. QED
  BY <1>2, <1>3 DEF rest, Closed, NoNewsIn

LEMMA DirectoryReads ==
    ASSUME EInv, NEW d \in Directories, DirectoryStep(d)
    PROVE  /\ queue[d] # <<>> /\ queue'[d] = Tail(queue[d])
           /\ \A x \in Directories \ {d} : queue'[x] = queue[x]
           /\ \A x \in Directories \ {d} : x \in listening' <=> x \in listening
           /\ d \notin listening' => Head(queue[d]).kind = "END"
<1>. DEFINE m == Head(queue[d])
<1>m. /\ queue \in [Mailboxes -> Seq(Messages)] /\ d \in Mailboxes
      /\ \A x \in Directories : x \in Mailboxes /\ x \notin Holders
  BY MailboxesAreFinite, DirectoryIsNoHolder DEF EInv, MailTypes
<1>1. /\ queue[d] # <<>>
      /\ m.kind # "LOCATE" => queue' = Without1st(d)
      /\ m.kind = "LOCATE" => /\ m.from \in Holders /\ Information(d).to = m.from
                              /\ queue' = With(Without1st(d), Information(d))
  BY DirectoryAct DEF Information
<1>2. /\ Without1st(d)[d] = Tail(queue[d]) /\ DOMAIN Without1st(d) = Mailboxes
      /\ \A x \in Mailboxes \ {d} : Without1st(d)[x] = queue[x]
  BY <1>m DEF Without1st
<1>3. \A x \in Directories : queue'[x] = Without1st(d)[x]
  <2>1. CASE m.kind = "LOCATE"
    <3>1. \A x \in Directories : x # Information(d).to
      BY <1>1, <1>m, <2>1
    <3>. HIDE DEF m
    <3>. QED
      BY <1>1, <1>2, <1>m, <2>1, <3>1 DEF With
  <2>. QED
    BY <1>1, <2>1
<1>4. /\ \A x \in Directories \ {d} : x \in listening' <=> x \in listening
      /\ d \notin listening' => m.kind = "END"
  BY DEF DirectoryStep, DirectoryRegisters, DirectoryAnswers, DirectoryEnds, DirectoryTakes
<1>. QED
  BY <1>1, <1>2, <1>3, <1>4, <1>m

LEMMA EndedIsQuiet ==
    ASSUME EInv, CoreInv, Ended
    PROVE  \A b \in Holders : \A i \in DOMAIN out[b] : out[b][i].msg.kind # "REGISTER"
<1>1. ASSUME NEW b \in Holders, NEW i \in DOMAIN out[b], out[b][i].msg.kind = "REGISTER"
      PROVE  FALSE
  <2>1. b \in Agents /\ pc[b] = "round over"
    BY <1>1, AnnouncersAreDone
  <2>. QED
    BY <2>1 DEF Ended, Over
<1>. QED
  BY <1>1

(* A directory stops after it has read all registrations, because those    *)
(* are sent before their agent comes to the end of its loop.               *)
LEMMA ClosedRemains ==
    ASSUME EInv, CoreInv, InquiryInv, EndInv, ClosedInv, [Next]_vars
    PROVE  ClosedInv'
<1>. SUFFICES ASSUME kill' = 1, NEW d \in Directories
              PROVE  Closed(queue'[d], d, listening')
  BY DEF ClosedInv, Closed, NoNewsIn
<1>1. kill = 1 /\ ~ SendKill
  BY NobodyInterrupts
<1>2. Closed(queue[d], d, listening)
  BY <1>1 DEF ClosedInv, Closed, NoNewsIn
<1>3. HasEnd(queue[d]) \/ d \notin listening => Ended
  BY <1>1 DEF EndInv, EndsMean
<1>m. /\ queue \in [Mailboxes -> Seq(Messages)] /\ out \in [Holders -> Seq(Posts)]
      /\ d \in Mailboxes /\ queue[d] \in Seq(Messages) /\ Agents \subseteq Holders
  BY MailboxesAreFinite, Threads DEF EInv, MailTypes
<1>4. ASSUME NEW x \in Directories, DirectoryStep(x) PROVE Closed(queue'[d], d, listening')
  <2>1. CASE x = d
    <3>1. /\ queue[d] # <<>> /\ queue'[d] = Tail(queue[d])
          /\ d \notin listening' => Head(queue[d]).kind = "END"
      BY <1>4, <2>1, DirectoryReads
    <3>. QED
      BY <1>2, <1>m, <3>1, ClosedTail
  <2>2. CASE x # d
    <3>1. queue'[d] = queue[d] /\ (d \in listening' <=> d \in listening)
      BY <1>4, <2>2, DirectoryReads
    <3>. QED
      BY <1>2, <3>1 DEF Closed
  <2>. QED
    BY <2>1, <2>2
<1>5. ASSUME ~ \E x \in Directories : DirectoryStep(x) PROVE UNCHANGED listening
  BY <1>5, OnlyTheseChange DEF DirectoryStep
<1>6. ASSUME UNCHANGED listening, NoNews PROVE Closed(queue'[d], d, listening')
  <2>1. CASE queue'[d] = queue[d]
    BY <1>2, <1>6, <2>1
  <2>2. ASSUME NEW m \in Messages, m.kind # "REGISTER", queue'[d] = Append(queue[d], m)
        PROVE  Closed(queue'[d], d, listening')
    BY <1>2, <1>6, <1>m, <2>2, ClosedAppend
  <2>. QED
    BY <1>6, <2>1, <2>2 DEF NoNews, AddsNoNews
<1>7. ASSUME UNCHANGED listening, NEW a \in Holders, SendNext(a)
      PROVE  Closed(queue'[d], d, listening')
  <2>. DEFINE s == Head(out[a])
  <2>1. out[a] # <<>> /\ queue' = With(queue, s) /\ out[a] \in Seq(Posts)
    BY <1>7, <1>m DEF SendNext
  <2>2. s = out[a][1] /\ 1 \in DOMAIN out[a] /\ s.msg \in Messages
    <3>1. out[a][1] \in Posts /\ s = out[a][1] /\ 1 \in DOMAIN out[a]
      BY <2>1
    <3>. QED
      BY <3>1 DEF Posts
  <2>3. s.msg.kind # "REGISTER" \/ ~ (HasEnd(queue[d]) \/ d \notin listening)
    BY <1>3, <2>2, EndedIsQuiet
  <2>. HIDE DEF s
  <2>4. queue'[d] = IF d = s.to THEN Append(queue[d], s.msg) ELSE queue[d]
    BY <1>m, <2>1 DEF With
  <2>5. CASE d = s.to
    BY <1>2, <1>7, <1>m, <2>2, <2>3, <2>4, <2>5, ClosedAppend
  <2>. QED
    BY <1>2, <1>7, <2>4, <2>5
<1>8. ASSUME UNCHANGED listening, NEW a \in Agents, TakeOver(a)
      PROVE  Closed(queue'[d], d, listening')
  BY <1>2, <1>8 DEF TakeOver
<1>. QED
  BY <1>4, <1>5, <1>6, <1>7, <1>8, StepKeepsInquiries

(* As long as nobody is interrupted, who has a core when its directory has *)
(* stopped is who has it in the end.                                       *)
LEMMA StoppedKnows ==
    ASSUME EInv, CoreInv, DirectoryInv, EndInv, ClosedInv, kill = 1,
           NEW c \in Cores, Directory(c) \notin listening
    PROVE  directory[c] = HolderOf(c)
<1>. DEFINE d == Directory(c)
<1>1. d \in Directories
  BY DirectoryIsNoHolder
<1>2. Ended
  BY <1>1 DEF EndInv
<1>3. \A b \in Holders : ~ Announces(b, c)
  BY <1>2, EndedIsQuiet DEF Announces, RegistersCore
<1>4. Latest(queue[d], directory[c], c, HolderOf(c))
  BY <1>3 DEF DirectoryInv, KnownInv
<1>5. \A i \in DOMAIN queue[d] : ~ RegistersCore(queue[d][i], c)
  BY <1>1 DEF ClosedInv, RegistersCore
<1>. HIDE DEF d
<1>. QED
  BY <1>4, <1>5 DEF Latest

LEMMA EndedHoldersStay ==
    ASSUME EInv, CoreInv, Ended, [Next]_vars
    PROVE  \A c \in Cores : HolderOf(c)' = HolderOf(c)
<1>1. \A a \in Agents : ~ Active(a)
  BY NobodyInvades DEF Ending
<1>. QED
  BY <1>1, StepMovesCores, HoldersStayTheSame

(* The directories are numbered one after the other.                       *)
LEMMA ClustersInOrder ==
    ASSUME NEW K \in Nat \ {0}, NEW b \in Nat, NEW c \in Nat, c \div K > b \div K
    PROVE  ((b \div K) + 1) * K \in 0 .. c /\ (((b \div K) + 1) * K) \div K = (b \div K) + 1
<1>1. b \div K \in Nat /\ c \div K \in Nat
  OBVIOUS
<1>2. PICK q \in Nat, r \in Nat : q = b \div K /\ r = c \div K /\ r >= q + 1
  BY <1>1
<1>3. r * K <= c
  BY <1>2
<1>4. (q + 1) * K <= r * K /\ (q + 1) * K \in Nat
  BY <1>2
<1>5. ((q + 1) * K) \div K = q + 1
  OBVIOUS
<1>. QED
  BY <1>2, <1>3, <1>4, <1>5

LEMMA LastDirectory ==
    ASSUME NEW d \in Directories, d + 1 \notin Directories, NEW c \in Cores
    PROVE  Directory(c) <= d
<1>1. PICK b \in Cores : d = Directory(b)
  BY DEF Directories
<1>2. /\ Cores = 0 .. Cardinality(Cores) - 1 /\ Cardinality(Cores) \in Nat
      /\ b \in Nat /\ c \in Nat /\ ClusterSize \in Nat \ {0} /\ N \in Nat
  BY CoresAreNumbers, CoresAssumption, OptionsAssumption, Threads
<1>. DEFINE q == b \div ClusterSize
            e == (q + 1) * ClusterSize
<1>3. q \in Nat /\ c \div ClusterSize \in Nat
  BY <1>2
<1>4. ASSUME c \div ClusterSize > q PROVE FALSE
  <2>1. e \in 0 .. c /\ e \div ClusterSize = q + 1
    BY <1>2, <1>4, ClustersInOrder
  <2>. HIDE DEF e
  <2>2. e \in Cores
    BY <1>2, <2>1
  <2>3. Directory(e) = d + 1
    <3>1. Directory(e) = N + 2 + (q + 1) /\ d = N + 2 + q
      BY <1>1, <2>1 DEF Directory
    <3>. HIDE DEF q
    <3>. QED
      BY <1>2, <1>3, <3>1
  <2>. QED
    BY <2>2, <2>3 DEF Directories
<1>. QED
  BY <1>1, <1>2, <1>3, <1>4 DEF Directory

LEMMA UnloadCollects ==
    ASSUME EInv, CoreInv, DirectoryInv, EndInv, ClosedInv, SystemInv, kill = 1, Unload,
           NEW c \in Cores, Collected(c)'
    PROVE  Directory(c) \notin listening /\ system'[c] = Assigned(HolderOf(c))
<1>m. /\ main.phase = "unload" /\ main.next \in Directories /\ main.next \notin listening
      /\ Directory(c) \in Nat /\ main.next \in Nat
      /\ main \in [phase : {"start", "unload", "join", "done"}, next : Nat]
  BY DirectoryIsNoHolder DEF EInv, MainTypes, Unload, Joined
<1>1. /\ system' = [x \in Cores |-> IF Directory(x) # main.next THEN system[x]
                                    ELSE IF directory[x] = Idle THEN Null ELSE directory[x]]
      /\ main' = IF main.next + 1 \in Directories THEN [main EXCEPT !.next = main.next + 1]
                                                  ELSE [phase |-> "join", next |-> 1]
  BY DEF Unload
<1>2. Directory(c) <= main.next
  <2>1. CASE main.next + 1 \in Directories
    <3>1. main'.phase = "unload" /\ main'.next = main.next + 1
      BY <1>1, <1>m, <2>1
    <3>2. Directory(c) < main.next + 1
      BY <3>1 DEF Collected
    <3>. QED
      BY <1>m, <3>2
  <2>2. CASE main.next + 1 \notin Directories
    BY <1>m, <2>2, LastDirectory
  <2>. QED
    BY <2>1, <2>2
<1>3. CASE Directory(c) = main.next
  <2>1. directory[c] = HolderOf(c)
    BY <1>3, <1>m, StoppedKnows
  <2>2. system'[c] = IF directory[c] = Idle THEN Null ELSE directory[c]
    BY <1>1, <1>3
  <2>. QED
    BY <1>3, <1>m, <2>1, <2>2 DEF Assigned
<1>4. CASE Directory(c) # main.next
  <2>1. Collected(c)
    BY <1>2, <1>4, <1>m DEF Collected
  <2>2. system'[c] = system[c]
    BY <1>1, <1>4
  <2>. QED
    BY <2>1, <2>2 DEF SystemInv
<1>. QED
  BY <1>3, <1>4

LEMMA SystemRemains ==
    ASSUME EInv, CoreInv, DirectoryInv, EndInv, ClosedInv, SystemInv, [Next]_vars
    PROVE  SystemInv'
<1>. SUFFICES ASSUME kill' = 1, NEW c \in Cores, Collected(c)'
              PROVE  Directory(c) \notin listening' /\ system'[c] = Assigned(HolderOf(c)')
  BY DEF SystemInv, Assigned
<1>1. kill = 1
  BY NobodyInterrupts
<1>2. Directory(c) \notin listening /\ system'[c] = Assigned(HolderOf(c))
  <2>1. CASE Unload
    BY <1>1, <2>1, UnloadCollects
  <2>2. CASE UNCHANGED <<main, system>>
    <3>1. Collected(c)
      BY <2>2 DEF Collected
    <3>. QED
      BY <1>1, <2>2, <3>1 DEF SystemInv
  <2>3. CASE SendInvade
    <3>1. main.phase = "start" /\ \/ main' = [phase |-> "unload", next |-> N + 2]
                                  \/ main' = [main EXCEPT !.next = @ + 1]
      BY <2>3 DEF SendInvade
    <3>2. /\ main \in [phase : {"start", "unload", "join", "done"}, next : Nat] /\ N \in Nat
          /\ Directory(c) \in Nat /\ Directory(c) >= N + 2
      BY DirectoryIsNoHolder, Threads DEF EInv, MainTypes
    <3>. QED
      BY <3>1, <3>2 DEF Collected
  <2>4. CASE Join
    <3>1. main.phase = "join" /\ UNCHANGED system
      BY <2>4 DEF Join
    <3>2. Collected(c)
      BY <3>1 DEF Collected
    <3>. QED
      BY <1>1, <3>1, <3>2 DEF SystemInv
  <2>. QED
    BY <2>1, <2>2, <2>3, <2>4, OnlyTheseChange DEF MainStep
<1>3. Ended
  BY <1>1, <1>2, DirectoryIsNoHolder DEF EndInv
<1>4. HolderOf(c)' = HolderOf(c)
  BY <1>3, EndedHoldersStay
<1>5. Directory(c) \notin listening'
  BY <1>2, OnlyTheseChange DEF DirectoryEnds
<1>. QED
  BY <1>2, <1>4, <1>5

LEMMA InitiallyNothingCollected ==
    ASSUME Init, EInv
    PROVE  ClosedInv /\ SystemInv
<1>1. PICK owner \in InitialOwners :
          /\ queue = [r \in Mailboxes |->
                         IF r \in Directories THEN Registrations(owner, r) ELSE <<>>]
          /\ listening = Directories
          /\ main = [phase |-> "start", next |-> 1]
  BY DEF Init, Mailboxes
<1>2. ASSUME NEW d \in Directories, NEW i \in DOMAIN queue[d]
      PROVE  queue[d][i].kind = "REGISTER"
  <2>1. \A j \in DOMAIN Registrations(owner, d) : Registrations(owner, d)[j].kind = "REGISTER"
    BY InitialAssumption, RegistrationsType DEF Register
  <2>2. queue[d] = Registrations(owner, d)
    BY <1>1, MailboxesAreFinite
  <2>. QED
    BY <1>2, <2>1, <2>2
<1>3. ClosedInv
  BY <1>1, <1>2 DEF ClosedInv, NewsBefore
<1>4. SystemInv
  BY <1>1 DEF SystemInv, Collected
<1>. QED
  BY <1>3, <1>4

(* FinalAssignmentIsRight, for any number of agents, cores and clusters:   *)
(* cluster_unload (cluster.c) reads each directory when it has stopped,    *)
(* and by then it knows of the last core that changed hands, and none ever *)
(* changes hands again, although agents may still be on their way out of   *)
(* distrm_main_loop.                                                       *)
THEOREM AssignmentIsFinal == Spec => []FinalAssignmentIsRight
<1>1. Init => EInv /\ CoreInv
  BY InitEstablishes, InitEstablishesCoreInv
<1>2. Init => /\ InquiryInv /\ DirectoryInv
              /\ PartInv /\ ExitInv /\ EndInv
              /\ ClosedInv /\ SystemInv
  BY <1>1, InitiallyNobodyAsks, InitiallyRegistered, InitiallyNobodyEnds, InitiallyNoParts,
     InitiallyNothingCollected
<1>3. (EInv /\ CoreInv) /\ (InquiryInv /\ DirectoryInv) /\ [Next]_vars
         => (InquiryInv /\ DirectoryInv)'
  BY StepKeepsInquiries, StepKeepsDirectories
<1>4. (EInv /\ CoreInv) /\ (InquiryInv /\ DirectoryInv) /\ (PartInv /\ ExitInv /\ EndInv) /\ [Next]_vars
         => (PartInv /\ ExitInv /\ EndInv)'
  BY EndsRemain, StepKeepsParts
<1>5. (EInv /\ CoreInv) /\ (InquiryInv /\ DirectoryInv) /\ (PartInv /\ ExitInv /\ EndInv)
         /\ (ClosedInv /\ SystemInv) /\ [Next]_vars
         => (ClosedInv /\ SystemInv)'
  BY ClosedRemains, SystemRemains
<1>6. SystemInv => FinalAssignmentIsRight
  BY DEF SystemInv, FinalAssignmentIsRight, Collected, Assigned
<1>. QED
  BY <1>2, <1>3, <1>4, <1>5, <1>6, CoreInvariant, PTL DEF Spec
=============================================================================
