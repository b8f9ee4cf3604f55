------------------------------- MODULE Distrm -------------------------------
(***************************************************************************)
(* The DistRM algorithm (distrm.c) with its core directory (cluster.c).    *)
(* The agents elect one of them to invade; it asks for cores around        *)
(* randomly chosen ones, whoever manages such a region collects offers,    *)
(* and the invader accepts or rejects each offered core.  Directory        *)
(* threads know the owner of each core, and the idle agent owns the cores  *)
(* that nobody else does.                                                  *)
(*                                                                         *)
(* Mailboxes are the atomic queues of MessageQueue.tla, the ROI barrier is *)
(* RoiBarrier.tla.  What the speedup functions (a Downey model with real   *)
(* parameters) make of a core is left open: an agent may offer any of its  *)
(* cores in the region and accept any that it is offered.  The lists of    *)
(* cores are sets, and random choices are arbitrary ones.                  *)
(***************************************************************************)
EXTENDS Regions, MessageList

CONSTANTS N,              \* the number of agents
          None,
          ClusterSize,    \* cluster_size, the option --cluster
          MaxRounds,      \* max_rounds, the option --distance
          Options,        \* region_size and max_par_reqs: --region and --requests
          RegionNum,      \* region_num
          TryLimit,       \* try_limit
          MaxDist,        \* max_dist
          LocalityThresh, \* locality_thresh
          SizeThresh,     \* size_thresh
          InitialOwners,  \* the assignments to start from; Null is free
          KillRounds      \* bound: with which options SIGINT may arrive, and when:
                          \* only if rounds is in KillRounds[options]

Null == 0 \* main and the signal handler send as NULL
Agents == 1 .. N
Idle == N + 1
Holders == Agents \union {Idle}
Directory(c) == N + 2 + (c \div ClusterSize)
Directories == {Directory(c) : c \in Cores}

ASSUME NAssumption == N \in Nat \ {0}
ASSUME CoresAssumption ==
    IsFiniteSet(Cores) /\ Cores # {} /\ Cores = 0 .. Cardinality(Cores) - 1
ASSUME NoneAssumption == None \notin Holders \union Cores
ASSUME OptionsAssumption ==
    /\ {ClusterSize, MaxRounds, RegionNum, TryLimit, SizeThresh} \subseteq Nat \ {0}
    /\ Options \subseteq [region_size : Nat \ {0}, max_par_reqs : Nat \ {0}]
ASSUME ThresholdAssumption == {MaxDist, LocalityThresh} \subseteq Nat
ASSUME InitialAssumption == InitialOwners \subseteq [Cores -> Agents \union {Null}]
ASSUME KillAssumption == KillRounds \in [Options -> SUBSET Nat]

VARIABLES queue,     \* the mailbox of each agent and directory
          out,       \* the messages that a thread is still about to send
          pc,        \* where the thread of each agent is
          owned,     \* a->owned_cores
          reserved,  \* a->reserved_cores
          request,   \* the request that it handles
          plan,      \* the cores that it invades
          self,      \* the scalars of its distrm_agent_t
          why,       \* history: why its loop ended
          stale, rounds, ready, invading_agent, options, \* the globals of distrm.c
          directory, \* the owner of each core in the view of its cluster
          listening, \* the directories that have not been stopped
          shutdown,  \* has cluster_stop been called?
          roiReady, roi, \* the ROI barrier
          main,      \* the main thread: what it does next, to which thread
          system,    \* the assignment that cluster_unload collects
          kill,      \* the thread that the signal handler ends next
          crashed    \* has a thread followed a NULL pointer?

agentVars == <<queue, out, pc, owned, reserved, request, plan, self, why>>
electionVars == <<stale, rounds, ready, invading_agent, options>>
clusterVars == <<directory, listening, shutdown>>
mainVars == <<main, system, kill>>
vars == <<agentVars, electionVars, clusterVars, roiReady, roi, mainVars, crashed>>

Barrier == INSTANCE RoiBarrier WITH ready <- roiReady

-----------------------------------------------------------------------------
(* Messages.  An offer tells of each core whose it is.                     *)
RegionsHere == [center : Int, size : Int, cores : SUBSET Cores]
Offers == UNION {[S -> Holders] : S \in SUBSET Cores}

Control(kind) == [kind |-> kind, from |-> Null]
Locate(a, c) == [to |-> Directory(c), msg |-> [kind |-> "LOCATE", from |-> a, core |-> c]]
Register(a, c) == [to |-> Directory(c), msg |-> [kind |-> "REGISTER", from |-> a, core |-> c]]
Offer(a, to, cores) ==
    [to |-> to, msg |-> [kind |-> "OFFER", from |-> a, cores |-> cores]]
Reply(a, to, kind, c) == [to |-> to, msg |-> [kind |-> kind, from |-> a, core |-> c]]

Messages ==
    [kind : {"INVADE", "END"}, from : Holders \union {Null}]
    \union [kind : {"LOCATE", "REGISTER", "ACCEPT", "REJECT"}, from : Holders, core : Cores]
    \union [kind : {"INFO"}, from : Directories, core : Cores, agent : Holders \union {Null}]
    \union [kind : {"REQUEST"}, from : Agents, region : RegionsHere]
    \union [kind : {"FORWARD"}, from : Holders, region : RegionsHere,
            invader : Agents, neighbors : SUBSET Holders]
    \union [kind : {"MAKE_OFFER"}, from : Holders, region : RegionsHere, invader : Agents]
    \union [kind : {"OFFER"}, from : Holders, cores : Offers]

NoRegion == [center |-> Garbage, size |-> 0, cores |-> {}]
Handling(region, invader, left) ==
    [region |-> region, invader |-> invader, found |-> <<>>, left |-> left, response |-> <<>>]
NoRequest == Handling(NoRegion, None, 0)
Planned(core, taken) ==
    [core |-> core, tries |-> 0, todo |-> <<>>, awaited |-> 0, offers |-> <<>>, taken |-> taken]
NoPlan == Planned(None, 0)

Pieces == [region : RegionsHere, located : BOOLEAN]

TypeOK ==
    /\ \A r \in Holders \union Directories : \A i \in DOMAIN queue[r] : queue[r][i] \in Messages
    /\ \A a \in Holders : \A i \in DOMAIN out[a] :
          out[a][i].to \in Holders \union Directories /\ out[a][i].msg \in Messages
    /\ pc \in [Holders -> {"loop", "electing", "lost", "unwon", "seed", "try", "next",
                           "center", "center again", "cores", "owner", "offers",
                           "responses", "round over", "ending", "last", "stopped"}]
    /\ owned \in [Holders -> SUBSET Cores]
    /\ reserved \in [Holders -> SUBSET Cores]
    /\ \A a \in Holders :
          /\ request[a].region \in RegionsHere
          /\ request[a].invader \in Agents \union {None}
          /\ request[a].left \in 0 .. N + 1
          /\ request[a].found \in Offers
          /\ request[a].response \in Offers
          /\ plan[a].core \in Cores \union {None}
          /\ plan[a].tries \in 0 .. TryLimit
          /\ ToSet(plan[a].todo) \subseteq Pieces
          /\ plan[a].awaited \in Nat
          /\ plan[a].offers \in Offers
          /\ plan[a].taken \in 0 .. Cardinality(Cores)
    /\ self \in [Holders -> [stale : BOOLEAN, rounds : 0 .. MaxRounds, was_invading : BOOLEAN]]
    /\ why \in [Holders -> {"", "stale", "outrun", "rounds", "end"}]
    /\ stale \in BOOLEAN
    /\ rounds \in 0 .. MaxRounds * N
    /\ ready \in 0 .. N
    /\ invading_agent \in Agents \union {None}
    /\ options \in Options
    /\ directory \in [Cores -> Holders \union {Null}]
    /\ listening \subseteq Directories
    /\ shutdown \in BOOLEAN
    /\ Barrier!TypeOK
    /\ main \in [phase : {"start", "unload", "join", "done"}, next : Nat]
    /\ system \in [Cores -> Agents \union {Null, None}]
    /\ kill \in 1 .. N + 3
    /\ crashed \in BOOLEAN

(* cluster_load and distrm_init, which registers the free cores for the    *)
(* idle agent and all others for their agents.  These messages are about   *)
(* different cores, so their order makes no difference.                    *)
Registrations(owner, d) ==
    SetToSeq({Register(IF owner[c] = Null THEN Idle ELSE owner[c], c).msg :
                 c \in {c \in Cores : Directory(c) = d}})

Init ==
    \E owner \in InitialOwners :
        /\ queue = [r \in Holders \union Directories |->
                       IF r \in Directories THEN Registrations(owner, r) ELSE <<>>]
        /\ out = [a \in Holders |-> <<>>]
        /\ pc = [a \in Holders |-> "loop"]
        /\ owned = [a \in Holders |->
                       {c \in Cores : owner[c] = (IF a = Idle THEN Null ELSE a)}]
        /\ reserved = [a \in Holders |-> {}]
        /\ request = [a \in Holders |-> NoRequest]
        /\ plan = [a \in Holders |-> NoPlan]
        /\ self = [a \in Holders |-> [stale |-> FALSE, rounds |-> 0, was_invading |-> FALSE]]
        /\ why = [a \in Holders |-> ""]
        /\ stale = FALSE /\ rounds = 0 /\ ready = 0 /\ invading_agent = None
        /\ options \in Options
        /\ directory = owner
        /\ listening = Directories
        /\ shutdown = FALSE
        /\ Barrier!Init
        /\ main = [phase |-> "start", next |-> 1]
        /\ system = [c \in Cores |-> None]
        /\ kill = 1
        /\ crashed = FALSE

-----------------------------------------------------------------------------
(* Where a thread is; it goes on once it has sent what it had to send, and *)
(* unless a segmentation fault has ended the whole program.                *)
At(a, place) == ~crashed /\ pc[a] = place /\ out[a] = <<>>
Goto(a, place) == pc' = [pc EXCEPT ![a] = place]
Sends(a, messages) == out' = [out EXCEPT ![a] = messages]
InOrderOfId(S) ==
    [i \in 1 .. Cardinality(S) |-> CHOOSE n \in S : Cardinality({m \in S : m < n}) = i - 1]
ToAll(kind, a) == [b \in Agents |-> [to |-> b, msg |-> [kind |-> kind, from |-> a]]]

(* agent_recv in the loop, and agent_recv_filter with filter_distrm_info   *)
(* or filter_distrm_offer.                                                 *)
Accepts(place) ==
    CASE place \in {"center", "center again", "owner"} -> {"INFO", "END"}
      [] place \in {"offers", "responses"} -> {"OFFER", "MAKE_OFFER", "END"}
      [] place = "loop" -> {"REQUEST", "FORWARD", "MAKE_OFFER", "OFFER", "ACCEPT",
                            "REJECT", "INVADE", "END", "INFO"}
      [] OTHER -> {}

Message(a) == Found(queue[a], Accepts(pc[a]))

CanTake(a) ==
    /\ ~crashed
    /\ out[a] = <<>>
    /\ a \in Agents => roi[a] = "inside"
    /\ Acceptable(queue[a], Accepts(pc[a])) # {}

Takes(a, place, kind) == pc[a] = place /\ CanTake(a) /\ Message(a).kind = kind

(* The mailboxes after a message has been taken, and after one was sent.   *)
Taken(a) == [queue EXCEPT ![a] = Unlinked(@, Accepts(pc[a]))]
With(mailboxes, s) == [mailboxes EXCEPT ![s.to] = Append(@, s.msg)]

(* What a step of one agent's thread usually leaves alone. *)
Elsewhere == UNCHANGED <<electionVars, clusterVars, roiReady, roi, mainVars, crashed>>

-----------------------------------------------------------------------------
(* Names with an underscore are deliberately wrong variants: each of them   *)
(* breaks a property that the variant it is named after satisfies.         *)

(* create_offer: the idle agent gives everything away.  What is offered is *)
(* put aside until the invader has answered.                               *)
Offerable(a, region) ==
    IF a = Idle THEN {owned[a]}
                ELSE SUBSET {c \in owned[a] : RegionContains(region, c)}

Reserve_KeepsOwned(a, cores) ==
    /\ UNCHANGED owned
    /\ reserved' = [reserved EXCEPT ![a] = @ \union cores]
Reserve(a, cores) ==
    /\ owned' = [owned EXCEPT ![a] = @ \ cores]
    /\ reserved' = [reserved EXCEPT ![a] = @ \union cores]

OwnedBy(a, cores) == [c \in cores |-> a]

(* view_concat: of two entries for one core the one of the first view stays. *)
Concat(v, w) ==
    [c \in DOMAIN v \union DOMAIN w |-> IF c \in DOMAIN v THEN v[c] ELSE w[c]]

(* handle_make_offer, in the loop or while it waits for offers itself.     *)
MakeOffer(a) ==
    /\ \/ Takes(a, "loop", "MAKE_OFFER")
       \/ Takes(a, "offers", "MAKE_OFFER")
    /\ \E cores \in Offerable(a, Message(a).region) :
          /\ Reserve(a, cores)
          /\ queue' = With(Taken(a), Offer(a, Message(a).from, OwnedBy(a, cores)))
    /\ UNCHANGED <<out, pc, request, plan, self, why>>
    /\ Elsewhere

(* handle_request_message: the owner of each core in the region is looked  *)
(* up.  The invader calls it too, for regions that it manages itself.      *)
Begin(a, region, invader) ==
    /\ request' = [request EXCEPT ![a] = Handling(region, invader, 0)]
    /\ Goto(a, "cores")

Request(a) ==
    /\ Takes(a, "loop", "REQUEST")
    /\ queue' = Taken(a)
    /\ Begin(a, Message(a).region, Message(a).from)
    /\ UNCHANGED <<out, owned, reserved, plan, self, why>>
    /\ Elsewhere

Unlocated(a) == request[a].region.cores \ DOMAIN request[a].found

LocateCore(a) ==
    /\ At(a, "cores")
    /\ Unlocated(a) # {}
    /\ queue' = With(queue, Locate(a, Min(Unlocated(a))))
    /\ Goto(a, "owner")
    /\ UNCHANGED <<out, owned, reserved, request, plan, self, why>>
    /\ Elsewhere

CoreLocated(a) ==
    /\ Takes(a, "owner", "INFO")
    /\ Message(a).agent # Null
    /\ queue' = Taken(a)
    /\ request' = [request EXCEPT ![a].found =
                      Concat(OwnedBy(Message(a).agent, {Message(a).core}), @)]
    /\ Goto(a, "cores")
    /\ UNCHANGED <<out, owned, reserved, plan, self, why>>
    /\ Elsewhere

(* The agent that owns most of the region manages it, unless that is the   *)
(* invader.  All others are asked, if agent 1 owns something of the region *)
(* (distrm.c:340 looks at cores[1]), and otherwise nobody.                 *)
CoresOf(a, owner) == Cardinality({c \in DOMAIN request[a].found : request[a].found[c] = owner})
Handler(a) ==
    LET most == {b \in Holders : /\ CoresOf(a, b) > 0
                                 /\ \A d \in Holders : CoresOf(a, d) <= CoresOf(a, b)}
    IN  IF most = {} \/ Min(most) = request[a].invader THEN a ELSE Min(most)
Asked_Invader(a) == IF CoresOf(a, 1) > 0 THEN Holders \ {Handler(a)} ELSE {}
Asked(a) ==
    IF CoresOf(a, 1) > 0 THEN Holders \ {request[a].invader, Handler(a)} ELSE {}

(* handle_request: the managing agent asks the others for offers.          *)
Ask(a, neighbors, region, invader) ==
    Sends(a, [i \in 1 .. Cardinality(neighbors) |->
                 [to |-> InOrderOfId(neighbors)[i],
                  msg |-> [kind |-> "MAKE_OFFER", from |-> a, region |-> region,
                           invader |-> invader]]])

Manage(a) ==
    /\ At(a, "cores")
    /\ Unlocated(a) = {}
    /\ Handler(a) = a
    /\ Ask(a, Asked(a), request[a].region, request[a].invader)
    /\ request' = [request EXCEPT ![a].left = Cardinality(Asked(a)), ![a].found = <<>>]
    /\ Goto(a, "offers")
    /\ UNCHANGED <<queue, owned, reserved, plan, self, why>>
    /\ Elsewhere

Forward(a) ==
    /\ At(a, "cores")
    /\ Unlocated(a) = {}
    /\ Handler(a) # a
    /\ queue' = With(queue, [to |-> Handler(a),
                   msg |-> [kind |-> "FORWARD", from |-> a, region |-> request[a].region,
                            invader |-> request[a].invader, neighbors |-> Asked(a)]])
    /\ request' = [request EXCEPT ![a] = NoRequest]
    /\ Goto(a, IF plan[a].core # None THEN "next" ELSE "loop")
    /\ UNCHANGED <<out, owned, reserved, plan, self, why>>
    /\ Elsewhere

(* DISTRM_FORWARD *)
Forwarded(a) ==
    /\ Takes(a, "loop", "FORWARD")
    /\ queue' = Taken(a)
    /\ LET m == Message(a)
       IN  /\ Ask(a, m.neighbors, m.region, m.invader)
           /\ request' = [request EXCEPT ![a] =
                             Handling(m.region, m.invader, Cardinality(m.neighbors))]
    /\ Goto(a, "offers")
    /\ UNCHANGED <<owned, reserved, plan, self, why>>
    /\ Elsewhere

(* Offers are counted, whoever they are from.                              *)
CollectOffer(a) ==
    /\ request[a].left > 0
    /\ Takes(a, "offers", "OFFER")
    /\ queue' = Taken(a)
    /\ request' = [request EXCEPT ![a].left = @ - 1,
                                  ![a].response = Concat(@, Message(a).cores)]
    /\ UNCHANGED <<out, pc, owned, reserved, plan, self, why>>
    /\ Elsewhere

(* With all offers in, the managing agent adds its own and responds.       *)
Respond(a) ==
    /\ At(a, "offers")
    /\ request[a].left = 0
    /\ LET invader == request[a].invader
       IN  \E cores \in IF a = invader THEN {{}} ELSE Offerable(a, request[a].region) :
              /\ Reserve(a, cores)
              /\ queue' = With(queue,
                    Offer(a, invader, Concat(request[a].response, OwnedBy(a, cores))))
    /\ request' = [request EXCEPT ![a] = NoRequest]
    /\ Goto(a, IF plan[a].core # None THEN "next" ELSE "loop")
    /\ UNCHANGED <<out, plan, self, why>>
    /\ Elsewhere

(* DISTRM_ACCEPT and DISTRM_REJECT: the core leaves the reserve.           *)
Accepted(a) ==
    /\ Takes(a, "loop", "ACCEPT")
    /\ queue' = Taken(a)
    /\ Message(a).core \in reserved[a]
    /\ reserved' = [reserved EXCEPT ![a] = @ \ {Message(a).core}]
    /\ UNCHANGED <<out, pc, owned, request, plan, self, why>>
    /\ Elsewhere

Rejected(a) ==
    /\ Takes(a, "loop", "REJECT")
    /\ queue' = Taken(a)
    /\ Message(a).core \in reserved[a]
    /\ reserved' = [reserved EXCEPT ![a] = @ \ {Message(a).core}]
    /\ owned' = [owned EXCEPT ![a] = @ \union {Message(a).core}]
    /\ UNCHANGED <<out, pc, request, plan, self, why>>
    /\ Elsewhere

-----------------------------------------------------------------------------
(* DISTRM_INVADE and distrm_invade: the first agent that may invade does,  *)
(* once all have asked.                                                    *)
Refreshed_Never(a) == self[a]
Refreshed(a) == IF stale THEN self[a] ELSE [self[a] EXCEPT !.stale = FALSE]

MayInvade_Unlimited(a, s) ==
    /\ ~s.was_invading \/ rounds >= MaxRounds * (N - 1)
    /\ ~s.stale
MayInvade(a, s) ==
    /\ s.rounds < MaxRounds
    /\ ~s.was_invading \/ rounds >= MaxRounds * (N - 1)
    /\ ~s.stale

Winner_Last(a) == IF MayInvade(a, Refreshed(a)) THEN a ELSE invading_agent
Winner(a) ==
    IF invading_agent = None /\ MayInvade(a, Refreshed(a)) THEN a ELSE invading_agent

(* Where an agent finds itself when all have asked.  An agent that has not *)
(* won is "unwon" if there is no winner and "lost" otherwise; it does the  *)
(* same in both cases.                                                     *)
Outcome(b, winner) ==
    CASE winner = None -> "unwon" [] winner = b -> "seed" [] OTHER -> "lost"

Invade(a) ==
    /\ Takes(a, "loop", "INVADE")
    /\ queue' = Taken(a)
    /\ IF rounds < MaxRounds * N
          THEN /\ self' = [self EXCEPT ![a] = Refreshed(a)]
               /\ invading_agent' = Winner(a)
               /\ ready' = ready + 1
               /\ IF ready + 1 = N
                     THEN /\ rounds' = rounds + 1
                          /\ pc' = [b \in Holders |-> IF pc[b] = "electing" \/ b = a
                                       THEN Outcome(b, Winner(a)) ELSE pc[b]]
                     ELSE /\ UNCHANGED rounds
                          /\ Goto(a, "electing")
          ELSE UNCHANGED <<self, invading_agent, ready, rounds, pc>>
    /\ UNCHANGED <<out, owned, reserved, request, plan, why, stale, options,
                   clusterVars, roiReady, roi, mainVars, crashed>>

(* An agent that has not won looks for the winner, without the lock, and   *)
(* takes it for a stale assignment if there is none.                       *)
LookForWinner(a) ==
    /\ At(a, "lost") \/ At(a, "unwon")
    /\ self' = [self EXCEPT ![a].was_invading = FALSE]
    /\ IF invading_agent = None
          THEN /\ Goto(a, "ending")
               /\ why' = [why EXCEPT ![a] = IF pc[a] = "lost" THEN "outrun" ELSE "stale"]
          ELSE /\ Goto(a, "loop")
               /\ UNCHANGED why
    /\ UNCHANGED <<queue, out, owned, reserved, request, plan>>
    /\ Elsewhere

-----------------------------------------------------------------------------
(* request_cores: a core of its own, or any if it has none, is the seed.   *)
Seed(a) ==
    /\ At(a, "seed")
    /\ \E c \in IF owned[a] # {} THEN owned[a] ELSE Cores :
          plan' = [plan EXCEPT ![a] = Planned(c, 0)]
    /\ Goto(a, "try")
    /\ UNCHANGED <<queue, out, owned, reserved, request, self, why>>
    /\ Elsewhere

(* A try asks for some regions.  A near one that is too large is split;    *)
(* the invader manages a near one itself, and for all others it looks up   *)
(* the owner of the center.                                                *)
PiecesOf(core, center) ==
    LET region == RegionAround(center, options.region_size)
        parts == Split(region, SizeThresh)
        whole(located) == <<[region |-> region, located |-> located]>>
    IN  IF Distance(center, core) > LocalityThresh THEN whole(TRUE)
        ELSE IF region.size > SizeThresh
                THEN [i \in DOMAIN parts |-> [region |-> parts[i], located |-> TRUE]]
                ELSE whole(FALSE)

NearLimit(tries) == IF tries < 2 THEN 0 ELSE tries * (MaxDist \div TryLimit)

Try(a) ==
    /\ At(a, "try")
    /\ \E kept \in Selections(plan[a].core, RegionNum, options.max_par_reqs,
                               NearLimit(plan[a].tries)) :
          \E centers \in SetToSeqs(kept) :
             plan' = [plan EXCEPT ![a].todo =
                         FlattenSeq([i \in DOMAIN centers |->
                                        PiecesOf(plan[a].core, centers[i])])]
    /\ Goto(a, "next")
    /\ UNCHANGED <<queue, out, owned, reserved, request, self, why>>
    /\ Elsewhere

Piece(a) == Head(plan[a].todo)
Popped_Uncounted(a) ==
    [plan EXCEPT ![a].todo = Tail(@), ![a].awaited = IF Piece(a).located THEN @ + 1 ELSE @]
Popped(a) == [plan EXCEPT ![a] = [plan[a] EXCEPT !.todo = Tail(@), !.awaited = @ + 1]]

ManageOwn(a) ==
    /\ At(a, "next")
    /\ plan[a].todo # <<>>
    /\ ~Piece(a).located
    /\ Begin(a, Piece(a).region, a)
    /\ plan' = Popped(a)
    /\ UNCHANGED <<queue, out, owned, reserved, self, why>>
    /\ Elsewhere

(* The center of an empty part is memory behind its view, read anew each   *)
(* time: it may happen to hold the number of a core, or not (MissCenter,   *)
(* MissLocated).                                                           *)
CenterRead(a) ==
    IF Piece(a).region.center = Garbage THEN Cores ELSE {Piece(a).region.center}

LocateCenter(a) ==
    /\ At(a, "next")
    /\ plan[a].todo # <<>>
    /\ Piece(a).located
    /\ \E center \in CenterRead(a) : queue' = With(queue, Locate(a, center))
    /\ Goto(a, "center")
    /\ UNCHANGED <<out, owned, reserved, request, plan, self, why>>
    /\ Elsewhere

(* The region is the invader's own to manage, or send_request looks up the *)
(* owner of the center once more and sends it the request.                 *)
CenterLocated(a) ==
    /\ Takes(a, "center", "INFO")
    /\ Message(a).agent # Null
    /\ IF Message(a).agent = a
          THEN /\ Begin(a, Piece(a).region, a)
               /\ plan' = Popped(a)
               /\ queue' = Taken(a)
          ELSE /\ Goto(a, "center again")
               /\ \E center \in CenterRead(a) : queue' = With(Taken(a), Locate(a, center))
               /\ UNCHANGED <<plan, request>>
    /\ UNCHANGED <<out, owned, reserved, self, why>>
    /\ Elsewhere

SendRequest(a) ==
    /\ Takes(a, "center again", "INFO")
    /\ Message(a).agent # Null
    /\ queue' = With(Taken(a), [to |-> Message(a).agent,
                   msg |-> [kind |-> "REQUEST", from |-> a, region |-> Piece(a).region]])
    /\ plan' = Popped(a)
    /\ Goto(a, "next")
    /\ UNCHANGED <<out, owned, reserved, request, self, why>>
    /\ Elsewhere

AllRequested(a) ==
    /\ At(a, "next")
    /\ plan[a].todo = <<>>
    /\ Goto(a, "responses")
    /\ UNCHANGED <<queue, out, owned, reserved, request, plan, self, why>>
    /\ Elsewhere

CollectResponse(a) ==
    /\ plan[a].awaited > 0
    /\ Takes(a, "responses", "OFFER")
    /\ queue' = Taken(a)
    /\ plan' = [plan EXCEPT ![a].awaited = @ - 1, ![a].offers = Concat(@, Message(a).cores)]
    /\ UNCHANGED <<out, pc, owned, reserved, request, self, why>>
    /\ Elsewhere

Offered(a) == DOMAIN plan[a].offers

TryAgain(a) ==
    /\ At(a, "responses")
    /\ plan[a].awaited = 0
    /\ Offered(a) = {} /\ plan[a].tries + 1 < TryLimit
    /\ plan' = [plan EXCEPT ![a].tries = @ + 1]
    /\ Goto(a, "try")
    /\ UNCHANGED <<queue, out, owned, reserved, request, self, why>>
    /\ Elsewhere

(* handle_offer: each core is accepted or rejected, and the directory told *)
(* of a new owner.  For core c the answer is number 2 * c of what is sent, *)
(* and the registration the next one.                                      *)
Answers_NotRegistered(a, taken) ==
    LET cores == InOrderOfId(Offered(a))
    IN  [i \in DOMAIN cores |-> Reply(a, plan[a].offers[cores[i]],
             IF cores[i] \in taken THEN "ACCEPT" ELSE "REJECT", cores[i])]
Answers(a, taken) ==
    LET order == InOrderOfId({2 * c : c \in Offered(a)} \union {2 * c + 1 : c \in taken})
        send(n) == IF n % 2 = 1 THEN Register(a, n \div 2)
                   ELSE Reply(a, plan[a].offers[n \div 2],
                              IF n \div 2 \in taken THEN "ACCEPT" ELSE "REJECT", n \div 2)
    IN  [i \in DOMAIN order |-> send(order[i])]

TakeOver(a) ==
    /\ At(a, "responses")
    /\ plan[a].awaited = 0
    /\ Offered(a) # {} \/ plan[a].tries + 1 = TryLimit
    /\ \E taken \in SUBSET Offered(a) :
          /\ Sends(a, Answers(a, taken))
          /\ owned' = [owned EXCEPT ![a] = @ \union taken]
          /\ plan' = [plan EXCEPT ![a] = Planned(@.core, Cardinality(taken))]
    /\ Goto(a, "round over")
    /\ UNCHANGED <<queue, reserved, request, self, why>>
    /\ Elsewhere

(* The end of an invasion: the next election, or the end of all rounds.    *)
NewElection_StillReady == invading_agent' = None /\ UNCHANGED ready
NewElection == invading_agent' = None /\ ready' = 0

EndRound(a) ==
    /\ At(a, "round over")
    /\ stale' = (plan[a].taken = 0)
    /\ self' = [self EXCEPT ![a] = [stale |-> plan[a].taken = 0, rounds |-> @.rounds + 1,
                                   was_invading |-> TRUE]]
    /\ NewElection
    /\ plan' = [plan EXCEPT ![a] = NoPlan]
    /\ IF rounds < MaxRounds * N
          THEN /\ Sends(a, ToAll("INVADE", a))
               /\ Goto(a, "loop")
               /\ UNCHANGED why
          ELSE /\ Sends(a, ToAll("END", a))
               /\ Goto(a, "ending")
               /\ why' = [why EXCEPT ![a] = "rounds"]
    /\ UNCHANGED <<queue, owned, reserved, request, rounds, options,
                   clusterVars, roiReady, roi, mainVars, crashed>>

(* DISTRM_END *)
End(a) ==
    /\ Takes(a, "loop", "END")
    /\ queue' = Taken(a)
    /\ Goto(a, IF a = Idle THEN "stopped" ELSE "ending")
    /\ why' = [why EXCEPT ![a] = "end"]
    /\ UNCHANGED <<out, owned, reserved, request, plan, self>>
    /\ Elsewhere

-----------------------------------------------------------------------------
(* agent_send, for the sends that follow each other.  A single one is part *)
(* of the step that leads to it.                                           *)
SendNext(a) ==
    /\ ~crashed
    /\ out[a] # <<>>
    /\ queue' = With(queue, Head(out[a]))
    /\ out' = [out EXCEPT ![a] = Tail(@)]
    /\ UNCHANGED <<pc, owned, reserved, request, plan, self, why>>
    /\ Elsewhere

(* The region of interest, in which the idle agent has no part.            *)
EnterRegion(a) ==
    /\ ~crashed
    /\ Barrier!StartROI(a)
    /\ UNCHANGED <<agentVars, electionVars, clusterVars, mainVars, crashed>>

LeaveRegion(a) ==
    /\ At(a, "ending")
    /\ Barrier!StopROI(a)
    /\ UNCHANGED <<agentVars, electionVars, clusterVars, mainVars, crashed>>

PassBarrier(a) ==
    /\ ~crashed
    /\ Barrier!Return(a)
    /\ UNCHANGED <<agentVars, electionVars, clusterVars, mainVars, crashed>>

(* Out of the region, an agent that was not told to end tells the idle     *)
(* agent and the directories.                                              *)
Stop(a) ==
    /\ At(a, "ending")
    /\ roi[a] = "outside"
    /\ IF why[a] = "end"
          THEN Goto(a, "stopped") /\ UNCHANGED queue
          ELSE /\ Goto(a, "last")
               /\ queue' = With(queue, [to |-> Idle, msg |-> [kind |-> "END", from |-> a]])
    /\ UNCHANGED <<out, owned, reserved, request, plan, self, why>>
    /\ Elsewhere

(* cluster_stop, under its mutex: only the first call has an effect.       *)
ClusterStop ==
    /\ queue' = [r \in DOMAIN queue |-> IF r \in Directories /\ ~shutdown
                    THEN Append(queue[r], Control("END")) ELSE queue[r]]
    /\ shutdown' = TRUE

StopCluster(a) ==
    /\ At(a, "last")
    /\ ClusterStop
    /\ Goto(a, "stopped")
    /\ UNCHANGED <<out, owned, reserved, request, plan, self, why, directory, listening,
                   electionVars, roiReady, roi, mainVars, crashed>>

FollowNull ==
    /\ crashed' = TRUE
    /\ UNCHANGED <<agentVars, electionVars, clusterVars, roiReady, roi, mainVars>>

(* NULL pointers followed: what the wait for an answer takes for one, the  *)
(* owner of a core without one, and a core that is not in the reserve.     *)
Crash(a) ==
    /\ CanTake(a)
    /\ LET m == Message(a)
       IN  \/ pc[a] # "loop" /\ m.kind = "END"
           \/ pc[a] = "responses" /\ m.kind = "MAKE_OFFER"
           \/ m.kind = "INFO" /\ m.agent = Null
           \/ m.kind \in {"ACCEPT", "REJECT"} /\ m.core \notin reserved[a]
    /\ FollowNull

(* What is read for the center of an empty part is no core: no cluster has *)
(* it, and agent_send follows the directory that cluster_get_directory     *)
(* does not find, in the first look-up or in that of send_request.         *)
Centering(a) == pc[a] \in {"next", "center", "center again"} /\ plan[a].todo # <<>>
CenterIsGarbage(a) == Centering(a) /\ Piece(a).region.center = Garbage

MissCenter(a) ==
    /\ CenterIsGarbage(a)
    /\ \/ At(a, "next")
       \/ Takes(a, "center", "INFO") /\ Message(a).agent \notin {Null, a}
    /\ FollowNull

HolderStep(a) ==
    \/ MakeOffer(a) \/ Request(a) \/ LocateCore(a) \/ CoreLocated(a)
    \/ Manage(a) \/ Forward(a) \/ Forwarded(a) \/ CollectOffer(a) \/ Respond(a)
    \/ Accepted(a) \/ Rejected(a) \/ End(a) \/ SendNext(a) \/ Crash(a)

AgentStep(a) ==
    \/ Invade(a) \/ LookForWinner(a)
    \/ Seed(a) \/ Try(a) \/ ManageOwn(a) \/ LocateCenter(a) \/ CenterLocated(a)
    \/ SendRequest(a) \/ AllRequested(a) \/ CollectResponse(a) \/ TryAgain(a)
    \/ TakeOver(a) \/ EndRound(a)
    \/ EnterRegion(a) \/ LeaveRegion(a) \/ PassBarrier(a) \/ Stop(a) \/ StopCluster(a)

-----------------------------------------------------------------------------
(* directory_service *)
DirectoryTakes(d, kind) ==
    /\ ~crashed
    /\ d \in listening
    /\ queue[d] # <<>>
    /\ Head(queue[d]).kind = kind
    /\ UNCHANGED <<out, pc, owned, reserved, request, plan, self, why,
                   shutdown, electionVars, roiReady, roi, mainVars, crashed>>

DirectoryRegisters(d) ==
    /\ DirectoryTakes(d, "REGISTER")
    /\ queue' = [queue EXCEPT ![d] = Tail(@)]
    /\ directory' = [directory EXCEPT ![Head(queue[d]).core] = Head(queue[d]).from]
    /\ UNCHANGED listening

DirectoryAnswers(d) ==
    /\ DirectoryTakes(d, "LOCATE")
    /\ LET m == Head(queue[d])
       IN  queue' = [queue EXCEPT ![d] = Tail(@),
                        ![m.from] = Append(@, [kind |-> "INFO", from |-> d, core |-> m.core,
                                               agent |-> directory[m.core]])]
    /\ UNCHANGED <<directory, listening>>

DirectoryEnds(d) ==
    /\ DirectoryTakes(d, "END")
    /\ queue' = [queue EXCEPT ![d] = Tail(@)]
    /\ listening' = listening \ {d}
    /\ UNCHANGED directory

(* The directory reads the center of an empty part after the agent that    *)
(* asks for it has, and follows what view_get_resource does not find.      *)
MissLocated(d) ==
    /\ ~crashed
    /\ d \in listening
    /\ queue[d] # <<>>
    /\ Head(queue[d]).kind = "LOCATE"
    /\ Head(queue[d]).from \in Agents
    /\ CenterIsGarbage(Head(queue[d]).from)
    /\ FollowNull

DirectoryStep(d) == DirectoryRegisters(d) \/ DirectoryAnswers(d) \/ DirectoryEnds(d)

-----------------------------------------------------------------------------
(* distrm_run *)
SendInvade ==
    /\ ~crashed /\ main.phase = "start"
    /\ queue' = [queue EXCEPT ![main.next] = Append(@, Control("INVADE"))]
    /\ main' = IF main.next = N THEN [phase |-> "unload", next |-> N + 2]
                                ELSE [main EXCEPT !.next = @ + 1]
    /\ UNCHANGED <<out, pc, owned, reserved, request, plan, self, why, clusterVars,
                   electionVars, roiReady, roi, system, kill, crashed>>

(* cluster_unload: the assignment is what the directories say.             *)
Joined_Early(d) == TRUE
Joined(d) == d \notin listening
Unload ==
    /\ ~crashed /\ main.phase = "unload"
    /\ Joined(main.next)
    /\ system' = [c \in Cores |-> IF Directory(c) # main.next THEN system[c]
                                  ELSE IF directory[c] = Idle THEN Null ELSE directory[c]]
    /\ main' = IF main.next + 1 \in Directories THEN [main EXCEPT !.next = @ + 1]
                                                ELSE [phase |-> "join", next |-> 1]
    /\ UNCHANGED <<agentVars, electionVars, clusterVars, roiReady, roi, kill, crashed>>

(* The rest of distrm_cleanup joins the agents and then the idle agent.    *)
Join ==
    /\ ~crashed /\ main.phase = "join"
    /\ pc[main.next] = "stopped"
    /\ main' = IF main.next = Idle THEN [main EXCEPT !.phase = "done"]
                                   ELSE [main EXCEPT !.next = @ + 1]
    /\ UNCHANGED <<agentVars, electionVars, clusterVars, roiReady, roi,
                   system, kill, crashed>>

MainStep == SendInvade \/ Unload \/ Join

(* distrm_kill, called by sigint_handler: it ends the agents, the idle     *)
(* agent, and the directories.                                             *)
SendKill ==
    /\ kill > 1 \/ rounds \in KillRounds[options]
    /\ ~crashed /\ main.phase # "done"
    /\ kill <= N + 2
    /\ IF kill <= N + 1
          THEN /\ queue' = [queue EXCEPT ![kill] = Append(@, Control("END"))]
               /\ UNCHANGED shutdown
          ELSE ClusterStop
    /\ kill' = kill + 1
    /\ UNCHANGED <<out, pc, owned, reserved, request, plan, self, why, directory, listening,
                   electionVars, roiReady, roi, main, system, crashed>>

Miss == (\E a \in Agents : MissCenter(a)) \/ (\E d \in Directories : MissLocated(d))

Terminating == main.phase = "done" /\ UNCHANGED vars

Next ==
    \/ \E a \in Holders : HolderStep(a)
    \/ \E a \in Agents : AgentStep(a)
    \/ \E d \in Directories : DirectoryStep(d)
    \/ Miss
    \/ MainStep
    \/ SendKill
    \/ Terminating

(* As long as a thread can go on, the operating system lets some thread go *)
(* on, and a handler that has begun runs to its end; whether SIGINT        *)
(* arrives is open.                                                        *)
Progress ==
    \/ \E a \in Holders : HolderStep(a)
    \/ \E a \in Agents : AgentStep(a)
    \/ \E d \in Directories : DirectoryStep(d)
    \/ Miss
    \/ MainStep
    \/ kill > 1 /\ SendKill

Spec == Init /\ [][Next]_vars /\ WF_vars(Progress)

-----------------------------------------------------------------------------
(* Who has a core: its owner, or who has put it aside and is not about to  *)
(* be told that it is taken.                                               *)
Released(h, c) ==
    \/ \E m \in ToSet(queue[h]) : m.kind = "ACCEPT" /\ m.core = c
    \/ \E b \in Holders : \E s \in ToSet(out[b]) :
           s.to = h /\ s.msg.kind = "ACCEPT" /\ s.msg.core = c
Has(h, c) == c \in owned[h] \/ (c \in reserved[h] /\ ~Released(h, c))
HolderOf(c) == CHOOSE h \in Holders : Has(h, c)

Unread == UNION {ToSet(queue[r]) : r \in DOMAIN queue}
Unsent == UNION {{out[a][i].msg : i \in DOMAIN out[a]} : a \in Holders}

(* An offer of a core, or the answer to one.                               *)
Concerns(m, c) ==
    \/ m.kind = "OFFER" /\ c \in DOMAIN m.cores
    \/ m.kind \in {"ACCEPT", "REJECT"} /\ m.core = c

OffersAndAnswers(c) ==
    (UNION {{<<"unread", a, i>> : i \in {j \in DOMAIN queue[a] : Concerns(queue[a][j], c)}} :
              a \in Holders})
    \union (UNION {{<<"unsent", a, i>> : i \in {j \in DOMAIN out[a] : Concerns(out[a][j].msg, c)}} :
              a \in Holders})
    \union {<<"response", a, 0>> : a \in {b \in Holders : c \in DOMAIN request[b].response}}
    \union {<<"offers", a, 0>> : a \in {b \in Holders : c \in Offered(b)}}

(* However many agents manage requests at the same time, no core gets lost *)
(* and none gets two owners: each has one owner or is put aside, and one   *)
(* that is put aside is in exactly one offer or answer that is under way.  *)
NoCoreIsLost ==
    \A c \in Cores :
        LET owners == {h \in Holders : c \in owned[h]}
            reservers == {h \in Holders : c \in reserved[h]}
        IN  /\ Cardinality(owners) <= 1
            /\ owners \union reservers # {}
            /\ Cardinality(OffersAndAnswers(c)) = Cardinality(reservers)

(* What a directory says of a core is still true when the answer is read,  *)
(* although owners register by messages and nobody waits for these.        *)
LocatedIsHolder ==
    \A m \in Unread : m.kind = "INFO" => m.agent = HolderOf(m.core)

(* Requests, offers and answers of the directory belong to one invasion:   *)
(* when it is over none is left that could be taken for one of the next,   *)
(* or reach the loop of an agent, which drops messages of these kinds.     *)
QuietBetweenRounds ==
    invading_agent = None =>
        \A m \in Unread \union Unsent :
            m.kind \in {"INVADE", "END", "ACCEPT", "REJECT", "REGISTER"}

(* The agent that invades has come to a part without cores.                *)
AtEmptyPart(a) == Centering(a) /\ Piece(a).region.cores = {}

(* No thread follows a NULL pointer unless SIGINT has arrived, or regions  *)
(* are so large that they are split and the agent that invades has come to *)
(* a part without cores.                                                   *)
OnlySigintOrEmptyPartCrashes ==
    crashed => \/ kill > 1
               \/ options.region_size > SizeThresh /\ \E a \in Agents : AtEmptyPart(a)

(* The assignment that main prints is the one the agents have agreed on,   *)
(* though it is read from the directories while agents may still run.      *)
FinalAssignmentIsRight ==
    main.phase \in {"join", "done"} /\ kill = 1 =>
        \A c \in Cores : system[c] = IF HolderOf(c) = Idle THEN Null ELSE HolderOf(c)

(* When an election has no winner, every agent with rounds left has tried  *)
(* in vain since any agent last gained something, though they read that    *)
(* from a global without a lock.                                           *)
Settled == \A a \in Agents : (stale /\ self[a].stale) \/ self[a].rounds = MaxRounds
NobodyWinsOnlyWhenSettled == (\E a \in Agents : why[a] = "stale") => Settled

(* "stale resource assignment detected" (distrm.c:634): that an agent stops *)
(* for that reason means that nobody can gain anything more.               *)
StaleStopIsSettled == (\E a \in Agents : why[a] \in {"stale", "outrun"}) => Settled

(* Unless an agent misses the winner of an election, or comes to a part    *)
(* without cores, the rounds come to an end and main gets its result.      *)
Outrun == \E a \in Agents : why[a] = "outrun"
Termination ==
    <>(main.phase = "done" \/ Outrun \/ kill > 1 \/ \E a \in Agents : AtEmptyPart(a))

Ownership == INSTANCE CoreOwnership WITH
                Owners <- Holders,
                owner <- [c \in Cores |-> HolderOf(c)],
                invading <- invading_agent
IsCoreOwnership == Ownership!Spec
=============================================================================
