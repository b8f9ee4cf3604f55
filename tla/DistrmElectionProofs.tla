------------------------ MODULE DistrmElectionProofs ------------------------
(***************************************************************************)
(* What the elections of Distrm.tla guarantee, for any number of agents,   *)
(* cores and rounds: the types of all variables, one invader at a time,    *)
(* and that no election is without a winner as long as somebody could win. *)
(***************************************************************************)
EXTENDS Distrm, MessageListProofs

Mailboxes == Holders \union Directories
Posts == [to : Mailboxes, msg : Messages]
Stops == {"loop", "electing", "lost", "unwon", "seed", "try", "next", "center",
          "center again", "cores", "owner", "offers", "responses", "round over",
          "ending", "last", "stopped"}
Requests == [region : RegionsHere, invader : Agents \union {None}, found : Offers,
             left : 0 .. N + 1, response : Offers]
Centers(region) ==
    \/ region.center \in Cores
    \/ region.center = Garbage /\ region.cores = {}
Centered == {p \in Pieces : Centers(p.region)}

(* Only large regions are split, and only parts can have no cores.         *)
Fitting == {p \in Centered : p.region.cores = {} => options.region_size > SizeThresh}
Plans == [core : Cores \union {None}, tries : 0 .. TryLimit, todo : Seq(Centered),
          awaited : Nat, offers : Offers, taken : 0 .. Cardinality(Cores)]

MailTypes ==
    /\ queue \in [Mailboxes -> Seq(Messages)]
    /\ out \in [Holders -> Seq(Posts)]
AgentTypes ==
    /\ pc \in [Holders -> Stops]
    /\ owned \in [Holders -> SUBSET Cores]
    /\ reserved \in [Holders -> SUBSET Cores]
    /\ request \in [Holders -> Requests]
    /\ plan \in [Holders -> Plans]
    /\ self \in [Holders -> [stale : BOOLEAN, rounds : Nat, was_invading : BOOLEAN]]
    /\ why \in [Holders -> {"", "stale", "outrun", "rounds", "end"}]
ElectionTypes ==
    /\ stale \in BOOLEAN
    /\ rounds \in 0 .. MaxRounds * N
    /\ ready \in Nat
    /\ invading_agent \in Agents \union {None}
    /\ options \in Options
ClusterTypes ==
    /\ directory \in [Cores -> Holders \union {Null}]
    /\ listening \subseteq Directories
    /\ shutdown \in BOOLEAN
MainTypes ==
    /\ main \in [phase : {"start", "unload", "join", "done"}, next : Nat]
    /\ main.phase = "start" => main.next \in Agents
    /\ main.phase = "unload" => main.next \in Directories
    /\ main.phase = "join" => main.next \in Holders
    /\ system \in [Cores -> Agents \union {Null, None}]
    /\ kill \in 1 .. N + 3
    /\ crashed \in BOOLEAN

(* What an agent has in hand where it is. *)
Managing == {"cores", "owner", "offers"}
Planning == {"try", "next", "center", "center again", "responses", "round over"}
Active(a) == pc[a] = "seed" \/ plan[a].core # None

RequestInHand(place, req) ==
    /\ place \in Managing => req.invader # None
    /\ place \notin Managing => req = NoRequest
    /\ place \in {"cores", "owner"} => req.left = 0 /\ req.response = <<>>
PlanInHand(a, place, pl) ==
    /\ place \in Planning => pl.core # None
    /\ pl.core # None => a \in Agents /\ place \in Planning \union Managing
    /\ pl.core = None => pl = NoPlan
    /\ place \in {"center", "center again"} => pl.todo # <<>>
    /\ place = "round over" => pl.awaited = 0 /\ pl.offers = <<>>
    /\ place \in {"seed", "electing", "lost", "unwon", "last"} => a \in Agents

(* Where an agent sends more than one message, and which ones. *)
Outgoing(place, kind) ==
    \/ place = "loop" /\ kind = "INVADE"
    \/ place = "ending" /\ kind = "END"
    \/ place = "offers" /\ kind = "MAKE_OFFER"
    \/ place = "round over" /\ kind \in {"ACCEPT", "REJECT", "REGISTER"}
OutInHand(a, place, messages) ==
    \A i \in DOMAIN messages :
        messages[i].msg.from = a /\ Outgoing(place, messages[i].msg.kind)

InHand(a) ==
    /\ RequestInHand(pc[a], request[a])
    /\ PlanInHand(a, pc[a], plan[a])
    /\ OutInHand(a, pc[a], out[a])
LocalInv == \A a \in Holders : InHand(a)

(* Messages that are in a mailbox or still to be sent. *)
Unposted(P) == {p \in Holders \X Posts : <<p[2].to, p[2].msg>> \in P}
UnderWay(P) == Count(queue, P) + Count(out, Unposted(P))

(* The invitations to an agent for the next election. *)
InvadeTo(b) == {p \in Mailboxes \X Messages : p[1] = b /\ p[2].kind = "INVADE"}
Uninvited(b) == main.phase = "start" /\ main.next <= b
Invitations(b) == UnderWay(InvadeTo(b)) + (IF Uninvited(b) THEN 1 ELSE 0)

Electing == {b \in Agents : pc[b] = "electing"}

(* Before everybody has asked, nobody invades, each agent has asked or is  *)
(* invited, and who wins so far has asked.                                 *)
Gathering ==
    /\ ready = Cardinality(Electing)
    /\ \A a \in Agents : ~ Active(a)
    /\ \A b \in Agents : Invitations(b) + (IF pc[b] = "electing" THEN 1 ELSE 0) <= 1
    /\ invading_agent # None => pc[invading_agent] = "electing"

(* Afterwards only the winner invades, or nobody goes on.                  *)
Decided ==
    /\ Electing = {}
    /\ \A b \in Agents : Invitations(b) = 0
    /\ invading_agent = None => \A a \in Agents : pc[a] \in {"unwon", "ending", "last", "stopped"}
    /\ invading_agent # None => \A a \in Agents : Active(a) <=> a = invading_agent

ElectionInv ==
    /\ ready <= N
    /\ ready < N => Gathering
    /\ ready = N => Decided
    /\ \A a \in Holders : self[a].rounds <= MaxRounds
    /\ invading_agent # None => self[invading_agent].rounds < MaxRounds

EInv ==
    /\ MailTypes /\ AgentTypes /\ ElectionTypes /\ ClusterTypes /\ MainTypes
    /\ Barrier!TypeOK
    /\ LocalInv /\ ElectionInv

-----------------------------------------------------------------------------
(* Numbers and sequences.                                                  *)

Below(S, n) == {m \in S : m < n}
Above(S, n) == {m \in S : m > n}

LEMMA SubsetIsSmaller ==
    ASSUME NEW S, IsFiniteSet(S), NEW T, T \subseteq S
    PROVE  /\ IsFiniteSet(T) /\ Cardinality(T) \in Nat /\ Cardinality(S) \in Nat
           /\ Cardinality(T) <= Cardinality(S)
           /\ \A x \in S : x \notin T => Cardinality(T) < Cardinality(S)
<1>1. IsFiniteSet(T) /\ Cardinality(T) <= Cardinality(S)
  BY FS_Subset
<1>2. Cardinality(T) \in Nat /\ Cardinality(S) \in Nat
  BY <1>1, FS_CardinalityType
<1>3. ASSUME NEW x \in S, x \notin T PROVE Cardinality(T) # Cardinality(S)
  BY <1>3, FS_Subset
<1>. QED
  BY <1>1, <1>2, <1>3

LEMMA BelowGrows ==
    ASSUME NEW S, S \subseteq Int, NEW x \in S, NEW y \in S, x < y
    PROVE  /\ Below(S, x) \subseteq Below(S, y) /\ x \in Below(S, y) /\ x \notin Below(S, x)
           /\ Above(S, y) \subseteq Above(S, x) /\ y \in Above(S, x) /\ y \notin Above(S, y)
<1>1. x \in Int /\ y \in Int
  OBVIOUS
<1>2. ASSUME NEW m \in S PROVE (m < x => m < y) /\ (m > y => m > x)
  <2>1. m \in Int
    OBVIOUS
  <2>. QED
    BY <1>1, <2>1
<1>3. ~ (x < x) /\ ~ (y > y) /\ y > x
  BY <1>1
<1>4. Below(S, x) \subseteq Below(S, y) /\ Above(S, y) \subseteq Above(S, x)
  BY <1>2 DEF Below, Above
<1>. QED
  BY <1>3, <1>4 DEF Below, Above

LEMMA LeastElement ==
    ASSUME NEW S, IsFiniteSet(S), S \subseteq Int, S # {}
    PROVE  Min(S) \in S /\ \A y \in S : Min(S) <= y
<1>. DEFINE ranks == {Cardinality(Below(S, x)) : x \in S}
<1>1. \A x : Below(S, x) \subseteq S
  BY DEF Below
<1>2. ranks \subseteq Nat /\ ranks # {}
  BY <1>1, SubsetIsSmaller
<1>3. PICK k \in ranks : \A j \in ranks : k <= j
  <2>. HIDE DEF ranks
  <2>. QED
    BY <1>2, LeastNatural
<1>4. PICK x \in S : k = Cardinality(Below(S, x))
  OBVIOUS
<1>5. ASSUME NEW y \in S, y < x PROVE FALSE
  <2>1. IsFiniteSet(Below(S, x))
    BY <1>1, SubsetIsSmaller
  <2>2. Below(S, y) \subseteq Below(S, x) /\ y \in Below(S, x) /\ y \notin Below(S, y)
    BY <1>5, BelowGrows
  <2>3. Cardinality(Below(S, y)) < k /\ Cardinality(Below(S, y)) \in Nat /\ k \in Nat
    BY <1>4, <2>1, <2>2, SubsetIsSmaller
  <2>. QED
    BY <1>3, <2>3
<1>6. \A y \in S : x <= y
  BY <1>5
<1>. QED
  BY <1>6 DEF Min

LEMMA GreatestElement ==
    ASSUME NEW S, IsFiniteSet(S), S \subseteq Int, S # {}
    PROVE  Max(S) \in S /\ \A y \in S : Max(S) >= y
<1>. DEFINE ranks == {Cardinality(Above(S, x)) : x \in S}
<1>1. \A x : Above(S, x) \subseteq S
  BY DEF Above
<1>2. ranks \subseteq Nat /\ ranks # {}
  BY <1>1, SubsetIsSmaller
<1>3. PICK k \in ranks : \A j \in ranks : k <= j
  <2>. HIDE DEF ranks
  <2>. QED
    BY <1>2, LeastNatural
<1>4. PICK x \in S : k = Cardinality(Above(S, x))
  OBVIOUS
<1>5. ASSUME NEW y \in S, y > x PROVE FALSE
  <2>1. IsFiniteSet(Above(S, x))
    BY <1>1, SubsetIsSmaller
  <2>2. Above(S, y) \subseteq Above(S, x) /\ y \in Above(S, x) /\ y \notin Above(S, y)
    BY <1>5, BelowGrows
  <2>3. Cardinality(Above(S, y)) < k /\ Cardinality(Above(S, y)) \in Nat /\ k \in Nat
    BY <1>4, <2>1, <2>2, SubsetIsSmaller
  <2>. QED
    BY <1>3, <2>3
<1>6. \A y \in S : x >= y
  BY <1>5
<1>. QED
  BY <1>6 DEF Max

(* A list by number names every element once.                              *)
LEMMA InOrderOfIdNamesAll ==
    ASSUME NEW S, IsFiniteSet(S), S \subseteq Int
    PROVE  /\ Cardinality(S) \in Nat
           /\ InOrderOfId(S) \in [1 .. Cardinality(S) -> S]
           /\ \A i, j \in 1 .. Cardinality(S) :
                 InOrderOfId(S)[i] = InOrderOfId(S)[j] => i = j
           /\ \A x \in S : \E i \in 1 .. Cardinality(S) : InOrderOfId(S)[i] = x
<1>. DEFINE k == Cardinality(S)
            rank == [x \in S |-> Cardinality(Below(S, x)) + 1]
<1>0. k \in Nat
  BY FS_CardinalityType
<1>1. \A x : Below(S, x) \subseteq S
  BY DEF Below
<1>2. ASSUME NEW x \in S
      PROVE  Cardinality(Below(S, x)) \in Nat /\ Cardinality(Below(S, x)) < k
  <2>1. x \notin Below(S, x)
    BY DEF Below
  <2>. QED
    BY <1>1, <2>1, SubsetIsSmaller
<1>3. rank \in [S -> 1 .. k]
  BY <1>0, <1>2
<1>4. ASSUME NEW x \in S, NEW y \in S, x < y
      PROVE  Cardinality(Below(S, x)) < Cardinality(Below(S, y))
  <2>1. IsFiniteSet(Below(S, y))
    BY <1>1, SubsetIsSmaller
  <2>2. Below(S, x) \subseteq Below(S, y) /\ x \in Below(S, y) /\ x \notin Below(S, x)
    BY <1>4, BelowGrows
  <2>. QED
    BY <2>1, <2>2, SubsetIsSmaller
<1>5. ASSUME NEW x \in S, NEW y \in S, rank[x] = rank[y] PROVE x = y
  <2>1. ~ (x < y) /\ ~ (y < x)
    BY <1>2, <1>4, <1>5
  <2>. QED
    BY <2>1
<1>6. rank \in Injection(S, 1 .. k)
  <2>. HIDE DEF rank, k
  <2>. QED
    BY <1>3, <1>5, Fun_IsInj
<1>7. IsFiniteSet(1 .. k) /\ Cardinality(1 .. k) = k
  <2>1. 1 \in Int /\ k \in Int
    BY <1>0
  <2>2. IsFiniteSet(1 .. k) /\ Cardinality(1 .. k) = IF 1 > k THEN 0 ELSE k - 1 + 1
    <3>. HIDE DEF k
    <3>. QED
      BY <2>1, FS_Interval
  <2>. QED
    BY <1>0, <2>2
<1>8. rank \in Surjection(S, 1 .. k)
  <2>1. Cardinality(S) = Cardinality(1 .. k)
    BY <1>7
  <2>. HIDE DEF rank, k
  <2>. QED
    BY <1>6, <1>7, <2>1, FS_Injection
<1>9. \A i \in 1 .. k : \E x \in S : rank[x] = i
  <2>. HIDE DEF rank, k
  <2>. QED
    BY <1>8 DEF Surjection
<1>10. ASSUME NEW i \in 1 .. k
       PROVE  InOrderOfId(S)[i] \in S /\ rank[InOrderOfId(S)[i]] = i
  <2>1. InOrderOfId(S)[i] = CHOOSE n \in S : Cardinality(Below(S, n)) = i - 1
    BY DEF InOrderOfId, Below
  <2>2. \E n \in S : Cardinality(Below(S, n)) = i - 1
    BY <1>0, <1>2, <1>9
  <2>. QED
    BY <1>0, <1>2, <2>1, <2>2
<1>11. InOrderOfId(S) \in [1 .. k -> S]
  BY <1>10 DEF InOrderOfId
<1>. QED
  <2>. HIDE DEF rank
  <2>1. ASSUME NEW i \in 1 .. k, NEW j \in 1 .. k, InOrderOfId(S)[i] = InOrderOfId(S)[j]
        PROVE  i = j
    BY <1>10, <2>1
  <2>2. ASSUME NEW x \in S PROVE \E i \in 1 .. k : InOrderOfId(S)[i] = x
    <3>1. rank[x] \in 1 .. k
      BY <1>3
    <3>2. rank[InOrderOfId(S)[rank[x]]] = rank[x] /\ InOrderOfId(S)[rank[x]] \in S
      BY <1>10, <3>1
    <3>. QED
      BY <1>5, <3>1, <3>2
  <2>. QED
    BY <1>0, <1>11, <2>1, <2>2

(* The lists of a list of lists, one after the other.                      *)
Joins(f, seqs, n) == f = [i \in 1 .. n |-> IF i = 1 THEN seqs[i] ELSE f[i - 1] \o seqs[i]]

LEMMA JoinsExist ==
    ASSUME NEW seqs, NEW n \in Nat
    PROVE  \E f : Joins(f, seqs, n)
<1>. DEFINE bad == {k \in Nat : ~ \E f : Joins(f, seqs, k)}
<1>1. SUFFICES ASSUME bad # {} PROVE FALSE
  OBVIOUS
<1>2. PICK k \in bad : \A j \in bad : k <= j
  <2>1. bad \subseteq Nat
    OBVIOUS
  <2>. HIDE DEF bad
  <2>. QED
    BY <1>1, <2>1, LeastNatural
<1>3. k \in Nat /\ k # 0
  <2>1. Joins([i \in 1 .. 0 |-> 0], seqs, 0)
    BY DEF Joins
  <2>. QED
    BY <2>1
<1>4. PICK f : Joins(f, seqs, k - 1)
  BY <1>2, <1>3
<1>. DEFINE last == IF k = 1 THEN seqs[k] ELSE f[k - 1] \o seqs[k]
            g == [i \in 1 .. k |-> IF i = k THEN last ELSE f[i]]
<1>5. ASSUME NEW i \in 1 .. k
      PROVE  g[i] = IF i = 1 THEN seqs[i] ELSE g[i - 1] \o seqs[i]
  <2>1. CASE i = k
    BY <1>3, <2>1
  <2>2. CASE i # k
    <3>1. i \in 1 .. k - 1 /\ (i # 1 => i - 1 \in 1 .. k /\ i - 1 # k)
      BY <1>3, <2>2
    <3>2. f[i] = IF i = 1 THEN seqs[i] ELSE f[i - 1] \o seqs[i]
      BY <1>4, <3>1 DEF Joins
    <3>. QED
      BY <2>2, <3>1, <3>2
  <2>. QED
    BY <2>1, <2>2
<1>6. g = [i \in 1 .. k |-> IF i = 1 THEN seqs[i] ELSE g[i - 1] \o seqs[i]]
  <2>1. g = [i \in 1 .. k |-> g[i]]
    OBVIOUS
  <2>. HIDE DEF g
  <2>. QED
    BY <1>5, <2>1
<1>7. Joins(g, seqs, k)
  <2>. HIDE DEF g
  <2>. QED
    BY <1>6 DEF Joins
<1>. QED
  BY <1>2, <1>7

LEMMA JoinsType ==
    ASSUME NEW S, NEW seqs \in Seq(Seq(S)), NEW f, Joins(f, seqs, Len(seqs))
    PROVE  \A i \in 1 .. Len(seqs) : f[i] \in Seq(S)
<1>0. Len(seqs) \in Nat /\ \A i \in 1 .. Len(seqs) : seqs[i] \in Seq(S)
  OBVIOUS
<1>. DEFINE bad == {k \in 1 .. Len(seqs) : f[k] \notin Seq(S)}
<1>1. SUFFICES ASSUME bad # {} PROVE FALSE
  OBVIOUS
<1>2. PICK k \in bad : \A j \in bad : k <= j
  <2>1. bad \subseteq Nat
    BY <1>0
  <2>. HIDE DEF bad
  <2>. QED
    BY <1>1, <2>1, LeastNatural
<1>3. k \in 1 .. Len(seqs) /\ f[k] = IF k = 1 THEN seqs[k] ELSE f[k - 1] \o seqs[k]
  BY DEF Joins
<1>4. CASE k = 1
  BY <1>0, <1>3, <1>4
<1>5. CASE k # 1
  <2>1. k - 1 \in 1 .. Len(seqs) /\ ~ (k <= k - 1)
    BY <1>0, <1>3, <1>5
  <2>2. f[k - 1] \in Seq(S)
    BY <1>2, <2>1
  <2>3. f[k - 1] \o seqs[k] \in Seq(S)
    BY <1>0, <1>3, <2>2, ConcatProperties
  <2>. QED
    BY <1>3, <1>5, <2>3
<1>. QED
  BY <1>4, <1>5

LEMMA FlattenSeqType ==
    ASSUME NEW S, NEW seqs \in Seq(Seq(S))
    PROVE  FlattenSeq(seqs) \in Seq(S)
<1>0. Len(seqs) \in Nat
  OBVIOUS
<1>1. CASE Len(seqs) = 0
  BY <1>1 DEF FlattenSeq
<1>2. CASE Len(seqs) # 0
  <2>. DEFINE f == CHOOSE f : f = [i \in 1 .. Len(seqs) |->
                                      IF i = 1 THEN seqs[i] ELSE f[i - 1] \o seqs[i]]
  <2>1. FlattenSeq(seqs) = f[Len(seqs)]
    BY <1>2 DEF FlattenSeq
  <2>2. Joins(f, seqs, Len(seqs))
    <3>1. \E g : Joins(g, seqs, Len(seqs))
      BY <1>0, JoinsExist
    <3>. QED
      BY <3>1 DEF Joins
  <2>. HIDE DEF f
  <2>3. Len(seqs) \in 1 .. Len(seqs)
    BY <1>0, <1>2
  <2>. QED
    BY <2>1, <2>2, <2>3, JoinsType
<1>. QED
  BY <1>1, <1>2

-----------------------------------------------------------------------------
(* The threads and their mailboxes.                                        *)
LEMMA CoresAreNumbers ==
    /\ IsFiniteSet(Cores) /\ Cores \subseteq Nat /\ Cardinality(Cores) \in Nat
    /\ Garbage \notin Cores /\ Garbage \in Int
<1>1. IsFiniteSet(Cores) /\ Cores = 0 .. Cardinality(Cores) - 1
  BY CoresAssumption
<1>2. Cardinality(Cores) \in Nat
  BY <1>1, FS_CardinalityType
<1>3. ASSUME NEW c \in Cores PROVE c \in Nat
  BY <1>1, <1>2
<1>. QED
  BY <1>1, <1>2, <1>3 DEF Garbage

LEMMA Threads ==
    /\ N \in Nat /\ N >= 1
    /\ Agents \subseteq Holders /\ Idle \in Holders /\ Idle \notin Agents
    /\ Null \notin Holders /\ None \notin Agents /\ None \notin Cores
    /\ IsFiniteSet(Agents) /\ Cardinality(Agents) = N
    /\ IsFiniteSet(Holders) /\ Cardinality(Holders) = N + 1
    /\ Holders = 1 .. N + 1
<1>1. N \in Nat /\ N >= 1
  BY NAssumption
<1>2. Holders = 1 .. N + 1
  BY <1>1 DEF Holders, Agents, Idle
<1>3. IsFiniteSet(1 .. N) /\ Cardinality(1 .. N) = N
  BY <1>1, FS_Interval
<1>4. IsFiniteSet(1 .. N + 1) /\ Cardinality(1 .. N + 1) = N + 1
  BY <1>1, FS_Interval
<1>5. Idle \notin Agents /\ Null \notin Holders
  BY <1>1, <1>2 DEF Agents, Idle, Null
<1>6. None \notin Agents /\ None \notin Cores
  BY NoneAssumption DEF Holders
<1>7. Agents \subseteq Holders /\ Idle \in Holders
  BY DEF Holders
<1>. QED
  BY <1>1, <1>2, <1>3, <1>4, <1>5, <1>6, <1>7 DEF Agents

LEMMA DirectoryIsNoHolder ==
    /\ \A c \in Cores : Directory(c) \in Directories
    /\ \A d \in Directories : d \in Nat /\ d >= N + 2 /\ d \notin Holders /\ d # Null
<1>1. ASSUME NEW c \in Cores PROVE Directory(c) \in Nat /\ Directory(c) >= N + 2
  <2>1. c \in Nat /\ ClusterSize \in Nat /\ ClusterSize # 0
    BY CoresAreNumbers, OptionsAssumption
  <2>2. c \div ClusterSize \in Nat
    BY <2>1
  <2>. QED
    BY <2>2, Threads DEF Directory
<1>2. ASSUME NEW d \in Directories PROVE d \in Nat /\ d >= N + 2
  BY <1>1 DEF Directories
<1>3. \A d \in Directories : d \notin Holders /\ d # Null
  BY <1>2, Threads DEF Null
<1>. QED
  BY <1>2, <1>3 DEF Directories

LEMMA MailboxesAreFinite ==
    /\ IsFiniteSet(Mailboxes)
    /\ Holders \subseteq Mailboxes /\ Directories \subseteq Mailboxes
<1>. DEFINE f == [c \in Cores |-> Directory(c)]
<1>1. f \in Surjection(Cores, Directories)
  <2>1. f \in [Cores -> Directories]
    BY DEF Directories
  <2>2. \A d \in Directories : \E c \in Cores : f[c] = d
    BY DEF Directories
  <2>. HIDE DEF f
  <2>. QED
    BY <2>1, <2>2, Fun_IsSurj
<1>2. IsFiniteSet(Directories)
  <2>. HIDE DEF f
  <2>. QED
    BY <1>1, CoresAreNumbers, FS_Surjection
<1>. QED
  BY <1>2, Threads, FS_Union DEF Mailboxes

-----------------------------------------------------------------------------
(* Messages: what each kind consists of.                                   *)
LEMMA MessageParts ==
    ASSUME NEW m \in Messages
    PROVE  /\ m.kind \in {"INVADE", "END"} => m.from \in Holders \union {Null}
           /\ m.kind \in {"LOCATE", "REGISTER", "ACCEPT", "REJECT"} =>
                 m.from \in Holders /\ m.core \in Cores
           /\ m.kind = "INFO" => m.core \in Cores /\ m.agent \in Holders \union {Null}
           /\ m.kind = "REQUEST" => m.from \in Agents /\ m.region \in RegionsHere
           /\ m.kind = "FORWARD" =>
                 /\ m.from \in Holders /\ m.region \in RegionsHere
                 /\ m.invader \in Agents /\ m.neighbors \subseteq Holders
           /\ m.kind = "MAKE_OFFER" =>
                 m.from \in Holders /\ m.region \in RegionsHere /\ m.invader \in Agents
           /\ m.kind = "OFFER" => m.from \in Holders /\ m.cores \in Offers
BY DEF Messages

LEMMA PostsMade ==
    /\ \A a \in Holders, c \in Cores : Locate(a, c) \in Posts /\ Register(a, c) \in Posts
    /\ \A a, b \in Holders, offer \in Offers : Offer(a, b, offer) \in Posts
    /\ \A a, b \in Holders, c \in Cores, kind \in {"ACCEPT", "REJECT"} :
          Reply(a, b, kind, c) \in Posts
<1>1. \A c \in Cores : Directory(c) \in Mailboxes
  BY DirectoryIsNoHolder, MailboxesAreFinite
<1>2. Holders \subseteq Mailboxes
  BY MailboxesAreFinite
<1>3. ASSUME NEW a \in Holders, NEW c \in Cores, NEW kind \in {"LOCATE", "REGISTER", "ACCEPT", "REJECT"}
      PROVE  [kind |-> kind, from |-> a, core |-> c] \in Messages
  BY DEF Messages
<1>4. ASSUME NEW a \in Holders, NEW offer \in Offers
      PROVE  [kind |-> "OFFER", from |-> a, cores |-> offer] \in Messages
  BY DEF Messages
<1>5. \A a \in Holders, c \in Cores : Locate(a, c) \in Posts /\ Register(a, c) \in Posts
  BY <1>1, <1>3 DEF Locate, Register, Posts
<1>6. \A a, b \in Holders, offer \in Offers : Offer(a, b, offer) \in Posts
  BY <1>2, <1>4 DEF Offer, Posts
<1>7. \A a, b \in Holders, c \in Cores, kind \in {"ACCEPT", "REJECT"} :
          Reply(a, b, kind, c) \in Posts
  BY <1>2, <1>3 DEF Reply, Posts
<1>. QED
  BY <1>5, <1>6, <1>7

LEMMA OffersAreViews ==
    /\ <<>> \in Offers
    /\ \A a \in Holders, cores \in SUBSET Cores : OwnedBy(a, cores) \in Offers
    /\ \A v, w \in Offers : Concat(v, w) \in Offers
    /\ \A v \in Offers : DOMAIN v \subseteq Cores /\ \A c \in DOMAIN v : v[c] \in Holders
<1>1. ASSUME NEW v
      PROVE  v \in Offers <=> \E S \in SUBSET Cores : v \in [S -> Holders]
  BY DEF Offers
<1>2. <<>> \in Offers
  <2>1. <<>> \in [{} -> Holders]
    OBVIOUS
  <2>. QED
    BY <1>1, <2>1
<1>3. ASSUME NEW a \in Holders, NEW cores \in SUBSET Cores
      PROVE  OwnedBy(a, cores) \in Offers
  <2>1. OwnedBy(a, cores) \in [cores -> Holders]
    BY DEF OwnedBy
  <2>. QED
    BY <1>1, <2>1
<1>4. ASSUME NEW v \in Offers
      PROVE  DOMAIN v \subseteq Cores /\ \A c \in DOMAIN v : v[c] \in Holders
  BY <1>1
<1>5. ASSUME NEW v \in Offers, NEW w \in Offers
      PROVE  Concat(v, w) \in Offers
  <2>1. Concat(v, w) \in [DOMAIN v \union DOMAIN w -> Holders]
    BY <1>4 DEF Concat
  <2>2. DOMAIN v \union DOMAIN w \in SUBSET Cores
    BY <1>4
  <2>. QED
    BY <1>1, <2>1, <2>2
<1>. QED
  BY <1>2, <1>3, <1>4, <1>5

-----------------------------------------------------------------------------
(* The regions an invader asks for.                                        *)
LEMMA SubsetOfCores ==
    ASSUME NEW S, S \subseteq Cores
    PROVE  IsFiniteSet(S) /\ S \subseteq Int /\ Cardinality(S) \in Nat
               /\ Cardinality(S) <= Cardinality(Cores)
<1>1. IsFiniteSet(Cores) /\ Cores \subseteq Int
  BY CoresAreNumbers
<1>2. IsFiniteSet(S) /\ Cardinality(S) \in Nat /\ Cardinality(S) <= Cardinality(Cores)
  BY <1>1, SubsetIsSmaller
<1>. QED
  BY <1>1, <1>2

LEMMA LowestIsThere ==
    ASSUME NEW S, IsFiniteSet(S), S \subseteq Int, S # {}, NEW n \in Nat, n > 0
    PROVE  Lowest(n, S) \subseteq S /\ Lowest(n, S) # {}
<1>1. Min(S) \in S /\ \A y \in S : Min(S) <= y
  BY LeastElement
<1>2. {d \in S : d < Min(S)} = {}
  <2>1. ASSUME NEW d \in S PROVE ~ (d < Min(S))
    <3>1. d \in Int /\ Min(S) \in Int /\ Min(S) <= d
      BY <1>1
    <3>. QED
      BY <3>1
  <2>. QED
    BY <2>1
<1>3. Cardinality({d \in S : d < Min(S)}) = 0
  BY <1>2, FS_EmptySet
<1>. QED
  BY <1>1, <1>3 DEF Lowest

LEMMA PartType ==
    ASSUME NEW S, S \subseteq Cores, NEW n \in Nat, n > 0
    PROVE  /\ Part(S, n) \in RegionsHere
           /\ \/ Part(S, n).center \in Cores
              \/ Part(S, n).center = Garbage /\ Part(S, n).cores = {}
<1>1. IsFiniteSet(S) /\ S \subseteq Int /\ Cardinality(S) \in Nat
  BY SubsetOfCores
<1>0. Cores \subseteq Int /\ Garbage \in Int
  BY CoresAreNumbers
<1>2. CASE Cardinality(S) < n
  <2>. DEFINE center == IF S = {} THEN Garbage ELSE Min(S)
  <2>1. center \in Cores \/ (center = Garbage /\ S = {})
    BY <1>1, LeastElement
  <2>2. Part(S, n) = [center |-> center, size |-> Cardinality(S) - 1, cores |-> S]
    BY <1>2 DEF Part
  <2>3. Cardinality(S) - 1 \in Int
    BY <1>1
  <2>. HIDE DEF center
  <2>4. center \in Int
    BY <1>0, <2>1
  <2>. QED
    BY <2>1, <2>2, <2>3, <2>4 DEF RegionsHere
<1>3. CASE ~ (Cardinality(S) < n)
  <2>1. S # {}
    BY <1>1, <1>3, FS_EmptySet
  <2>2. Lowest(n, S) \subseteq S /\ Lowest(n, S) # {}
    BY <1>1, <2>1, LowestIsThere
  <2>3. IsFiniteSet(Lowest(n, S)) /\ Lowest(n, S) \subseteq Int
    BY <1>1, <2>2, SubsetIsSmaller
  <2>4. Max(Lowest(n, S)) \in Cores
    BY <2>2, <2>3, GreatestElement
  <2>5. Part(S, n) = [center |-> Max(Lowest(n, S)), size |-> n, cores |-> S]
    BY <1>3 DEF Part
  <2>6. Max(Lowest(n, S)) \in Int
    BY <1>0, <2>4, Zenon
  <2>7. n \in Int
    OBVIOUS
  <2>. QED
    BY <2>4, <2>5, <2>6, <2>7 DEF RegionsHere
<1>. QED
  BY <1>2, <1>3

LEMMA RegionAroundType ==
    ASSUME NEW c \in Cores, NEW n \in Nat
    PROVE  RegionAround(c, n) \in RegionsHere /\ RegionAround(c, n).center \in Cores
               /\ RegionAround(c, n).size = n
BY CoresAreNumbers DEF RegionAround, RegionsHere

LEMMA PiecesOfType ==
    ASSUME NEW core \in Cores, NEW center \in Cores, options \in Options
    PROVE  PiecesOf(core, center) \in Seq(Fitting)
<1>. DEFINE size == options.region_size
<1>0. size \in Nat /\ SizeThresh \in Nat /\ SizeThresh > 0 /\ size > 0
  BY OptionsAssumption
<1>. HIDE DEF size
<1>. DEFINE region == RegionAround(center, size)
            parts == Split(region, SizeThresh)
<1>1. region \in RegionsHere /\ region.center \in Cores /\ region.size = size
  BY <1>0, RegionAroundType
<1>a. region.cores # {}
  BY <1>0, CoresAreNumbers DEF RegionAround, Distance
<1>2. CeilDiv(region.size, SizeThresh) \in Nat
  BY <1>0, <1>1 DEF CeilDiv
<1>3. /\ DOMAIN parts = 1 .. CeilDiv(region.size, SizeThresh)
      /\ \A i \in DOMAIN parts : parts[i] \in RegionsHere
                                    /\ \/ parts[i].center \in Cores
                                       \/ parts[i].center = Garbage /\ parts[i].cores = {}
  <2>1. DOMAIN parts = 1 .. CeilDiv(region.size, SizeThresh)
    BY DEF Split
  <2>2. ASSUME NEW i \in DOMAIN parts
        PROVE  /\ parts[i] \in RegionsHere
               /\ \/ parts[i].center \in Cores
                  \/ parts[i].center = Garbage /\ parts[i].cores = {}
    <3>. DEFINE S == Lowest(2 * SizeThresh * i, region.cores)
                        \ Lowest(2 * SizeThresh * (i - 1), region.cores)
    <3>1. parts[i] = Part(S, SizeThresh)
      BY <2>1, <2>2 DEF Split
    <3>2. S \subseteq Cores
      BY <1>1 DEF Lowest, RegionsHere
    <3>. HIDE DEF S
    <3>. QED
      BY <1>0, <3>1, <3>2, PartType
  <2>. QED
    BY <2>1, <2>2
<1>4. CASE Distance(center, core) > LocalityThresh
  <2>1. PiecesOf(core, center) = <<[region |-> region, located |-> TRUE]>>
    BY <1>4 DEF PiecesOf, size
  <2>. HIDE DEF region
  <2>. QED
    BY <1>1, <1>a, <2>1 DEF Fitting, Centered, Centers, Pieces
<1>5. CASE ~ (Distance(center, core) > LocalityThresh) /\ region.size > SizeThresh
  <2>1. PiecesOf(core, center)
           = [i \in DOMAIN parts |-> [region |-> parts[i], located |-> TRUE]]
    BY <1>5 DEF PiecesOf, size
  <2>. HIDE DEF region, parts
  <2>2. \A i \in DOMAIN parts : [region |-> parts[i], located |-> TRUE] \in Fitting
    BY <1>1, <1>3, <1>5 DEF Fitting, Centered, Centers, Pieces, size
  <2>. QED
    BY <1>2, <1>3, <2>1, <2>2
<1>6. CASE ~ (Distance(center, core) > LocalityThresh) /\ ~ (region.size > SizeThresh)
  <2>1. PiecesOf(core, center) = <<[region |-> region, located |-> FALSE]>>
    BY <1>6 DEF PiecesOf, size
  <2>. HIDE DEF region
  <2>. QED
    BY <1>1, <1>a, <2>1 DEF Fitting, Centered, Centers, Pieces
<1>. QED
  BY <1>4, <1>5, <1>6

(* What is sent to a directory at the start.                               *)
LEMMA RegistrationsType ==
    ASSUME NEW owner \in [Cores -> Agents \union {Null}], NEW d
    PROVE  /\ Registrations(owner, d) \in Seq(Messages)
           /\ \A i \in DOMAIN Registrations(owner, d) :
                 \E c \in Cores :
                    /\ Directory(c) = d
                    /\ Registrations(owner, d)[i]
                          = Register(IF owner[c] = Null THEN Idle ELSE owner[c], c).msg
           /\ \A c \in Cores :
                 Directory(c) = d =>
                    \E i \in DOMAIN Registrations(owner, d) :
                       Registrations(owner, d)[i]
                          = Register(IF owner[c] = Null THEN Idle ELSE owner[c], c).msg
           /\ \A i, j \in DOMAIN Registrations(owner, d) :
                 Registrations(owner, d)[i] = Registrations(owner, d)[j] => i = j
<1>. DEFINE here == {c \in Cores : Directory(c) = d}
            f == [c \in here |-> Register(IF owner[c] = Null THEN Idle ELSE owner[c], c).msg]
            S == {f[c] : c \in here}
<1>1. IsFiniteSet(here)
  <2>1. here \subseteq Cores /\ IsFiniteSet(Cores)
    BY CoresAreNumbers
  <2>. HIDE DEF here
  <2>. QED
    BY <2>1, SubsetIsSmaller
<1>2. f \in Surjection(here, S)
  <2>1. f \in [here -> S]
    OBVIOUS
  <2>2. \A t \in S : \E c \in here : f[c] = t
    OBVIOUS
  <2>. HIDE DEF f, S, here
  <2>. QED
    BY <2>1, <2>2, Fun_IsSurj
<1>3. IsFiniteSet(S)
  <2>. HIDE DEF f, S, here
  <2>. QED
    BY <1>1, <1>2, FS_Surjection
<1>4. Cardinality(S) \in Nat /\ ExistsBijection(1 .. Cardinality(S), S)
  <2>. HIDE DEF S
  <2>. QED
    BY <1>3, FS_CardinalityType
<1>5. Registrations(owner, d) = SetToSeq(S)
  BY DEF Registrations
<1>6. SetToSeq(S) \in [1 .. Cardinality(S) -> S] /\ IsInjective(SetToSeq(S))
  <2>1. \E g \in [1 .. Cardinality(S) -> S] : IsInjective(g)
    <3>. HIDE DEF S
    <3>1. PICK g : g \in Bijection(1 .. Cardinality(S), S)
      BY <1>4 DEF ExistsBijection
    <3>2. g \in [1 .. Cardinality(S) -> S]
      BY <3>1, Fun_BijectionProperties
    <3>3. IsInjective(g)
      BY <3>1, <3>2 DEF Bijection, Injection, IsInjective
    <3>. QED
      BY <3>2, <3>3
  <2>. HIDE DEF S
  <2>. QED
    BY <2>1 DEF SetToSeq
<1>7. ASSUME NEW m \in S
      PROVE  /\ m \in Messages
             /\ \E c \in Cores :
                   /\ Directory(c) = d
                   /\ m = Register(IF owner[c] = Null THEN Idle ELSE owner[c], c).msg
  <2>1. PICK c \in here : m = f[c]
    OBVIOUS
  <2>2. c \in Cores /\ Directory(c) = d
        /\ m = Register(IF owner[c] = Null THEN Idle ELSE owner[c], c).msg
    BY <2>1
  <2>3. (IF owner[c] = Null THEN Idle ELSE owner[c]) \in Holders
    BY <2>2, Threads
  <2>4. Register(IF owner[c] = Null THEN Idle ELSE owner[c], c) \in Posts
    BY <2>2, <2>3, PostsMade
  <2>. QED
    BY <2>2, <2>4 DEF Posts
<1>8. \A c \in here : f[c] \in S
  OBVIOUS
<1>. HIDE DEF S
<1>9. \A m \in S : \E i \in 1 .. Cardinality(S) : SetToSeq(S)[i] = m
  <2>1. SetToSeq(S) \in Injection(1 .. Cardinality(S), S)
    BY <1>4, <1>6 DEF Injection, IsInjective
  <2>2. Cardinality(1 .. Cardinality(S)) = Cardinality(S)
    BY <1>4, FS_Interval
  <2>3. SetToSeq(S) \in Surjection(1 .. Cardinality(S), S)
    BY <1>3, <2>1, <2>2, FS_Injection
  <2>. QED
    BY <2>3 DEF Surjection
<1>10. ASSUME NEW c \in Cores, Directory(c) = d
       PROVE  \E i \in 1 .. Cardinality(S) :
                 SetToSeq(S)[i] = Register(IF owner[c] = Null THEN Idle ELSE owner[c], c).msg
  <2>1. c \in here /\ f[c] = Register(IF owner[c] = Null THEN Idle ELSE owner[c], c).msg
    BY <1>10
  <2>. HIDE DEF f, here
  <2>2. f[c] \in S
    BY <1>8, <2>1
  <2>. QED
    BY <1>9, <2>1, <2>2
<1>11. \A i, j \in 1 .. Cardinality(S) : SetToSeq(S)[i] = SetToSeq(S)[j] => i = j
  BY <1>6 DEF IsInjective
<1>. HIDE DEF f, here
<1>. QED
  BY <1>4, <1>5, <1>6, <1>7, <1>10, <1>11

-----------------------------------------------------------------------------
(* What a step does to the messages under way.                             *)
LEMMA MailLists ==
    ASSUME MailTypes
    PROVE  Lists(queue, Mailboxes, Messages) /\ Lists(out, Holders, Posts)
BY MailboxesAreFinite, Threads DEF MailTypes, Lists

LEMMA UnderWayType ==
    ASSUME MailTypes, NEW P
    PROVE  UnderWay(P) \in Nat /\ Count(queue, P) \in Nat /\ Count(out, Unposted(P)) \in Nat
<1>1. Count(queue, P) \in Nat
  BY MailLists, PlacesAreFinite
<1>2. Count(out, Unposted(P)) \in Nat
  BY MailLists, PlacesAreFinite
<1>. QED
  BY <1>1, <1>2 DEF UnderWay

LEMMA UnderWayTypeNext ==
    ASSUME MailTypes', NEW P
    PROVE  UnderWay(P)' \in Nat
<1>1. Lists(queue', Mailboxes, Messages) /\ Lists(out', Holders, Posts)
  BY MailboxesAreFinite, Threads DEF MailTypes, Lists
<1>2. Count(queue', P) \in Nat
  BY <1>1, PlacesAreFinite
<1>3. Count(out', Unposted(P)) \in Nat
  BY <1>1, PlacesAreFinite
<1>. QED
  BY <1>2, <1>3 DEF UnderWay

LEMMA UnitPost ==
    ASSUME NEW a \in Holders, NEW s \in Posts, NEW P
    PROVE  /\ Unit(<<a, s>>, Unposted(P)) = Unit(<<s.to, s.msg>>, P)
           /\ Unit(<<s.to, s.msg>>, P) \in {0, 1}
BY DEF Unit, Unposted

LEMMA UnitType == \A x, P : Unit(x, P) \in {0, 1}
BY DEF Unit

LEMMA WithCounts ==
    ASSUME NEW q, Lists(q, Mailboxes, Messages), NEW s \in Posts, NEW P
    PROVE  /\ Lists(With(q, s), Mailboxes, Messages)
           /\ Count(With(q, s), P) = Count(q, P) + Unit(<<s.to, s.msg>>, P)
<1>1. s.to \in Mailboxes /\ s.msg \in Messages
  BY DEF Posts
<1>2. ChangedAt(With(q, s), q, s.to, Append(q[s.to], s.msg))
  BY DEF ChangedAt, With
<1>. QED
  BY <1>1, <1>2, CountAppend

LEMMA TakenCounts ==
    ASSUME MailTypes, NEW a \in Holders, CanTake(a), NEW P
    PROVE  /\ Lists(Taken(a), Mailboxes, Messages)
           /\ Count(Taken(a), P) = Count(queue, P) - Unit(<<a, Message(a)>>, P)
<1>1. a \in Mailboxes /\ Acceptable(queue[a], Accepts(pc[a])) # {}
  BY MailboxesAreFinite DEF CanTake
<1>2. ChangedAt(Taken(a), queue, a, Unlinked(queue[a], Accepts(pc[a])))
  BY DEF ChangedAt, Taken
<1>3. /\ Lists(Taken(a), Mailboxes, Messages)
      /\ Count(Taken(a), P)
            = Count(queue, P) - Unit(<<a, Found(queue[a], Accepts(pc[a]))>>, P)
  BY <1>1, <1>2, MailLists, CountUnlinked
<1>. QED
  BY <1>3 DEF Message

LEMMA MessageType ==
    ASSUME MailTypes, NEW a \in Holders, CanTake(a)
    PROVE  Message(a) \in Messages /\ Message(a).kind \in Accepts(pc[a])
<1>1. queue[a] \in Seq(Messages)
  BY MailboxesAreFinite DEF MailTypes
<1>2. Acceptable(queue[a], Accepts(pc[a])) # {}
  BY DEF CanTake
<1>. QED
  BY <1>1, <1>2, FoundType DEF Message

LEMMA FillCounts ==
    ASSUME MailTypes, NEW a \in Holders, out[a] = <<>>, NEW list \in Seq(Posts), NEW P,
           NEW p, ChangedAt(p, out, a, list)
    PROVE  /\ Lists(p, Holders, Posts)
           /\ Count(p, Unposted(P)) = Count(out, Unposted(P))
                 + Cardinality({i \in DOMAIN list : <<list[i].to, list[i].msg>> \in P})
<1>1. /\ Lists(p, Holders, Posts)
      /\ Count(p, Unposted(P)) = Count(out, Unposted(P))
            + HowMany(list, a, Unposted(P))
  <2>1. Lists(out, Holders, Posts)
    BY MailLists
  <2>2. Filled(p, out, a, list, Posts)
    BY DEF Filled
  <2>. QED
    BY <2>1, <2>2, CountFill
<1>2. ASSUME NEW i \in DOMAIN list
      PROVE  <<a, list[i]>> \in Unposted(P) <=> <<list[i].to, list[i].msg>> \in P
  <2>1. list[i] \in Posts
    OBVIOUS
  <2>. QED
    BY <2>1 DEF Unposted
<1>3. {i \in DOMAIN list : <<a, list[i]>> \in Unposted(P)}
         = {i \in DOMAIN list : <<list[i].to, list[i].msg>> \in P}
  BY <1>2
<1>. QED
  BY <1>1, <1>3 DEF HowMany

(* The kinds of steps: a message is taken, sent, answered by another, ...  *)
LEMMA MailAfter ==
    ASSUME Lists(queue, Mailboxes, Messages)', Lists(out, Holders, Posts)'
    PROVE  MailTypes'
BY DEF Lists, MailTypes

LEMMA ReceiveStep ==
    ASSUME MailTypes, NEW a \in Holders, CanTake(a), queue' = Taken(a), UNCHANGED out, NEW P
    PROVE  MailTypes' /\ UnderWay(P)' = UnderWay(P) - Unit(<<a, Message(a)>>, P)
<1>1. Lists(Taken(a), Mailboxes, Messages)
      /\ Count(Taken(a), P) = Count(queue, P) - Unit(<<a, Message(a)>>, P)
  BY TakenCounts
<1>2. MailTypes'
  BY <1>1, MailLists, MailAfter
<1>3. UnderWay(P)' = Count(Taken(a), P) + Count(out, Unposted(P))
  BY DEF UnderWay
<1>. QED
  BY <1>1, <1>2, <1>3, UnderWayType, UnitType DEF UnderWay

LEMMA SendStep ==
    ASSUME MailTypes, NEW s \in Posts, queue' = With(queue, s), UNCHANGED out, NEW P
    PROVE  MailTypes' /\ UnderWay(P)' = UnderWay(P) + Unit(<<s.to, s.msg>>, P)
<1>1. Lists(With(queue, s), Mailboxes, Messages)
      /\ Count(With(queue, s), P) = Count(queue, P) + Unit(<<s.to, s.msg>>, P)
  BY MailLists, WithCounts
<1>2. MailTypes'
  BY <1>1, MailLists, MailAfter
<1>3. UnderWay(P)' = Count(With(queue, s), P) + Count(out, Unposted(P))
  BY DEF UnderWay
<1>. QED
  BY <1>1, <1>2, <1>3, UnderWayType, UnitType DEF UnderWay

LEMMA AnswerStep ==
    ASSUME MailTypes, NEW a \in Holders, CanTake(a), NEW s \in Posts,
           queue' = With(Taken(a), s), UNCHANGED out, NEW P
    PROVE  /\ MailTypes'
           /\ UnderWay(P)' = UnderWay(P) - Unit(<<a, Message(a)>>, P) + Unit(<<s.to, s.msg>>, P)
<1>0. Lists(Taken(a), Mailboxes, Messages)
      /\ Count(Taken(a), P) = Count(queue, P) - Unit(<<a, Message(a)>>, P)
  BY TakenCounts
<1>1. Lists(With(Taken(a), s), Mailboxes, Messages)
      /\ Count(With(Taken(a), s), P) = Count(Taken(a), P) + Unit(<<s.to, s.msg>>, P)
  BY <1>0, WithCounts
<1>2. MailTypes'
  BY <1>1, MailLists, MailAfter
<1>3. UnderWay(P)' = Count(With(Taken(a), s), P) + Count(out, Unposted(P))
  BY DEF UnderWay
<1>. QED
  BY <1>0, <1>1, <1>2, <1>3, UnderWayType, UnitType DEF UnderWay

Matching(list, P) == Cardinality({i \in DOMAIN list : <<list[i].to, list[i].msg>> \in P})

LEMMA MatchingType ==
    ASSUME NEW list \in Seq(Posts), NEW P
    PROVE  Matching(list, P) \in Nat
<1>1. IsFiniteSet(DOMAIN list)
  <2>1. DOMAIN list = 1 .. Len(list) /\ 1 \in Int /\ Len(list) \in Int
    OBVIOUS
  <2>. QED
    BY <2>1, FS_Interval
<1>. QED
  BY <1>1, FS_Subset, FS_CardinalityType DEF Matching

LEMMA FillStep ==
    ASSUME MailTypes, NEW a \in Holders, out[a] = <<>>, NEW list \in Seq(Posts),
           Sends(a, list), UNCHANGED queue, NEW P
    PROVE  MailTypes' /\ UnderWay(P)' = UnderWay(P) + Matching(list, P)
<1>0. ChangedAt(out', out, a, list)
  BY DEF Sends, ChangedAt
<1>1. Lists(out', Holders, Posts)
      /\ Count(out', Unposted(P)) = Count(out, Unposted(P)) + Matching(list, P)
  BY <1>0, FillCounts DEF Matching
<1>2. MailTypes'
  BY <1>1, MailLists, MailAfter
<1>3. UnderWay(P)' = Count(queue, P) + Count(out', Unposted(P))
  BY DEF UnderWay
<1>. QED
  BY <1>1, <1>2, <1>3, UnderWayType, MatchingType DEF UnderWay

LEMMA ReceiveAndFillStep ==
    ASSUME MailTypes, NEW a \in Holders, CanTake(a), NEW list \in Seq(Posts),
           Sends(a, list), queue' = Taken(a), NEW P
    PROVE  /\ MailTypes'
           /\ UnderWay(P)' = UnderWay(P) - Unit(<<a, Message(a)>>, P) + Matching(list, P)
<1>0. ChangedAt(out', out, a, list) /\ out[a] = <<>>
  BY DEF Sends, ChangedAt, CanTake
<1>1. Lists(out', Holders, Posts)
      /\ Count(out', Unposted(P)) = Count(out, Unposted(P)) + Matching(list, P)
  BY <1>0, FillCounts DEF Matching
<1>2. Lists(Taken(a), Mailboxes, Messages)
      /\ Count(Taken(a), P) = Count(queue, P) - Unit(<<a, Message(a)>>, P)
  BY TakenCounts
<1>3. MailTypes'
  BY <1>1, <1>2, MailAfter
<1>4. UnderWay(P)' = Count(Taken(a), P) + Count(out', Unposted(P))
  BY DEF UnderWay
<1>. QED
  BY <1>1, <1>2, <1>3, <1>4, UnderWayType, UnitType, MatchingType DEF UnderWay

LEMMA SendNextStep ==
    ASSUME MailTypes, NEW a \in Holders, SendNext(a), NEW P
    PROVE  MailTypes' /\ UnderWay(P)' = UnderWay(P)
<1>. DEFINE s == Head(out[a])
<1>0. out[a] # <<>> /\ queue' = With(queue, s) /\ out' = [out EXCEPT ![a] = Tail(@)]
  BY DEF SendNext
<1>1. s \in Posts /\ ChangedAt(out', out, a, Tail(out[a]))
  <2>1. out[a] \in Seq(Posts)
    BY DEF MailTypes
  <2>. QED
    BY <1>0, <2>1 DEF ChangedAt
<1>. HIDE DEF s
<1>2. /\ Lists(out', Holders, Posts)
      /\ Count(out', Unposted(P)) = Count(out, Unposted(P)) - Unit(<<a, Head(out[a])>>, Unposted(P))
  BY <1>0, <1>1, MailLists, CountTail
<1>3. Lists(With(queue, s), Mailboxes, Messages)
      /\ Count(With(queue, s), P) = Count(queue, P) + Unit(<<s.to, s.msg>>, P)
  BY <1>1, MailLists, WithCounts
<1>4. Unit(<<a, Head(out[a])>>, Unposted(P)) = Unit(<<s.to, s.msg>>, P)
  BY <1>1, UnitPost DEF s
<1>5. MailTypes'
  BY <1>0, <1>2, <1>3, MailAfter
<1>6. UnderWay(P)' = Count(With(queue, s), P) + Count(out', Unposted(P))
  BY <1>0 DEF UnderWay
<1>. QED
  BY <1>2, <1>3, <1>4, <1>5, <1>6, UnderWayType, UnitType DEF UnderWay

LEMMA NoMailStep ==
    ASSUME MailTypes, UNCHANGED <<queue, out>>, NEW P
    PROVE  MailTypes' /\ UnderWay(P)' = UnderWay(P)
BY DEF MailTypes, UnderWay

-----------------------------------------------------------------------------
(* What an agent sends in several messages.                                *)
LEMMA NoneMatches ==
    ASSUME NEW list, NEW P, \A i \in DOMAIN list : <<list[i].to, list[i].msg>> \notin P
    PROVE  Matching(list, P) = 0
<1>1. {i \in DOMAIN list : <<list[i].to, list[i].msg>> \in P} = {}
  OBVIOUS
<1>. QED
  BY <1>1, FS_EmptySet DEF Matching

LEMMA OneMatches ==
    ASSUME NEW list, NEW P, NEW k \in DOMAIN list,
           \A i \in DOMAIN list : <<list[i].to, list[i].msg>> \in P <=> i = k
    PROVE  Matching(list, P) = 1
<1>1. {i \in DOMAIN list : <<list[i].to, list[i].msg>> \in P} = {k}
  OBVIOUS
<1>. QED
  BY <1>1, FS_Singleton DEF Matching

LEMMA ToAllType ==
    ASSUME NEW a \in Holders, NEW kind \in {"INVADE", "END"}
    PROVE  /\ ToAll(kind, a) \in Seq(Posts)
           /\ DOMAIN ToAll(kind, a) = Agents
           /\ \A b \in Agents : ToAll(kind, a)[b].to = b
                                   /\ ToAll(kind, a)[b].msg = [kind |-> kind, from |-> a]
<1>1. [kind |-> kind, from |-> a] \in Messages
  BY DEF Messages
<1>2. \A b \in Agents : b \in Mailboxes
  BY Threads, MailboxesAreFinite
<1>3. ToAll(kind, a) \in [1 .. N -> Posts]
  BY <1>1, <1>2 DEF ToAll, Posts, Agents
<1>. QED
  BY <1>3, Threads DEF ToAll, Agents

(* The question for offers to some neighbors.                              *)
Questions(a, neighbors, region, invader) ==
    [i \in 1 .. Cardinality(neighbors) |->
        [to |-> InOrderOfId(neighbors)[i],
         msg |-> [kind |-> "MAKE_OFFER", from |-> a, region |-> region, invader |-> invader]]]

LEMMA QuestionsType ==
    ASSUME NEW a \in Holders, NEW neighbors, neighbors \subseteq Holders,
           NEW region \in RegionsHere, NEW invader \in Agents
    PROVE  /\ Questions(a, neighbors, region, invader) \in Seq(Posts)
           /\ Cardinality(neighbors) \in 0 .. N + 1
           /\ DOMAIN Questions(a, neighbors, region, invader) = 1 .. Cardinality(neighbors)
           /\ \A i \in 1 .. Cardinality(neighbors) :
                 LET s == Questions(a, neighbors, region, invader)[i]
                 IN  /\ s.to = InOrderOfId(neighbors)[i] /\ s.to \in neighbors
                     /\ s.msg.kind = "MAKE_OFFER" /\ s.msg.from = a
                     /\ s.msg.region = region /\ s.msg.invader = invader
<1>1. IsFiniteSet(neighbors) /\ neighbors \subseteq Int /\ Cardinality(neighbors) \in 0 .. N + 1
  <2>1. IsFiniteSet(Holders) /\ Cardinality(Holders) = N + 1 /\ N \in Nat
    BY Threads
  <2>2. IsFiniteSet(neighbors) /\ Cardinality(neighbors) \in Nat
        /\ Cardinality(neighbors) <= Cardinality(Holders)
    BY <2>1, SubsetIsSmaller
  <2>3. Holders \subseteq Int
    BY Threads
  <2>. QED
    BY <2>1, <2>2, <2>3
<1>2. InOrderOfId(neighbors) \in [1 .. Cardinality(neighbors) -> neighbors]
  BY <1>1, InOrderOfIdNamesAll
<1>3. [kind |-> "MAKE_OFFER", from |-> a, region |-> region, invader |-> invader] \in Messages
  BY DEF Messages
<1>4. ASSUME NEW i \in 1 .. Cardinality(neighbors)
      PROVE  InOrderOfId(neighbors)[i] \in neighbors /\ InOrderOfId(neighbors)[i] \in Mailboxes
  BY <1>2, MailboxesAreFinite
<1>5. Questions(a, neighbors, region, invader) \in [1 .. Cardinality(neighbors) -> Posts]
  BY <1>3, <1>4 DEF Questions, Posts
<1>6. Questions(a, neighbors, region, invader) \in Seq(Posts)
  BY <1>1, <1>5
<1>. QED
  BY <1>1, <1>4, <1>6 DEF Questions

LEMMA AskIsQuestions ==
    ASSUME NEW a, NEW neighbors, NEW region, NEW invader
    PROVE  Ask(a, neighbors, region, invader)
               <=> Sends(a, Questions(a, neighbors, region, invader))
BY DEF Ask, Questions

(* The answers to all offers.                                              *)
LEMMA Halves ==
    ASSUME NEW c \in Nat
    PROVE  /\ (2 * c) % 2 = 0 /\ (2 * c) \div 2 = c /\ 2 * c \in Nat
           /\ (2 * c + 1) % 2 = 1 /\ (2 * c + 1) \div 2 = c /\ 2 * c + 1 \in Nat
OBVIOUS

AnswerNumbers(a, taken) == {2 * c : c \in Offered(a)} \union {2 * c + 1 : c \in taken}
Answered(a, taken, c) ==
    Reply(a, plan[a].offers[c], IF c \in taken THEN "ACCEPT" ELSE "REJECT", c)

LEMMA AnswersAre ==
    ASSUME NEW a \in Holders, plan[a].offers \in Offers, NEW taken, taken \subseteq Offered(a)
    PROVE  /\ Answers(a, taken) \in Seq(Posts)
           /\ DOMAIN Answers(a, taken) = 1 .. Cardinality(AnswerNumbers(a, taken))
           /\ \A c \in Offered(a) : \E i \in DOMAIN Answers(a, taken) :
                 InOrderOfId(AnswerNumbers(a, taken))[i] = 2 * c
           /\ \A c \in taken : \E i \in DOMAIN Answers(a, taken) :
                 InOrderOfId(AnswerNumbers(a, taken))[i] = 2 * c + 1
           /\ \A i, j \in DOMAIN Answers(a, taken) :
                 InOrderOfId(AnswerNumbers(a, taken))[i] = InOrderOfId(AnswerNumbers(a, taken))[j]
                    => i = j
           /\ \A i \in DOMAIN Answers(a, taken) :
                 \/ \E c \in Offered(a) :
                       /\ InOrderOfId(AnswerNumbers(a, taken))[i] = 2 * c
                       /\ Answers(a, taken)[i] = Answered(a, taken, c)
                 \/ \E c \in taken :
                       /\ InOrderOfId(AnswerNumbers(a, taken))[i] = 2 * c + 1
                       /\ Answers(a, taken)[i] = Register(a, c)
<1>. DEFINE S == AnswerNumbers(a, taken)
            evens == {2 * c : c \in Offered(a)}
            odds == {2 * c + 1 : c \in taken}
            send(n) == IF n % 2 = 1 THEN Register(a, n \div 2)
                   ELSE Reply(a, plan[a].offers[n \div 2],
                              IF n \div 2 \in taken THEN "ACCEPT" ELSE "REJECT", n \div 2)
<1>1. /\ Offered(a) \subseteq Cores /\ taken \subseteq Cores
      /\ \A c \in Offered(a) : plan[a].offers[c] \in Holders /\ c \in Nat
      /\ \A c \in taken : c \in Nat
  BY OffersAreViews, CoresAreNumbers DEF Offered
<1>2. IsFiniteSet(S) /\ S \subseteq Int
  <2>1. S \subseteq 0 .. 2 * Cardinality(Cores)
    <3>1. \A c \in Cores : c \in Nat /\ c <= Cardinality(Cores) - 1
      BY CoresAreNumbers, CoresAssumption
    <3>2. Cardinality(Cores) \in Nat
      BY CoresAreNumbers
    <3>3. ASSUME NEW c \in Offered(a) PROVE 2 * c \in 0 .. 2 * Cardinality(Cores)
      <4>1. c \in Nat /\ c <= Cardinality(Cores) - 1
        BY <1>1, <3>1
      <4>. QED
        BY <3>2, <4>1
    <3>4. ASSUME NEW c \in taken PROVE 2 * c + 1 \in 0 .. 2 * Cardinality(Cores)
      <4>1. c \in Nat /\ c <= Cardinality(Cores) - 1
        BY <1>1, <3>1
      <4>. QED
        BY <3>2, <4>1
    <3>. QED
      BY <3>3, <3>4 DEF AnswerNumbers
  <2>2. IsFiniteSet(0 .. 2 * Cardinality(Cores)) /\ 0 .. 2 * Cardinality(Cores) \subseteq Int
    <3>1. 0 \in Int /\ 2 * Cardinality(Cores) \in Int
      BY CoresAreNumbers
    <3>. QED
      BY <3>1, FS_Interval
  <2>. HIDE DEF S
  <2>. QED
    BY <2>1, <2>2, FS_Subset
<1>3. /\ Cardinality(S) \in Nat
      /\ InOrderOfId(S) \in [1 .. Cardinality(S) -> S]
      /\ \A i, j \in 1 .. Cardinality(S) : InOrderOfId(S)[i] = InOrderOfId(S)[j] => i = j
      /\ \A x \in S : \E i \in 1 .. Cardinality(S) : InOrderOfId(S)[i] = x
  <2>. HIDE DEF S
  <2>. QED
    BY <1>2, InOrderOfIdNamesAll
<1>4. /\ DOMAIN Answers(a, taken) = 1 .. Cardinality(S)
      /\ \A i \in 1 .. Cardinality(S) : Answers(a, taken)[i] = send(InOrderOfId(S)[i])
  <2>1. Answers(a, taken) = [i \in DOMAIN InOrderOfId(S) |-> send(InOrderOfId(S)[i])]
    BY DEF Answers, AnswerNumbers
  <2>2. DOMAIN InOrderOfId(S) = 1 .. Cardinality(S)
    BY <1>3
  <2>. HIDE DEF S, send
  <2>. QED
    BY <2>1, <2>2
<1>5. ASSUME NEW c \in Offered(a) PROVE send(2 * c) = Answered(a, taken, c)
  <2>1. c \in Nat /\ (2 * c) % 2 = 0 /\ (2 * c) \div 2 = c
    BY <1>1, Halves
  <2>. QED
    BY <2>1 DEF Answered
<1>6. ASSUME NEW c \in taken PROVE send(2 * c + 1) = Register(a, c)
  <2>1. c \in Nat /\ (2 * c + 1) % 2 = 1 /\ (2 * c + 1) \div 2 = c
    BY <1>1, Halves
  <2>. QED
    BY <2>1
<1>7. ASSUME NEW i \in 1 .. Cardinality(S)
      PROVE  /\ \/ \E c \in Offered(a) :
                       InOrderOfId(S)[i] = 2 * c /\ Answers(a, taken)[i] = Answered(a, taken, c)
                \/ \E c \in taken :
                       InOrderOfId(S)[i] = 2 * c + 1 /\ Answers(a, taken)[i] = Register(a, c)
             /\ Answers(a, taken)[i] \in Posts
  <2>1. InOrderOfId(S)[i] \in S /\ Answers(a, taken)[i] = send(InOrderOfId(S)[i])
    BY <1>3, <1>4
  <2>2. CASE \E c \in Offered(a) : InOrderOfId(S)[i] = 2 * c
    <3>1. PICK c \in Offered(a) : InOrderOfId(S)[i] = 2 * c
      BY <2>2
    <3>2. Answers(a, taken)[i] = Answered(a, taken, c)
      BY <2>1, <3>1, <1>5
    <3>3. Answered(a, taken, c) \in Posts
      BY <1>1, PostsMade DEF Answered
    <3>. QED
      BY <3>1, <3>2, <3>3
  <2>3. CASE \E c \in taken : InOrderOfId(S)[i] = 2 * c + 1
    <3>1. PICK c \in taken : InOrderOfId(S)[i] = 2 * c + 1
      BY <2>3
    <3>2. Answers(a, taken)[i] = Register(a, c)
      BY <2>1, <3>1, <1>6
    <3>3. Register(a, c) \in Posts
      BY <1>1, PostsMade
    <3>. QED
      BY <3>1, <3>2, <3>3
  <2>. QED
    BY <2>1, <2>2, <2>3 DEF AnswerNumbers
<1>8. Answers(a, taken) \in Seq(Posts)
  <2>1. Answers(a, taken) = [i \in 1 .. Cardinality(S) |-> Answers(a, taken)[i]]
    <3>1. Answers(a, taken) = [i \in DOMAIN Answers(a, taken) |-> Answers(a, taken)[i]]
      BY DEF Answers
    <3>. QED
      BY <1>4, <3>1
  <2>2. Answers(a, taken) \in [1 .. Cardinality(S) -> Posts]
    BY <1>7, <2>1
  <2>. QED
    BY <1>3, <2>2
<1>9. /\ \A c \in Offered(a) : 2 * c \in S
      /\ \A c \in taken : 2 * c + 1 \in S
  BY DEF AnswerNumbers
<1>. HIDE DEF S, send
<1>a. /\ \A c \in Offered(a) : \E i \in 1 .. Cardinality(S) : InOrderOfId(S)[i] = 2 * c
      /\ \A c \in taken : \E i \in 1 .. Cardinality(S) : InOrderOfId(S)[i] = 2 * c + 1
  BY <1>3, <1>9
<1>. QED
  BY <1>3, <1>4, <1>7, <1>8, <1>a DEF S

-----------------------------------------------------------------------------
(* Most steps invite nobody to an election.                                *)
FewerInvitations == \A b \in Agents : UnderWay(InvadeTo(b))' <= UnderWay(InvadeTo(b))

LEMMA NoInvitation ==
    ASSUME NEW s, s.msg.kind # "INVADE", NEW b
    PROVE  Unit(<<s.to, s.msg>>, InvadeTo(b)) = 0
BY DEF Unit, InvadeTo

LEMMA NoInvitations ==
    ASSUME NEW list, \A i \in DOMAIN list : list[i].msg.kind # "INVADE", NEW b
    PROVE  Matching(list, InvadeTo(b)) = 0
<1>1. \A i \in DOMAIN list : <<list[i].to, list[i].msg>> \notin InvadeTo(b)
  BY DEF InvadeTo
<1>. QED
  BY <1>1, NoneMatches

LEMMA ReceiveInvitesNobody ==
    ASSUME MailTypes, NEW a \in Holders, CanTake(a), queue' = Taken(a), UNCHANGED out
    PROVE  MailTypes' /\ FewerInvitations
<1>1. ASSUME NEW b \in Agents
      PROVE  MailTypes' /\ UnderWay(InvadeTo(b))' <= UnderWay(InvadeTo(b))
  <2>. DEFINE P == InvadeTo(b)
  <2>. HIDE DEF P
  <2>1. MailTypes' /\ UnderWay(P)' = UnderWay(P) - Unit(<<a, Message(a)>>, P)
    BY ReceiveStep
  <2>. QED
    BY <2>1, UnitType, UnderWayType DEF P
<1>. QED
  BY <1>1, Threads DEF FewerInvitations, Agents

LEMMA SendInvitesNobody ==
    ASSUME MailTypes, NEW s \in Posts, s.msg.kind # "INVADE",
           queue' = With(queue, s), UNCHANGED out
    PROVE  MailTypes' /\ FewerInvitations
<1>1. ASSUME NEW b \in Agents
      PROVE  MailTypes' /\ UnderWay(InvadeTo(b))' <= UnderWay(InvadeTo(b))
  <2>. DEFINE P == InvadeTo(b)
  <2>0. Unit(<<s.to, s.msg>>, P) = 0
    BY NoInvitation
  <2>. HIDE DEF P
  <2>1. MailTypes' /\ UnderWay(P)' = UnderWay(P) + Unit(<<s.to, s.msg>>, P)
    BY SendStep
  <2>. QED
    BY <2>0, <2>1, UnderWayType DEF P
<1>. QED
  BY <1>1, Threads DEF FewerInvitations, Agents

LEMMA AnswerInvitesNobody ==
    ASSUME MailTypes, NEW a \in Holders, CanTake(a), NEW s \in Posts, s.msg.kind # "INVADE",
           queue' = With(Taken(a), s), UNCHANGED out
    PROVE  MailTypes' /\ FewerInvitations
<1>1. ASSUME NEW b \in Agents
      PROVE  MailTypes' /\ UnderWay(InvadeTo(b))' <= UnderWay(InvadeTo(b))
  <2>. DEFINE P == InvadeTo(b)
  <2>0. Unit(<<s.to, s.msg>>, P) = 0
    BY NoInvitation
  <2>. HIDE DEF P
  <2>1. /\ MailTypes'
        /\ UnderWay(P)' = UnderWay(P) - Unit(<<a, Message(a)>>, P) + Unit(<<s.to, s.msg>>, P)
    BY AnswerStep
  <2>. QED
    BY <2>0, <2>1, UnitType, UnderWayType DEF P
<1>. QED
  BY <1>1, Threads DEF FewerInvitations, Agents

LEMMA FillInvitesNobody ==
    ASSUME MailTypes, NEW a \in Holders, out[a] = <<>>, NEW list \in Seq(Posts),
           \A i \in DOMAIN list : list[i].msg.kind # "INVADE",
           Sends(a, list), UNCHANGED queue
    PROVE  MailTypes' /\ FewerInvitations
<1>1. ASSUME NEW b \in Agents
      PROVE  MailTypes' /\ UnderWay(InvadeTo(b))' <= UnderWay(InvadeTo(b))
  <2>. DEFINE P == InvadeTo(b)
  <2>0. Matching(list, P) = 0
    BY NoInvitations
  <2>. HIDE DEF P
  <2>1. MailTypes' /\ UnderWay(P)' = UnderWay(P) + Matching(list, P)
    BY FillStep
  <2>. QED
    BY <2>0, <2>1, UnderWayType DEF P
<1>. QED
  BY <1>1, Threads DEF FewerInvitations, Agents

LEMMA ReceiveAndFillInvitesNobody ==
    ASSUME MailTypes, NEW a \in Holders, CanTake(a), NEW list \in Seq(Posts),
           \A i \in DOMAIN list : list[i].msg.kind # "INVADE",
           Sends(a, list), queue' = Taken(a)
    PROVE  MailTypes' /\ FewerInvitations
<1>1. ASSUME NEW b \in Agents
      PROVE  MailTypes' /\ UnderWay(InvadeTo(b))' <= UnderWay(InvadeTo(b))
  <2>. DEFINE P == InvadeTo(b)
  <2>0. Matching(list, P) = 0
    BY NoInvitations
  <2>. HIDE DEF P
  <2>1. /\ MailTypes'
        /\ UnderWay(P)' = UnderWay(P) - Unit(<<a, Message(a)>>, P) + Matching(list, P)
    BY ReceiveAndFillStep
  <2>. QED
    BY <2>0, <2>1, UnitType, UnderWayType DEF P
<1>. QED
  BY <1>1, Threads DEF FewerInvitations, Agents

LEMMA SendNextInvitesNobody ==
    ASSUME MailTypes, NEW a \in Holders, SendNext(a)
    PROVE  MailTypes' /\ FewerInvitations
<1>1. ASSUME NEW b \in Agents
      PROVE  MailTypes' /\ UnderWay(InvadeTo(b))' <= UnderWay(InvadeTo(b))
  <2>. DEFINE P == InvadeTo(b)
  <2>. HIDE DEF P
  <2>1. MailTypes' /\ UnderWay(P)' = UnderWay(P)
    BY SendNextStep
  <2>. QED
    BY <2>1, UnderWayType DEF P
<1>. QED
  BY <1>1, Threads DEF FewerInvitations, Agents

LEMMA NoMailInvitesNobody ==
    ASSUME MailTypes, UNCHANGED <<queue, out>>
    PROVE  MailTypes' /\ FewerInvitations
<1>1. ASSUME NEW b \in Agents
      PROVE  MailTypes' /\ UnderWay(InvadeTo(b))' <= UnderWay(InvadeTo(b))
  <2>. DEFINE P == InvadeTo(b)
  <2>. HIDE DEF P
  <2>1. MailTypes' /\ UnderWay(P)' = UnderWay(P)
    BY NoMailStep
  <2>. QED
    BY <2>1, UnderWayType DEF P
<1>. QED
  BY <1>1, Threads DEF FewerInvitations, Agents

-----------------------------------------------------------------------------
(* A step of one agent that has no part in the election.                   *)
Alone(a) ==
    \A b \in Holders \ {a} :
        /\ pc'[b] = pc[b] /\ request'[b] = request[b] /\ plan'[b] = plan[b]
        /\ out'[b] = out[b] /\ self'[b] = self[b]

Resigned == {"unwon", "ending", "last", "stopped"}

Quiet(a) ==
    /\ pc[a] # "electing" /\ pc'[a] # "electing"
    /\ Active(a)' <=> Active(a)
    /\ self'[a].rounds = self[a].rounds
    /\ invading_agent = None /\ pc[a] \in Resigned => pc'[a] \in Resigned

LEMMA LocalStep ==
    ASSUME LocalInv, NEW a \in Holders, Alone(a), InHand(a)'
    PROVE  LocalInv'
<1>1. ASSUME NEW b \in Holders, b # a PROVE InHand(b)'
  <2>1. InHand(b)
    BY DEF LocalInv
  <2>2. pc'[b] = pc[b] /\ request'[b] = request[b] /\ plan'[b] = plan[b] /\ out'[b] = out[b]
    BY <1>1 DEF Alone
  <2>. QED
    BY <2>1, <2>2 DEF InHand
<1>2. \A b \in Holders : InHand(b)'
  BY <1>1
<1>. QED
  BY <1>2 DEF LocalInv

LEMMA InvitationsType ==
    ASSUME MailTypes, NEW b
    PROVE  Invitations(b) \in Nat /\ UnderWay(InvadeTo(b)) \in Nat
BY UnderWayType DEF Invitations

LEMMA FewerIsLess ==
    ASSUME MailTypes, MailTypes', FewerInvitations, UNCHANGED main, NEW b \in Agents
    PROVE  Invitations(b)' <= Invitations(b) /\ Invitations(b)' \in Nat /\ Invitations(b) \in Nat
<1>1. UnderWay(InvadeTo(b))' <= UnderWay(InvadeTo(b))
  BY DEF FewerInvitations
<1>2. UnderWay(InvadeTo(b)) \in Nat
  BY UnderWayType
<1>3. UnderWay(InvadeTo(b))' \in Nat
  BY UnderWayTypeNext
<1>4. Uninvited(b)' <=> Uninvited(b)
  BY DEF Uninvited
<1>. QED
  BY <1>1, <1>2, <1>3, <1>4 DEF Invitations

LEMMA QuietElection ==
    ASSUME ElectionInv, ElectionTypes, MailTypes, MailTypes', FewerInvitations,
           UNCHANGED <<ready, invading_agent, main>>,
           NEW a \in Holders, Alone(a), Quiet(a)
    PROVE  ElectionInv'
<1>0. \A b \in Agents : b \in Holders
  BY Threads
<1>1. \A b \in Agents : pc'[b] = "electing" <=> pc[b] = "electing"
  BY <1>0 DEF Alone, Quiet
<1>2. Electing' = Electing
  BY <1>1 DEF Electing
<1>3. ASSUME NEW b \in Agents PROVE Active(b)' <=> Active(b)
  <2>1. CASE b = a
    BY <2>1 DEF Quiet
  <2>2. CASE b # a
    BY <1>0, <2>2 DEF Alone, Active
  <2>. QED
    BY <2>1, <2>2
<1>4. ASSUME NEW b \in Agents
      PROVE  Invitations(b)' <= Invitations(b) /\ Invitations(b)' \in Nat /\ Invitations(b) \in Nat
  BY FewerIsLess
<1>5. invading_agent # None => invading_agent \in Agents
  BY DEF ElectionTypes
<1>6. ASSUME ready < N PROVE Gathering'
  <2>1. Gathering
    BY <1>6 DEF ElectionInv
  <2>2. ready' = Cardinality(Electing')
    BY <1>2, <2>1 DEF Gathering
  <2>3. \A b \in Agents : ~ Active(b)'
    BY <1>3, <2>1 DEF Gathering
  <2>4. ASSUME NEW b \in Agents
        PROVE  Invitations(b)' + (IF pc'[b] = "electing" THEN 1 ELSE 0) <= 1
    <3>1. Invitations(b) + (IF pc[b] = "electing" THEN 1 ELSE 0) <= 1
      BY <2>1 DEF Gathering
    <3>. QED
      BY <1>1, <1>4, <3>1
  <2>5. invading_agent' # None => pc'[invading_agent'] = "electing"
    BY <1>1, <1>5, <2>1 DEF Gathering
  <2>. QED
    BY <2>2, <2>3, <2>4, <2>5 DEF Gathering
<1>7. ASSUME ready = N PROVE Decided'
  <2>1. Decided
    BY <1>7 DEF ElectionInv
  <2>2. Electing' = {}
    BY <1>2, <2>1 DEF Decided
  <2>3. ASSUME NEW b \in Agents PROVE Invitations(b)' = 0
    <3>1. Invitations(b) = 0
      BY <2>1 DEF Decided
    <3>. QED
      BY <1>4, <3>1
  <2>4. ASSUME invading_agent = None, NEW b \in Agents PROVE pc'[b] \in Resigned
    <3>1. pc[b] \in Resigned
      BY <2>1, <2>4 DEF Decided, Resigned
    <3>2. CASE b = a
      BY <2>4, <3>1, <3>2 DEF Quiet
    <3>3. CASE b # a
      BY <1>0, <3>1, <3>3 DEF Alone
    <3>. QED
      BY <3>2, <3>3
  <2>5. invading_agent # None => \A b \in Agents : Active(b)' <=> b = invading_agent
    BY <1>3, <2>1 DEF Decided
  <2>. QED
    BY <2>2, <2>3, <2>4, <2>5 DEF Decided, Resigned
<1>8. \A b \in Holders : self'[b].rounds = self[b].rounds
  BY <1>0 DEF Alone, Quiet
<1>9. (\A b \in Holders : self[b].rounds <= MaxRounds)'
  BY <1>8 DEF ElectionInv
<1>10. (invading_agent # None => self[invading_agent].rounds < MaxRounds)'
  BY <1>0, <1>5, <1>8 DEF ElectionInv
<1>11. ready' <= N /\ (ready' < N => Gathering') /\ (ready' = N => Decided')
  BY <1>6, <1>7 DEF ElectionInv
<1>. QED
  BY <1>9, <1>10, <1>11 DEF ElectionInv

LEMMA PrivateStep ==
    ASSUME EInv, NEW a \in Holders, Elsewhere, Alone(a), Quiet(a), InHand(a)',
           AgentTypes', MailTypes', FewerInvitations
    PROVE  EInv'
<1>1. LocalInv'
  BY LocalStep DEF EInv
<1>2. ElectionInv'
  <2>1. UNCHANGED <<ready, invading_agent, main>>
    BY DEF Elsewhere, electionVars, mainVars
  <2>. QED
    BY <2>1, QuietElection DEF EInv
<1>3. ElectionTypes' /\ ClusterTypes' /\ MainTypes'
  BY DEF EInv, Elsewhere, electionVars, mainVars, clusterVars, ElectionTypes, ClusterTypes,
         MainTypes
<1>4. Barrier!TypeOK'
  BY DEF EInv, Elsewhere, Barrier!TypeOK
<1>. QED
  BY <1>1, <1>2, <1>3, <1>4 DEF EInv

-----------------------------------------------------------------------------
(* The steps, one by one.                                                  *)
LEMMA AgentParts ==
    ASSUME EInv, NEW a \in Holders
    PROVE  /\ MailTypes /\ AgentTypes /\ LocalInv /\ InHand(a)
           /\ pc[a] \in Stops /\ owned[a] \subseteq Cores /\ reserved[a] \subseteq Cores
           /\ request[a] \in Requests /\ plan[a] \in Plans
           /\ queue[a] \in Seq(Messages) /\ out[a] \in Seq(Posts)
BY MailboxesAreFinite DEF EInv, AgentTypes, MailTypes, LocalInv

LEMMA InHandParts ==
    ASSUME NEW a, InHand(a)
    PROVE  /\ RequestInHand(pc[a], request[a]) /\ PlanInHand(a, pc[a], plan[a])
           /\ OutInHand(a, pc[a], out[a])
BY DEF InHand

(* A thread that has sent everything is wherever it likes.                 *)
LEMMA NothingOut == \A a, place : OutInHand(a, place, <<>>)
BY DEF OutInHand

(* A new request, and a new plan.                                          *)
LEMMA RequestsMade ==
    /\ NoRequest \in Requests /\ NoRequest.invader = None
    /\ \A region \in RegionsHere, invader \in Agents, left \in 0 .. N + 1 :
          LET req == Handling(region, invader, left)
          IN  /\ req \in Requests
              /\ req.invader = invader /\ req.invader # None /\ req.region = region
              /\ req.found = <<>> /\ req.left = left /\ req.response = <<>>
<1>1. /\ <<>> \in Offers /\ None \notin Agents /\ 0 \in 0 .. N + 1 /\ NoRegion \in RegionsHere
  BY OffersAreViews, Threads, CoresAreNumbers DEF NoRegion, RegionsHere
<1>2. NoRequest \in Requests
  BY <1>1 DEF NoRequest, Handling, Requests
<1>. QED
  BY <1>1, <1>2 DEF Requests, NoRequest, Handling

LEMMA PlansMade ==
    /\ NoPlan \in Plans /\ NoPlan.core = None
    /\ \A core \in Cores, taken \in 0 .. Cardinality(Cores) :
          LET pl == Planned(core, taken)
          IN  /\ pl \in Plans /\ pl.core = core /\ pl.core # None
              /\ pl.tries = 0 /\ pl.todo = <<>> /\ pl.awaited = 0 /\ pl.offers = <<>>
              /\ pl.taken = taken
<1>1. /\ <<>> \in Offers /\ None \notin Cores /\ 0 \in 0 .. TryLimit
      /\ 0 \in 0 .. Cardinality(Cores) /\ <<>> \in Seq(Centered)
  BY OffersAreViews, Threads, CoresAreNumbers, OptionsAssumption
<1>. QED
  BY <1>1 DEF Planned, NoPlan, Plans

LEMMA BeginIsHandling ==
    ASSUME NEW a, NEW region, NEW invader, Begin(a, region, invader)
    PROVE  /\ pc' = [pc EXCEPT ![a] = "cores"]
           /\ request' = [request EXCEPT ![a] = Handling(region, invader, 0)]
BY DEF Begin, Goto

(* The steps that give everything away are told apart by what they change. *)
LEMMA MakeOfferKeeps ==
    ASSUME EInv, NEW a \in Holders, MakeOffer(a)
    PROVE  EInv'
<1>0. /\ CanTake(a) /\ Message(a).kind = "MAKE_OFFER" /\ pc[a] \in {"loop", "offers"}
      /\ UNCHANGED <<out, pc, request, plan, self, why>> /\ Elsewhere
  BY DEF MakeOffer, Takes
<1>m. MailTypes /\ InHand(a) /\ owned[a] \subseteq Cores /\ reserved[a] \subseteq Cores
  BY AgentParts
<1>1. Message(a) \in Messages /\ Message(a).from \in Holders
  BY <1>0, <1>m, MessageType, MessageParts
<1>2. PICK cores \in Offerable(a, Message(a).region) :
         /\ Reserve(a, cores)
         /\ queue' = With(Taken(a), Offer(a, Message(a).from, OwnedBy(a, cores)))
  BY DEF MakeOffer
<1>3. cores \subseteq Cores
  BY <1>m DEF Offerable
<1>. DEFINE s == Offer(a, Message(a).from, OwnedBy(a, cores))
<1>4. s \in Posts /\ s.msg.kind # "INVADE"
  <2>1. OwnedBy(a, cores) \in Offers
    BY <1>3, OffersAreViews
  <2>. QED
    BY <1>1, <2>1, PostsMade DEF Offer
<1>5. MailTypes' /\ FewerInvitations
  <2>. HIDE DEF s
  <2>. QED
    BY <1>0, <1>m, <1>2, <1>4, AnswerInvitesNobody DEF s
<1>6. AgentTypes'
  BY <1>0, <1>2, <1>3, <1>m DEF EInv, AgentTypes, Reserve
<1>7. Alone(a) /\ Quiet(a)
  BY <1>0 DEF Alone, Quiet, Active
<1>8. InHand(a)'
  BY <1>0, <1>m DEF InHand
<1>. QED
  BY <1>0, <1>5, <1>6, <1>7, <1>8, PrivateStep

LEMMA RequestKeeps ==
    ASSUME EInv, NEW a \in Holders, Request(a)
    PROVE  EInv'
<1>0. /\ CanTake(a) /\ Message(a).kind = "REQUEST" /\ pc[a] = "loop" /\ queue' = Taken(a)
      /\ Begin(a, Message(a).region, Message(a).from)
      /\ UNCHANGED <<out, owned, reserved, plan, self, why>> /\ Elsewhere
  BY DEF Request, Takes
<1>m. MailTypes /\ AgentTypes /\ InHand(a) /\ out[a] = <<>>
  BY <1>0, AgentParts DEF CanTake
<1>1. Message(a) \in Messages /\ Message(a).from \in Agents /\ Message(a).region \in RegionsHere
  BY <1>0, <1>m, MessageType, MessageParts
<1>2. MailTypes' /\ FewerInvitations
  BY <1>0, <1>m, ReceiveInvitesNobody
<1>. DEFINE req == Handling(Message(a).region, Message(a).from, 0)
<1>3. req \in Requests /\ req.invader # None /\ req.left = 0 /\ req.response = <<>>
  <2>1. 0 \in 0 .. N + 1
    BY Threads
  <2>. QED
    BY <1>1, <2>1, RequestsMade
<1>4. pc' = [pc EXCEPT ![a] = "cores"] /\ request' = [request EXCEPT ![a] = req]
  BY <1>0, BeginIsHandling
<1>. HIDE DEF req
<1>5. AgentTypes'
  BY <1>0, <1>3, <1>4, <1>m DEF AgentTypes, Stops
<1>6. Alone(a) /\ Quiet(a)
  BY <1>0, <1>4, <1>m DEF AgentTypes, Alone, Quiet, Active, Resigned
<1>7. InHand(a)'
  <2>1. pc'[a] = "cores" /\ request'[a] = req /\ plan'[a] = plan[a] /\ out'[a] = <<>>
    BY <1>0, <1>4, <1>m DEF AgentTypes
  <2>2. RequestInHand("cores", req)
    BY <1>3 DEF RequestInHand, Managing
  <2>3. PlanInHand(a, "cores", plan[a])
    BY <1>0, <1>m, InHandParts DEF PlanInHand, Planning, Managing
  <2>. QED
    BY <2>1, <2>2, <2>3, NothingOut DEF InHand
<1>. QED
  BY <1>0, <1>2, <1>5, <1>6, <1>7, PrivateStep

LEMMA LocateCoreKeeps ==
    ASSUME EInv, NEW a \in Holders, LocateCore(a)
    PROVE  EInv'
<1>0. /\ pc[a] = "cores" /\ out[a] = <<>> /\ Unlocated(a) # {}
      /\ queue' = With(queue, Locate(a, Min(Unlocated(a))))
      /\ pc' = [pc EXCEPT ![a] = "owner"]
      /\ UNCHANGED <<out, owned, reserved, request, plan, self, why>> /\ Elsewhere
  BY DEF LocateCore, At, Goto
<1>m. MailTypes /\ AgentTypes /\ InHand(a) /\ request[a] \in Requests
  BY AgentParts
<1>1. Min(Unlocated(a)) \in Cores
  <2>1. Unlocated(a) \subseteq Cores
    BY <1>m DEF Unlocated, Requests, RegionsHere
  <2>2. IsFiniteSet(Unlocated(a)) /\ Unlocated(a) \subseteq Int
    BY <2>1, SubsetOfCores
  <2>3. Min(Unlocated(a)) \in Unlocated(a)
    BY <1>0, <2>2, LeastElement
  <2>. QED
    BY <2>1, <2>3
<1>2. Locate(a, Min(Unlocated(a))) \in Posts
        /\ Locate(a, Min(Unlocated(a))).msg.kind # "INVADE"
  BY <1>1, PostsMade DEF Locate
<1>3. MailTypes' /\ FewerInvitations
  BY <1>0, <1>m, <1>2, SendInvitesNobody
<1>4. AgentTypes'
  BY <1>0, <1>m DEF AgentTypes, Stops
<1>5. Alone(a) /\ Quiet(a)
  BY <1>0, <1>m DEF AgentTypes, Alone, Quiet, Active, Resigned
<1>6. InHand(a)'
  <2>1. pc'[a] = "owner" /\ request'[a] = request[a] /\ plan'[a] = plan[a] /\ out'[a] = <<>>
    BY <1>0, <1>m DEF AgentTypes
  <2>2. RequestInHand("owner", request[a])
    BY <1>0, <1>m, InHandParts DEF RequestInHand, Managing
  <2>3. PlanInHand(a, "owner", plan[a])
    BY <1>0, <1>m, InHandParts DEF PlanInHand, Planning, Managing
  <2>. QED
    BY <2>1, <2>2, <2>3, NothingOut DEF InHand
<1>. QED
  BY <1>0, <1>3, <1>4, <1>5, <1>6, PrivateStep

LEMMA CoreLocatedKeeps ==
    ASSUME EInv, NEW a \in Holders, CoreLocated(a)
    PROVE  EInv'
<1>. DEFINE view == Concat(OwnedBy(Message(a).agent, {Message(a).core}), request[a].found)
<1>0. /\ CanTake(a) /\ Message(a).kind = "INFO" /\ pc[a] = "owner" /\ queue' = Taken(a)
      /\ Message(a).agent # Null
      /\ request' = [request EXCEPT ![a].found = view]
      /\ pc' = [pc EXCEPT ![a] = "cores"]
      /\ UNCHANGED <<out, owned, reserved, plan, self, why>> /\ Elsewhere
  BY DEF CoreLocated, Takes, Goto
<1>m. MailTypes /\ AgentTypes /\ InHand(a) /\ request[a] \in Requests /\ out[a] = <<>>
  BY <1>0, AgentParts DEF CanTake
<1>1. Message(a) \in Messages /\ Message(a).agent \in Holders /\ Message(a).core \in Cores
  BY <1>0, <1>m, MessageType, MessageParts
<1>2. MailTypes' /\ FewerInvitations
  BY <1>0, <1>m, ReceiveInvitesNobody
<1>3. view \in Offers
  <2>1. request[a].found \in Offers /\ {Message(a).core} \in SUBSET Cores
    BY <1>m, <1>1 DEF Requests
  <2>. QED
    BY <1>1, <2>1, OffersAreViews
<1>. HIDE DEF view
<1>4. AgentTypes'
  BY <1>0, <1>3, <1>m DEF AgentTypes, Stops, Requests
<1>5. Alone(a) /\ Quiet(a)
  BY <1>0, <1>m DEF AgentTypes, Alone, Quiet, Active, Resigned
<1>6. InHand(a)'
  <2>1. /\ pc'[a] = "cores" /\ plan'[a] = plan[a] /\ out'[a] = <<>>
        /\ request'[a] = [request[a] EXCEPT !.found = view]
    BY <1>0, <1>m DEF AgentTypes
  <2>2. RequestInHand("cores", request'[a])
    BY <1>0, <1>m, <2>1, InHandParts DEF RequestInHand, Managing, Requests
  <2>3. PlanInHand(a, "cores", plan[a])
    BY <1>0, <1>m, InHandParts DEF PlanInHand, Planning, Managing
  <2>. QED
    BY <2>1, <2>2, <2>3, NothingOut DEF InHand
<1>. QED
  BY <1>0, <1>2, <1>4, <1>5, <1>6, PrivateStep

LEMMA HandlerType ==
    ASSUME NEW a \in Holders
    PROVE  Handler(a) \in Holders /\ Asked(a) \subseteq Holders
<1>. DEFINE most == {b \in Holders : /\ CoresOf(a, b) > 0
                                     /\ \A d \in Holders : CoresOf(a, d) <= CoresOf(a, b)}
<1>1. Handler(a) = IF most = {} \/ Min(most) = request[a].invader THEN a ELSE Min(most)
  BY DEF Handler
<1>2. most \subseteq Holders
  OBVIOUS
<1>. HIDE DEF most
<1>3. ASSUME most # {} PROVE Min(most) \in Holders
  <2>1. IsFiniteSet(Holders) /\ Holders \subseteq Int
    BY Threads
  <2>2. IsFiniteSet(most) /\ most \subseteq Int
    BY <1>2, <2>1, SubsetIsSmaller
  <2>3. Min(most) \in most
    BY <1>3, <2>2, LeastElement
  <2>. QED
    BY <1>2, <2>3
<1>. QED
  BY <1>1, <1>3 DEF Asked

LEMMA ManageKeeps ==
    ASSUME EInv, NEW a \in Holders, Manage(a)
    PROVE  EInv'
<1>. DEFINE list == Questions(a, Asked(a), request[a].region, request[a].invader)
            left == Cardinality(Asked(a))
<1>0. /\ pc[a] = "cores" /\ out[a] = <<>>
      /\ Sends(a, list)
      /\ request' = [request EXCEPT ![a].left = left, ![a].found = <<>>]
      /\ pc' = [pc EXCEPT ![a] = "offers"]
      /\ UNCHANGED <<queue, owned, reserved, plan, self, why>> /\ Elsewhere
  BY AskIsQuestions DEF Manage, At, Goto
<1>m. MailTypes /\ AgentTypes /\ InHand(a) /\ request[a] \in Requests
  BY AgentParts
<1>1. /\ Asked(a) \subseteq Holders /\ request[a].region \in RegionsHere
      /\ request[a].invader \in Agents /\ request[a].invader # None
  <2>1. request[a].invader # None
    BY <1>0, <1>m, InHandParts DEF RequestInHand, Managing
  <2>. QED
    BY <1>m, <2>1, HandlerType DEF Requests
<1>2. /\ list \in Seq(Posts) /\ left \in 0 .. N + 1
      /\ \A i \in DOMAIN list : list[i].msg.kind = "MAKE_OFFER" /\ list[i].msg.from = a
  <2>. DEFINE who == Asked(a) req == request[a].region inv == request[a].invader
  <2>0. who \subseteq Holders /\ req \in RegionsHere /\ inv \in Agents
    BY <1>1
  <2>. HIDE DEF who, req, inv
  <2>1. /\ Questions(a, who, req, inv) \in Seq(Posts)
        /\ Cardinality(who) \in 0 .. N + 1
        /\ DOMAIN Questions(a, who, req, inv) = 1 .. Cardinality(who)
        /\ \A i \in 1 .. Cardinality(who) :
              Questions(a, who, req, inv)[i].msg.kind = "MAKE_OFFER"
                 /\ Questions(a, who, req, inv)[i].msg.from = a
    BY <2>0, QuestionsType
  <2>. QED
    BY <2>1 DEF who, req, inv
<1>. HIDE DEF list, left
<1>3. MailTypes' /\ FewerInvitations
  <2>1. \A i \in DOMAIN list : list[i].msg.kind # "INVADE"
    BY <1>2
  <2>. QED
    BY <1>0, <1>m, <1>2, <2>1, FillInvitesNobody
<1>4. AgentTypes'
  <2>1. [request[a] EXCEPT !.left = left, !.found = <<>>] \in Requests
    BY <1>2, <1>m, OffersAreViews DEF Requests
  <2>. QED
    BY <1>0, <1>m, <2>1 DEF AgentTypes, Stops
<1>5. Alone(a) /\ Quiet(a)
  BY <1>0, <1>m DEF AgentTypes, MailTypes, Alone, Quiet, Active, Resigned, Sends
<1>6. InHand(a)'
  <2>1. /\ pc'[a] = "offers" /\ plan'[a] = plan[a] /\ out'[a] = list
        /\ request'[a] = [request[a] EXCEPT !.left = left, !.found = <<>>]
    BY <1>0, <1>m DEF AgentTypes, MailTypes, Sends
  <2>2. RequestInHand("offers", request'[a])
    BY <1>1, <1>m, <2>1 DEF RequestInHand, Managing, Requests
  <2>3. PlanInHand(a, "offers", plan[a])
    BY <1>0, <1>m, InHandParts DEF PlanInHand, Planning, Managing
  <2>4. OutInHand(a, "offers", list)
    BY <1>2 DEF OutInHand, Outgoing
  <2>. QED
    BY <2>1, <2>2, <2>3, <2>4 DEF InHand
<1>. QED
  BY <1>0, <1>3, <1>4, <1>5, <1>6, PrivateStep

LEMMA ForwardKeeps ==
    ASSUME EInv, NEW a \in Holders, Forward(a)
    PROVE  EInv'
<1>. DEFINE place == IF plan[a].core # None THEN "next" ELSE "loop"
            s == [to |-> Handler(a),
                  msg |-> [kind |-> "FORWARD", from |-> a, region |-> request[a].region,
                           invader |-> request[a].invader, neighbors |-> Asked(a)]]
<1>0. /\ pc[a] = "cores" /\ out[a] = <<>>
      /\ queue' = With(queue, s)
      /\ request' = [request EXCEPT ![a] = NoRequest]
      /\ pc' = [pc EXCEPT ![a] = place]
      /\ UNCHANGED <<out, owned, reserved, plan, self, why>> /\ Elsewhere
  BY DEF Forward, At, Goto
<1>m. MailTypes /\ AgentTypes /\ InHand(a) /\ request[a] \in Requests
  BY AgentParts
<1>1. /\ Handler(a) \in Mailboxes /\ Asked(a) \subseteq Holders
      /\ request[a].region \in RegionsHere /\ request[a].invader \in Agents
  <2>1. request[a].invader # None
    BY <1>0, <1>m, InHandParts DEF RequestInHand, Managing
  <2>. QED
    BY <1>m, <2>1, HandlerType, MailboxesAreFinite DEF Requests
<1>2. s \in Posts /\ s.msg.kind # "INVADE"
  BY <1>1 DEF Posts, Messages
<1>3. place \in {"next", "loop"} /\ (place = "next" <=> plan[a].core # None)
  OBVIOUS
<1>. HIDE DEF s, place
<1>4. MailTypes' /\ FewerInvitations
  BY <1>0, <1>m, <1>2, SendInvitesNobody
<1>5. AgentTypes'
  BY <1>0, <1>3, <1>m, RequestsMade DEF AgentTypes, Stops
<1>6. Alone(a) /\ Quiet(a)
  BY <1>0, <1>3, <1>m DEF AgentTypes, Alone, Quiet, Active, Resigned
<1>7. InHand(a)'
  <2>1. /\ pc'[a] = place /\ plan'[a] = plan[a] /\ out'[a] = <<>> /\ request'[a] = NoRequest
    BY <1>0, <1>m DEF AgentTypes
  <2>2. RequestInHand(place, NoRequest)
    BY <1>3 DEF RequestInHand, Managing
  <2>3. PlanInHand(a, place, plan[a])
    BY <1>0, <1>3, <1>m, InHandParts DEF PlanInHand, Planning, Managing
  <2>. QED
    BY <2>1, <2>2, <2>3, NothingOut DEF InHand
<1>. QED
  BY <1>0, <1>4, <1>5, <1>6, <1>7, PrivateStep

LEMMA ForwardedKeeps ==
    ASSUME EInv, NEW a \in Holders, Forwarded(a)
    PROVE  EInv'
<1>. DEFINE m == Message(a)
            list == Questions(a, m.neighbors, m.region, m.invader)
            req == Handling(m.region, m.invader, Cardinality(m.neighbors))
<1>0. /\ CanTake(a) /\ pc[a] = "loop" /\ m.kind = "FORWARD" /\ queue' = Taken(a)
      /\ Sends(a, list)
      /\ request' = [request EXCEPT ![a] = req]
      /\ pc' = [pc EXCEPT ![a] = "offers"]
      /\ UNCHANGED <<owned, reserved, plan, self, why>> /\ Elsewhere
  BY AskIsQuestions DEF Forwarded, Takes, Goto
<1>m. MailTypes /\ AgentTypes /\ InHand(a) /\ request[a] \in Requests /\ out[a] = <<>>
  BY <1>0, AgentParts DEF CanTake
<1>1. m \in Messages /\ m.neighbors \subseteq Holders /\ m.region \in RegionsHere /\ m.invader \in Agents
  BY <1>0, <1>m, MessageType, MessageParts
<1>2. /\ list \in Seq(Posts) /\ Cardinality(m.neighbors) \in 0 .. N + 1
      /\ \A i \in DOMAIN list : list[i].msg.kind = "MAKE_OFFER" /\ list[i].msg.from = a
  <2>. DEFINE who == m.neighbors region == m.region inv == m.invader
  <2>0. who \subseteq Holders /\ region \in RegionsHere /\ inv \in Agents
    BY <1>1
  <2>. HIDE DEF who, region, inv
  <2>1. /\ Questions(a, who, region, inv) \in Seq(Posts)
        /\ Cardinality(who) \in 0 .. N + 1
        /\ DOMAIN Questions(a, who, region, inv) = 1 .. Cardinality(who)
        /\ \A i \in 1 .. Cardinality(who) :
              Questions(a, who, region, inv)[i].msg.kind = "MAKE_OFFER"
                 /\ Questions(a, who, region, inv)[i].msg.from = a
    BY <2>0, QuestionsType
  <2>. QED
    BY <2>1 DEF who, region, inv
<1>3. req \in Requests /\ req.invader # None
  BY <1>1, <1>2, RequestsMade
<1>. HIDE DEF list, m, req
<1>4. MailTypes' /\ FewerInvitations
  <2>1. \A i \in DOMAIN list : list[i].msg.kind # "INVADE"
    BY <1>2
  <2>. QED
    BY <1>0, <1>m, <1>2, <2>1, ReceiveAndFillInvitesNobody
<1>5. AgentTypes'
  BY <1>0, <1>m, <1>3 DEF AgentTypes, Stops
<1>6. Alone(a) /\ Quiet(a)
  BY <1>0, <1>m DEF AgentTypes, MailTypes, Alone, Quiet, Active, Resigned, Sends
<1>7. InHand(a)'
  <2>1. pc'[a] = "offers" /\ plan'[a] = plan[a] /\ out'[a] = list /\ request'[a] = req
    BY <1>0, <1>m DEF AgentTypes, MailTypes, Sends
  <2>2. RequestInHand("offers", req)
    BY <1>3 DEF RequestInHand, Managing
  <2>3. PlanInHand(a, "offers", plan[a])
    BY <1>0, <1>m, InHandParts DEF PlanInHand, Planning, Managing
  <2>4. OutInHand(a, "offers", list)
    BY <1>2 DEF OutInHand, Outgoing
  <2>. QED
    BY <2>1, <2>2, <2>3, <2>4 DEF InHand
<1>. QED
  BY <1>0, <1>4, <1>5, <1>6, <1>7, PrivateStep

LEMMA CollectOfferKeeps ==
    ASSUME EInv, NEW a \in Holders, CollectOffer(a)
    PROVE  EInv'
<1>. DEFINE view == Concat(request[a].response, Message(a).cores)
            req == [request[a] EXCEPT !.left = request[a].left - 1, !.response = view]
<1>0. /\ CanTake(a) /\ Message(a).kind = "OFFER" /\ pc[a] = "offers" /\ queue' = Taken(a)
      /\ request[a].left > 0
      /\ request' = [request EXCEPT ![a] = req]
      /\ UNCHANGED <<out, pc, owned, reserved, plan, self, why>> /\ Elsewhere
  BY DEF CollectOffer, Takes
<1>m. MailTypes /\ AgentTypes /\ InHand(a) /\ request[a] \in Requests /\ out[a] = <<>>
  BY <1>0, AgentParts DEF CanTake
<1>1. Message(a) \in Messages /\ Message(a).cores \in Offers
  BY <1>0, <1>m, MessageType, MessageParts
<1>2. MailTypes' /\ FewerInvitations
  BY <1>0, <1>m, ReceiveInvitesNobody
<1>3. view \in Offers /\ request[a].left - 1 \in 0 .. N + 1
  <2>1. request[a].response \in Offers /\ request[a].left \in 0 .. N + 1 /\ N \in Nat
    BY <1>m, Threads DEF Requests
  <2>. QED
    BY <1>0, <1>1, <2>1, OffersAreViews
<1>. HIDE DEF view
<1>4. req \in Requests /\ req.invader = request[a].invader
  BY <1>3, <1>m DEF Requests
<1>. HIDE DEF req
<1>5. AgentTypes'
  BY <1>0, <1>4, <1>m DEF AgentTypes
<1>6. Alone(a) /\ Quiet(a)
  BY <1>0, <1>m DEF AgentTypes, Alone, Quiet, Active, Resigned
<1>7. InHand(a)'
  <2>1. pc'[a] = "offers" /\ plan'[a] = plan[a] /\ out'[a] = <<>> /\ request'[a] = req
    BY <1>0, <1>m DEF AgentTypes
  <2>2. RequestInHand("offers", req)
    BY <1>0, <1>m, <1>4, InHandParts DEF RequestInHand, Managing
  <2>3. PlanInHand(a, "offers", plan[a])
    BY <1>0, <1>m, InHandParts
  <2>. QED
    BY <2>1, <2>2, <2>3, NothingOut DEF InHand
<1>. QED
  BY <1>0, <1>2, <1>5, <1>6, <1>7, PrivateStep

LEMMA RespondKeeps ==
    ASSUME EInv, NEW a \in Holders, Respond(a)
    PROVE  EInv'
<1>. DEFINE place == IF plan[a].core # None THEN "next" ELSE "loop"
            invader == request[a].invader
<1>0. /\ pc[a] = "offers" /\ out[a] = <<>>
      /\ request' = [request EXCEPT ![a] = NoRequest]
      /\ pc' = [pc EXCEPT ![a] = place]
      /\ UNCHANGED <<out, plan, self, why>> /\ Elsewhere
  BY DEF Respond, At, Goto
<1>m. MailTypes /\ AgentTypes /\ InHand(a) /\ request[a] \in Requests
        /\ owned[a] \subseteq Cores /\ reserved[a] \subseteq Cores
  BY AgentParts
<1>1. PICK cores \in IF a = invader THEN {{}} ELSE Offerable(a, request[a].region) :
         /\ Reserve(a, cores)
         /\ queue' = With(queue, Offer(a, invader,
                                       Concat(request[a].response, OwnedBy(a, cores))))
  BY DEF Respond
<1>2. cores \subseteq Cores
  BY <1>m DEF Offerable
<1>. DEFINE s == Offer(a, invader, Concat(request[a].response, OwnedBy(a, cores)))
<1>3. s \in Posts /\ s.msg.kind # "INVADE"
  <2>1. invader \in Agents
    BY <1>0, <1>m, InHandParts DEF RequestInHand, Managing, Requests
  <2>2. OwnedBy(a, cores) \in Offers /\ request[a].response \in Offers
    BY <1>2, <1>m, OffersAreViews DEF Requests
  <2>3. Concat(request[a].response, OwnedBy(a, cores)) \in Offers
    BY <2>2, OffersAreViews
  <2>. QED
    BY <2>1, <2>3, Threads, PostsMade DEF Offer
<1>4. place \in {"next", "loop"} /\ (place = "next" <=> plan[a].core # None)
  OBVIOUS
<1>. HIDE DEF place
<1>5. MailTypes' /\ FewerInvitations
  <2>1. queue' = With(queue, s)
    BY <1>1
  <2>. HIDE DEF s
  <2>. QED
    BY <1>0, <1>m, <1>3, <2>1, SendInvitesNobody
<1>6. AgentTypes'
  BY <1>0, <1>1, <1>2, <1>4, <1>m, RequestsMade DEF AgentTypes, Stops, Reserve
<1>7. Alone(a) /\ Quiet(a)
  BY <1>0, <1>4, <1>m DEF AgentTypes, Alone, Quiet, Active, Resigned
<1>8. InHand(a)'
  <2>1. /\ pc'[a] = place /\ plan'[a] = plan[a] /\ out'[a] = <<>> /\ request'[a] = NoRequest
    BY <1>0, <1>m DEF AgentTypes
  <2>2. RequestInHand(place, NoRequest)
    BY <1>4 DEF RequestInHand, Managing
  <2>3. PlanInHand(a, place, plan[a])
    BY <1>0, <1>4, <1>m, InHandParts DEF PlanInHand, Planning, Managing
  <2>. QED
    BY <2>1, <2>2, <2>3, NothingOut DEF InHand
<1>. QED
  BY <1>0, <1>5, <1>6, <1>7, <1>8, PrivateStep

LEMMA AcceptedKeeps ==
    ASSUME EInv, NEW a \in Holders, Accepted(a) \/ Rejected(a)
    PROVE  EInv'
<1>0. /\ CanTake(a) /\ Message(a).kind \in {"ACCEPT", "REJECT"} /\ pc[a] = "loop"
      /\ queue' = Taken(a)
      /\ UNCHANGED <<out, pc, request, plan, self, why>> /\ Elsewhere
  BY DEF Accepted, Rejected, Takes
<1>m. MailTypes /\ AgentTypes /\ InHand(a) /\ out[a] = <<>>
        /\ owned[a] \subseteq Cores /\ reserved[a] \subseteq Cores
  BY <1>0, AgentParts DEF CanTake
<1>1. Message(a) \in Messages /\ Message(a).core \in Cores
  BY <1>0, <1>m, MessageType, MessageParts
<1>2. MailTypes' /\ FewerInvitations
  BY <1>0, <1>m, ReceiveInvitesNobody
<1>3. /\ reserved' = [reserved EXCEPT ![a] = @ \ {Message(a).core}]
      /\ owned' = owned \/ owned' = [owned EXCEPT ![a] = @ \union {Message(a).core}]
  BY DEF Accepted, Rejected
<1>4. AgentTypes'
  <2>1. owned' \in [Holders -> SUBSET Cores]
    <3>1. owned \in [Holders -> SUBSET Cores]
      BY <1>m DEF AgentTypes
    <3>2. owned[a] \union {Message(a).core} \in SUBSET Cores
      BY <1>1, <1>m
    <3>. QED
      BY <1>3, <3>1, <3>2
  <2>2. reserved' \in [Holders -> SUBSET Cores]
    BY <1>3, <1>m DEF AgentTypes
  <2>. QED
    BY <1>0, <1>m, <2>1, <2>2 DEF AgentTypes
<1>5. Alone(a) /\ Quiet(a)
  BY <1>0 DEF Alone, Quiet, Active
<1>6. InHand(a)'
  BY <1>0, <1>m DEF InHand
<1>. QED
  BY <1>0, <1>2, <1>4, <1>5, <1>6, PrivateStep

LEMMA EndKeeps ==
    ASSUME EInv, NEW a \in Holders, End(a)
    PROVE  EInv'
<1>. DEFINE place == IF a = Idle THEN "stopped" ELSE "ending"
<1>0. /\ CanTake(a) /\ pc[a] = "loop" /\ queue' = Taken(a)
      /\ pc' = [pc EXCEPT ![a] = place] /\ why' = [why EXCEPT ![a] = "end"]
      /\ UNCHANGED <<out, owned, reserved, request, plan, self>> /\ Elsewhere
  BY DEF End, Takes, Goto
<1>m. MailTypes /\ AgentTypes /\ InHand(a) /\ out[a] = <<>>
  BY <1>0, AgentParts DEF CanTake
<1>2. MailTypes' /\ FewerInvitations
  BY <1>0, <1>m, ReceiveInvitesNobody
<1>3. place \in {"stopped", "ending"}
  OBVIOUS
<1>. HIDE DEF place
<1>4. AgentTypes'
  BY <1>0, <1>3, <1>m DEF AgentTypes, Stops
<1>5. Alone(a) /\ Quiet(a)
  BY <1>0, <1>3, <1>m DEF AgentTypes, Alone, Quiet, Active, Resigned
<1>6. InHand(a)'
  <2>1. /\ pc'[a] = place /\ plan'[a] = plan[a] /\ out'[a] = <<>> /\ request'[a] = request[a]
    BY <1>0, <1>m DEF AgentTypes
  <2>2. RequestInHand(place, request[a])
    BY <1>0, <1>3, <1>m, InHandParts DEF RequestInHand, Managing
  <2>3. PlanInHand(a, place, plan[a])
    BY <1>0, <1>3, <1>m, InHandParts DEF PlanInHand, Planning, Managing
  <2>. QED
    BY <2>1, <2>2, <2>3, NothingOut DEF InHand
<1>. QED
  BY <1>0, <1>2, <1>4, <1>5, <1>6, PrivateStep

LEMMA SendNextKeeps ==
    ASSUME EInv, NEW a \in Holders, SendNext(a)
    PROVE  EInv'
<1>0. /\ out[a] # <<>> /\ out' = [out EXCEPT ![a] = Tail(@)]
      /\ UNCHANGED <<pc, owned, reserved, request, plan, self, why>> /\ Elsewhere
  BY DEF SendNext
<1>m. MailTypes /\ AgentTypes /\ InHand(a) /\ out[a] \in Seq(Posts)
  BY AgentParts
<1>1. MailTypes' /\ FewerInvitations
  BY <1>m, SendNextInvitesNobody
<1>2. AgentTypes'
  BY <1>0, <1>m DEF AgentTypes
<1>3. pc[a] # "electing"
  <2>1. 1 \in DOMAIN out[a]
    BY <1>0, <1>m
  <2>2. Outgoing(pc[a], out[a][1].msg.kind)
    BY <1>m, <2>1, InHandParts DEF OutInHand
  <2>. QED
    BY <2>2 DEF Outgoing
<1>4. Alone(a) /\ Quiet(a)
  BY <1>0, <1>3, <1>m DEF MailTypes, Alone, Quiet, Active
<1>5. InHand(a)'
  <2>1. out'[a] = Tail(out[a])
    BY <1>0, <1>m DEF MailTypes
  <2>2. OutInHand(a, pc[a], out[a])
    BY <1>m, InHandParts
  <2>3. OutInHand(a, pc[a], Tail(out[a]))
    <3>1. \A i \in DOMAIN Tail(out[a]) : i + 1 \in DOMAIN out[a] /\ Tail(out[a])[i] = out[a][i + 1]
      BY <1>0, <1>m
    <3>. QED
      BY <2>2, <3>1 DEF OutInHand
  <2>. QED
    BY <1>0, <1>m, <2>1, <2>3, InHandParts DEF InHand
<1>. QED
  BY <1>0, <1>1, <1>2, <1>4, <1>5, PrivateStep

LEMMA LookForWinnerKeeps ==
    ASSUME EInv, NEW a \in Agents, LookForWinner(a)
    PROVE  EInv'
<1>. DEFINE place == IF invading_agent = None THEN "ending" ELSE "loop"
            reason == IF invading_agent = None THEN IF pc[a] = "lost" THEN "outrun" ELSE "stale"
                                               ELSE why[a]
<1>h. a \in Holders
  BY Threads
<1>m. MailTypes /\ AgentTypes /\ InHand(a)
  BY <1>h, AgentParts
<1>0. /\ pc[a] \in {"lost", "unwon"} /\ out[a] = <<>>
      /\ self' = [self EXCEPT ![a].was_invading = FALSE]
      /\ pc' = [pc EXCEPT ![a] = place]
      /\ why' = [why EXCEPT ![a] = reason]
      /\ UNCHANGED <<queue, out, owned, reserved, request, plan>> /\ Elsewhere
  BY <1>h, <1>m DEF LookForWinner, At, Goto, AgentTypes
<1>1. place \in {"ending", "loop"} /\ (invading_agent = None => place = "ending")
        /\ reason \in {"", "stale", "outrun", "rounds", "end"}
  BY <1>h, <1>m DEF AgentTypes
<1>. HIDE DEF place, reason
<1>2. MailTypes' /\ FewerInvitations
  BY <1>0, <1>m, NoMailInvitesNobody
<1>3. AgentTypes'
  <2>1. self' \in [Holders -> [stale : BOOLEAN, rounds : Nat, was_invading : BOOLEAN]]
    BY <1>0, <1>m DEF AgentTypes
  <2>. QED
    BY <1>0, <1>1, <1>m, <2>1 DEF AgentTypes, Stops
<1>4. self'[a].rounds = self[a].rounds
  BY <1>0, <1>h, <1>m DEF AgentTypes
<1>5. Alone(a) /\ Quiet(a)
  BY <1>0, <1>1, <1>h, <1>m, <1>4 DEF AgentTypes, Alone, Quiet, Active, Resigned
<1>6. InHand(a)'
  <2>1. /\ pc'[a] = place /\ plan'[a] = plan[a] /\ out'[a] = <<>> /\ request'[a] = request[a]
    BY <1>0, <1>h, <1>m DEF AgentTypes
  <2>2. RequestInHand(place, request[a])
    BY <1>0, <1>1, <1>m, InHandParts DEF RequestInHand, Managing
  <2>3. PlanInHand(a, place, plan[a])
    BY <1>0, <1>1, <1>m, InHandParts DEF PlanInHand, Planning, Managing
  <2>. QED
    BY <2>1, <2>2, <2>3, NothingOut DEF InHand
<1>. QED
  BY <1>0, <1>h, <1>2, <1>3, <1>5, <1>6, PrivateStep

LEMMA SeedKeeps ==
    ASSUME EInv, NEW a \in Agents, Seed(a)
    PROVE  EInv'
<1>h. a \in Holders
  BY Threads
<1>m. MailTypes /\ AgentTypes /\ InHand(a) /\ owned[a] \subseteq Cores
  BY <1>h, AgentParts
<1>0. /\ pc[a] = "seed" /\ out[a] = <<>> /\ pc' = [pc EXCEPT ![a] = "try"]
      /\ UNCHANGED <<queue, out, owned, reserved, request, self, why>> /\ Elsewhere
  BY DEF Seed, At, Goto
<1>1. PICK c \in IF owned[a] # {} THEN owned[a] ELSE Cores :
         plan' = [plan EXCEPT ![a] = Planned(c, 0)]
  BY DEF Seed
<1>. DEFINE pl == Planned(c, 0)
<1>2. /\ pl \in Plans /\ pl.core # None
  <2>1. c \in Cores /\ 0 \in 0 .. Cardinality(Cores)
    BY <1>m, CoresAreNumbers
  <2>. QED
    BY <2>1, PlansMade
<1>3. plan' = [plan EXCEPT ![a] = pl]
  BY <1>1
<1>. HIDE DEF pl
<1>4. MailTypes' /\ FewerInvitations
  BY <1>0, <1>m, NoMailInvitesNobody
<1>5. AgentTypes'
  BY <1>0, <1>2, <1>3, <1>m DEF AgentTypes, Stops
<1>6. Alone(a) /\ Quiet(a)
  BY <1>0, <1>2, <1>3, <1>h, <1>m DEF AgentTypes, Alone, Quiet, Active, Resigned
<1>7. InHand(a)'
  <2>1. /\ pc'[a] = "try" /\ plan'[a] = pl /\ out'[a] = <<>> /\ request'[a] = request[a]
    BY <1>0, <1>3, <1>h, <1>m DEF AgentTypes
  <2>2. RequestInHand("try", request[a])
    BY <1>0, <1>m, InHandParts DEF RequestInHand, Managing
  <2>3. PlanInHand(a, "try", pl)
    BY <1>2 DEF PlanInHand, Planning, Managing
  <2>. QED
    BY <2>1, <2>2, <2>3, NothingOut DEF InHand
<1>. QED
  BY <1>0, <1>h, <1>4, <1>5, <1>6, <1>7, PrivateStep

LEMMA TodoType ==
    ASSUME NEW core \in Cores, NEW kept, kept \subseteq Cores, NEW centers \in SetToSeqs(kept),
           options \in Options
    PROVE  FlattenSeq([i \in DOMAIN centers |-> PiecesOf(core, centers[i])]) \in Seq(Fitting)
<1>1. Cardinality(kept) \in Nat
  BY SubsetOfCores
<1>2. centers \in [1 .. Cardinality(kept) -> kept]
  BY DEF SetToSeqs
<1>. DEFINE list == [i \in DOMAIN centers |-> PiecesOf(core, centers[i])]
<1>3. list \in [1 .. Cardinality(kept) -> Seq(Fitting)]
  BY <1>2, PiecesOfType
<1>4. list \in Seq(Seq(Fitting))
  BY <1>1, <1>3
<1>. HIDE DEF list
<1>5. FlattenSeq(list) \in Seq(Fitting)
  BY <1>4, FlattenSeqType
<1>. QED
  BY <1>5 DEF list

LEMMA TryKeeps ==
    ASSUME EInv, NEW a \in Agents, Try(a)
    PROVE  EInv'
<1>h. a \in Holders
  BY Threads
<1>m. MailTypes /\ AgentTypes /\ InHand(a) /\ plan[a] \in Plans
  BY <1>h, AgentParts
<1>0. /\ pc[a] = "try" /\ out[a] = <<>> /\ pc' = [pc EXCEPT ![a] = "next"]
      /\ UNCHANGED <<queue, out, owned, reserved, request, self, why>> /\ Elsewhere
  BY DEF Try, At, Goto
<1>c. plan[a].core # None /\ plan[a].core \in Cores
  <2>1. plan[a].core # None
    BY <1>0, <1>m, InHandParts DEF PlanInHand, Planning
  <2>. QED
    BY <1>m, <2>1 DEF Plans
<1>1. PICK kept \in Selections(plan[a].core, RegionNum, options.max_par_reqs,
                              NearLimit(plan[a].tries)) :
         \E centers \in SetToSeqs(kept) :
            plan' = [plan EXCEPT ![a].todo =
                       FlattenSeq([i \in DOMAIN centers |-> PiecesOf(plan[a].core, centers[i])])]
  BY DEF Try
<1>2. kept \subseteq Cores
  BY DEF Selections
<1>3. PICK centers \in SetToSeqs(kept) :
         plan' = [plan EXCEPT ![a].todo =
                    FlattenSeq([i \in DOMAIN centers |-> PiecesOf(plan[a].core, centers[i])])]
  BY <1>1
<1>. DEFINE todo == FlattenSeq([i \in DOMAIN centers |-> PiecesOf(plan[a].core, centers[i])])
<1>4. todo \in Seq(Centered)
  <2>1. todo \in Seq(Fitting) /\ Fitting \subseteq Centered
    BY <1>2, <1>c, TodoType DEF EInv, ElectionTypes, Fitting
  <2>. QED
    BY <2>1
<1>5. plan' = [plan EXCEPT ![a].todo = todo]
  BY <1>3
<1>. HIDE DEF todo
<1>. DEFINE pl == [plan[a] EXCEPT !.todo = todo]
<1>6. plan' = [plan EXCEPT ![a] = pl] /\ pl \in Plans /\ pl.core = plan[a].core
  BY <1>4, <1>5, <1>m DEF Plans
<1>. HIDE DEF pl
<1>7. MailTypes' /\ FewerInvitations
  BY <1>0, <1>m, NoMailInvitesNobody
<1>8. AgentTypes'
  BY <1>0, <1>6, <1>m DEF AgentTypes, Stops
<1>9. Alone(a) /\ Quiet(a)
  BY <1>0, <1>6, <1>h, <1>m DEF AgentTypes, Alone, Quiet, Active, Resigned
<1>10. InHand(a)'
  <2>1. /\ pc'[a] = "next" /\ plan'[a] = pl /\ out'[a] = <<>> /\ request'[a] = request[a]
    BY <1>0, <1>6, <1>h, <1>m DEF AgentTypes
  <2>2. RequestInHand("next", request[a])
    BY <1>0, <1>m, InHandParts DEF RequestInHand, Managing
  <2>3. PlanInHand(a, "next", pl)
    BY <1>6, <1>c DEF PlanInHand, Planning, Managing
  <2>. QED
    BY <2>1, <2>2, <2>3, NothingOut DEF InHand
<1>. QED
  BY <1>0, <1>h, <1>7, <1>8, <1>9, <1>10, PrivateStep

LEMMA PieceType ==
    ASSUME NEW a \in Holders, plan[a] \in Plans, plan[a].todo # <<>>
    PROVE  /\ Piece(a).region \in RegionsHere /\ Piece(a).located \in BOOLEAN
           /\ Centers(Piece(a).region)
           /\ Tail(plan[a].todo) \in Seq(Centered)
<1>1. plan[a].todo \in Seq(Centered)
  BY DEF Plans
<1>2. Head(plan[a].todo) \in Centered /\ Tail(plan[a].todo) \in Seq(Centered)
  BY <1>1
<1>. QED
  BY <1>2 DEF Piece, Centered, Pieces

LEMMA CenterReadType ==
    ASSUME NEW a \in Holders, plan[a] \in Plans, plan[a].todo # <<>>, NEW center \in CenterRead(a)
    PROVE  center \in Cores
BY PieceType DEF CenterRead, Centers

(* The plan when its first piece has been dealt with.                      *)
Shortened(a) == [plan[a] EXCEPT !.todo = Tail(@), !.awaited = @ + 1]

LEMMA PoppedIsShortened ==
    ASSUME AgentTypes, NEW a \in Holders, plan[a].todo # <<>>
    PROVE  /\ Popped(a) = [plan EXCEPT ![a] = Shortened(a)]
           /\ Shortened(a) \in Plans /\ Shortened(a).core = plan[a].core
           /\ Shortened(a).awaited = plan[a].awaited + 1
           /\ Shortened(a).offers = plan[a].offers
<1>1. plan[a] \in Plans
  BY DEF AgentTypes
<1>2. Tail(plan[a].todo) \in Seq(Centered)
  BY <1>1, PieceType
<1>3. Popped(a) = [plan EXCEPT ![a] = Shortened(a)]
  BY DEF Popped, Shortened
<1>4. plan[a].awaited + 1 \in Nat
  BY <1>1 DEF Plans
<1>5. /\ Shortened(a).core = plan[a].core
      /\ Shortened(a).awaited = plan[a].awaited + 1
      /\ Shortened(a).offers = plan[a].offers
  BY <1>1 DEF Shortened, Plans
<1>6. Shortened(a) \in Plans
  BY <1>1, <1>2, <1>4 DEF Shortened, Plans
<1>. QED
  BY <1>3, <1>5, <1>6

LEMMA ManageOwnKeeps ==
    ASSUME EInv, NEW a \in Agents, ManageOwn(a)
    PROVE  EInv'
<1>h. a \in Holders
  BY Threads
<1>m. MailTypes /\ AgentTypes /\ InHand(a) /\ plan[a] \in Plans
  BY <1>h, AgentParts
<1>. DEFINE req == Handling(Piece(a).region, a, 0)
            pl == Shortened(a)
<1>0. /\ pc[a] = "next" /\ out[a] = <<>> /\ plan[a].todo # <<>>
      /\ pc' = [pc EXCEPT ![a] = "cores"] /\ request' = [request EXCEPT ![a] = req]
      /\ plan' = [plan EXCEPT ![a] = pl]
      /\ UNCHANGED <<queue, out, owned, reserved, self, why>> /\ Elsewhere
  BY <1>h, <1>m, BeginIsHandling, PoppedIsShortened DEF ManageOwn, At
<1>1. req \in Requests /\ req.invader # None /\ req.left = 0 /\ req.response = <<>>
  <2>1. Piece(a).region \in RegionsHere /\ 0 \in 0 .. N + 1
    BY <1>0, <1>h, <1>m, PieceType, Threads
  <2>. QED
    BY <2>1, RequestsMade
<1>2. pl \in Plans /\ pl.core = plan[a].core /\ plan[a].core # None
  BY <1>0, <1>h, <1>m, PoppedIsShortened, InHandParts DEF PlanInHand, Planning
<1>. HIDE DEF req, pl
<1>3. MailTypes' /\ FewerInvitations
  BY <1>0, <1>m, NoMailInvitesNobody
<1>4. AgentTypes'
  BY <1>0, <1>1, <1>2, <1>m DEF AgentTypes, Stops
<1>5. Alone(a) /\ Quiet(a)
  BY <1>0, <1>2, <1>h, <1>m DEF AgentTypes, Alone, Quiet, Active, Resigned
<1>6. InHand(a)'
  <2>1. /\ pc'[a] = "cores" /\ plan'[a] = pl /\ out'[a] = <<>> /\ request'[a] = req
    BY <1>0, <1>h, <1>m DEF AgentTypes
  <2>2. RequestInHand("cores", req)
    BY <1>1 DEF RequestInHand, Managing
  <2>3. PlanInHand(a, "cores", pl)
    BY <1>2 DEF PlanInHand, Planning, Managing
  <2>. QED
    BY <2>1, <2>2, <2>3, NothingOut DEF InHand
<1>. QED
  BY <1>0, <1>h, <1>3, <1>4, <1>5, <1>6, PrivateStep

LEMMA LocateCenterKeeps ==
    ASSUME EInv, NEW a \in Agents, LocateCenter(a)
    PROVE  EInv'
<1>h. a \in Holders
  BY Threads
<1>m. MailTypes /\ AgentTypes /\ InHand(a) /\ plan[a] \in Plans
  BY <1>h, AgentParts
<1>0. /\ pc[a] = "next" /\ out[a] = <<>> /\ plan[a].todo # <<>>
      /\ pc' = [pc EXCEPT ![a] = "center"]
      /\ UNCHANGED <<out, owned, reserved, request, plan, self, why>> /\ Elsewhere
  BY DEF LocateCenter, At, Goto
<1>1. PICK center \in CenterRead(a) : queue' = With(queue, Locate(a, center))
  BY DEF LocateCenter
<1>2. center \in Cores
  BY <1>0, <1>1, <1>h, <1>m, CenterReadType
<1>3. plan[a].core # None
  BY <1>0, <1>m, InHandParts DEF PlanInHand, Planning
<1>4. MailTypes' /\ FewerInvitations
  <2>1. Locate(a, center) \in Posts /\ Locate(a, center).msg.kind # "INVADE"
    BY <1>2, <1>h, PostsMade DEF Locate
  <2>. QED
    BY <1>0, <1>1, <1>m, <2>1, SendInvitesNobody
<1>5. AgentTypes'
  BY <1>0, <1>m DEF AgentTypes, Stops
<1>6. Alone(a) /\ Quiet(a)
  BY <1>0, <1>3, <1>h, <1>m DEF AgentTypes, Alone, Quiet, Active, Resigned
<1>7. InHand(a)'
  <2>1. /\ pc'[a] = "center" /\ plan'[a] = plan[a] /\ out'[a] = <<>> /\ request'[a] = request[a]
    BY <1>0, <1>h, <1>m DEF AgentTypes
  <2>2. RequestInHand("center", request[a])
    BY <1>0, <1>m, InHandParts DEF RequestInHand, Managing
  <2>3. PlanInHand(a, "center", plan[a])
    BY <1>0, <1>3 DEF PlanInHand, Planning, Managing
  <2>. QED
    BY <2>1, <2>2, <2>3, NothingOut DEF InHand
<1>. QED
  BY <1>0, <1>h, <1>4, <1>5, <1>6, <1>7, PrivateStep

LEMMA CenterLocatedKeeps ==
    ASSUME EInv, NEW a \in Agents, CenterLocated(a)
    PROVE  EInv'
<1>h. a \in Holders
  BY Threads
<1>0. /\ CanTake(a) /\ pc[a] = "center" /\ Message(a).kind = "INFO" /\ Message(a).agent # Null
      /\ UNCHANGED <<out, owned, reserved, self, why>> /\ Elsewhere
  BY DEF CenterLocated, Takes
<1>m. MailTypes /\ AgentTypes /\ InHand(a) /\ plan[a] \in Plans /\ out[a] = <<>>
  BY <1>0, <1>h, AgentParts DEF CanTake
<1>1. /\ plan[a].todo # <<>> /\ plan[a].core # None
      /\ request[a] = NoRequest
  BY <1>0, <1>m, InHandParts DEF PlanInHand, Planning, Piece, RequestInHand, Managing
<1>2. CASE Message(a).agent = a
  <2>. DEFINE req == Handling(Piece(a).region, a, 0)
              pl == Shortened(a)
  <2>1. /\ pc' = [pc EXCEPT ![a] = "cores"] /\ request' = [request EXCEPT ![a] = req]
        /\ plan' = [plan EXCEPT ![a] = pl] /\ queue' = Taken(a)
    BY <1>1, <1>2, <1>h, <1>m, BeginIsHandling, PoppedIsShortened DEF CenterLocated
  <2>2. req \in Requests /\ req.invader # None /\ req.left = 0 /\ req.response = <<>>
    <3>1. Piece(a).region \in RegionsHere /\ 0 \in 0 .. N + 1
      BY <1>1, <1>h, <1>m, PieceType, Threads
    <3>. QED
      BY <3>1, RequestsMade
  <2>3. pl \in Plans /\ pl.core = plan[a].core
    BY <1>1, <1>h, <1>m, PoppedIsShortened
  <2>. HIDE DEF req, pl
  <2>4. MailTypes' /\ FewerInvitations
    BY <1>0, <1>h, <1>m, <2>1, ReceiveInvitesNobody
  <2>5. AgentTypes'
    BY <1>0, <2>1, <2>2, <2>3, <1>m DEF AgentTypes, Stops
  <2>6. Alone(a) /\ Quiet(a)
    BY <1>0, <1>1, <2>1, <2>3, <1>h, <1>m DEF AgentTypes, Alone, Quiet, Active, Resigned
  <2>7. InHand(a)'
    <3>1. /\ pc'[a] = "cores" /\ plan'[a] = pl /\ out'[a] = <<>> /\ request'[a] = req
      BY <1>0, <2>1, <1>h, <1>m DEF AgentTypes
    <3>2. RequestInHand("cores", req)
      BY <2>2 DEF RequestInHand, Managing
    <3>3. PlanInHand(a, "cores", pl)
      BY <1>1, <2>3 DEF PlanInHand, Planning, Managing
    <3>. QED
      BY <3>1, <3>2, <3>3, NothingOut DEF InHand
  <2>. QED
    BY <1>0, <1>h, <2>4, <2>5, <2>6, <2>7, PrivateStep
<1>3. CASE Message(a).agent # a
  <2>1. pc' = [pc EXCEPT ![a] = "center again"] /\ UNCHANGED <<plan, request>>
    BY <1>3 DEF CenterLocated, Goto
  <2>2. PICK center \in CenterRead(a) : queue' = With(Taken(a), Locate(a, center))
    BY <1>3 DEF CenterLocated
  <2>3. Locate(a, center) \in Posts /\ Locate(a, center).msg.kind # "INVADE"
    <3>1. center \in Cores
      BY <1>1, <1>h, <1>m, <2>2, CenterReadType
    <3>. QED
      BY <1>h, <3>1, PostsMade DEF Locate
  <2>4. MailTypes' /\ FewerInvitations
    BY <1>0, <1>h, <1>m, <2>2, <2>3, AnswerInvitesNobody
  <2>5. AgentTypes'
    BY <1>0, <2>1, <1>m DEF AgentTypes, Stops
  <2>6. Alone(a) /\ Quiet(a)
    BY <1>0, <2>1, <1>h, <1>m DEF AgentTypes, Alone, Quiet, Active, Resigned
  <2>7. InHand(a)'
    <3>1. /\ pc'[a] = "center again" /\ plan'[a] = plan[a] /\ out'[a] = <<>>
          /\ request'[a] = request[a]
      BY <1>0, <2>1, <1>h, <1>m DEF AgentTypes
    <3>2. RequestInHand("center again", request[a])
      BY <1>1 DEF RequestInHand, Managing
    <3>3. PlanInHand(a, "center again", plan[a])
      BY <1>1 DEF PlanInHand, Planning, Managing, Piece
    <3>. QED
      BY <3>1, <3>2, <3>3, NothingOut DEF InHand
  <2>. QED
    BY <1>0, <1>h, <2>4, <2>5, <2>6, <2>7, PrivateStep
<1>. QED
  BY <1>2, <1>3

LEMMA SendRequestKeeps ==
    ASSUME EInv, NEW a \in Agents, SendRequest(a)
    PROVE  EInv'
<1>h. a \in Holders
  BY Threads
<1>. DEFINE s == [to |-> Message(a).agent,
                  msg |-> [kind |-> "REQUEST", from |-> a, region |-> Piece(a).region]]
            pl == Shortened(a)
<1>0. /\ CanTake(a) /\ pc[a] = "center again" /\ Message(a).kind = "INFO"
      /\ Message(a).agent # Null
      /\ queue' = With(Taken(a), s) /\ pc' = [pc EXCEPT ![a] = "next"]
      /\ UNCHANGED <<out, owned, reserved, request, self, why>> /\ Elsewhere
  BY DEF SendRequest, Takes, Goto
<1>m. MailTypes /\ AgentTypes /\ InHand(a) /\ plan[a] \in Plans /\ out[a] = <<>>
  BY <1>0, <1>h, AgentParts DEF CanTake
<1>1. plan[a].todo # <<>> /\ plan[a].core # None /\ request[a] = NoRequest
  BY <1>0, <1>m, InHandParts DEF PlanInHand, Planning, RequestInHand, Managing
<1>2. /\ plan' = [plan EXCEPT ![a] = pl] /\ pl \in Plans /\ pl.core = plan[a].core
  BY <1>1, <1>h, <1>m, PoppedIsShortened DEF SendRequest
<1>3. s \in Posts /\ s.msg.kind # "INVADE"
  <2>1. Message(a).agent \in Holders
    BY <1>0, <1>h, <1>m, MessageType, MessageParts
  <2>2. Message(a).agent \in Mailboxes
    BY <2>1, MailboxesAreFinite
  <2>3. Piece(a).region \in RegionsHere
    BY <1>1, <1>h, <1>m, PieceType
  <2>. QED
    BY <2>2, <2>3 DEF Posts, Messages
<1>. HIDE DEF s, pl
<1>4. MailTypes' /\ FewerInvitations
  BY <1>0, <1>h, <1>m, <1>3, AnswerInvitesNobody
<1>5. AgentTypes'
  BY <1>0, <1>2, <1>m DEF AgentTypes, Stops
<1>6. Alone(a) /\ Quiet(a)
  BY <1>0, <1>1, <1>2, <1>h, <1>m DEF AgentTypes, Alone, Quiet, Active, Resigned
<1>7. InHand(a)'
  <2>1. /\ pc'[a] = "next" /\ plan'[a] = pl /\ out'[a] = <<>> /\ request'[a] = NoRequest
    BY <1>0, <1>1, <1>2, <1>h, <1>m DEF AgentTypes
  <2>2. RequestInHand("next", NoRequest)
    BY DEF RequestInHand, Managing
  <2>3. PlanInHand(a, "next", pl)
    BY <1>1, <1>2 DEF PlanInHand, Planning, Managing
  <2>. QED
    BY <2>1, <2>2, <2>3, NothingOut DEF InHand
<1>. QED
  BY <1>0, <1>h, <1>4, <1>5, <1>6, <1>7, PrivateStep

LEMMA AllRequestedKeeps ==
    ASSUME EInv, NEW a \in Agents, AllRequested(a)
    PROVE  EInv'
<1>h. a \in Holders
  BY Threads
<1>0. /\ pc[a] = "next" /\ out[a] = <<>> /\ pc' = [pc EXCEPT ![a] = "responses"]
      /\ UNCHANGED <<queue, out, owned, reserved, request, plan, self, why>> /\ Elsewhere
  BY DEF AllRequested, At, Goto
<1>m. MailTypes /\ AgentTypes /\ InHand(a)
  BY <1>h, AgentParts
<1>4. MailTypes' /\ FewerInvitations
  BY <1>0, <1>m, NoMailInvitesNobody
<1>5. AgentTypes'
  BY <1>0, <1>m DEF AgentTypes, Stops
<1>6. Alone(a) /\ Quiet(a)
  BY <1>0, <1>h, <1>m DEF AgentTypes, Alone, Quiet, Active, Resigned
<1>7. InHand(a)'
  <2>1. /\ pc'[a] = "responses" /\ plan'[a] = plan[a] /\ out'[a] = <<>>
        /\ request'[a] = request[a]
    BY <1>0, <1>h, <1>m DEF AgentTypes
  <2>2. RequestInHand("responses", request[a])
    BY <1>0, <1>m, InHandParts DEF RequestInHand, Managing
  <2>3. PlanInHand(a, "responses", plan[a])
    BY <1>0, <1>m, InHandParts DEF PlanInHand, Planning, Managing
  <2>. QED
    BY <2>1, <2>2, <2>3, NothingOut DEF InHand
<1>. QED
  BY <1>0, <1>h, <1>4, <1>5, <1>6, <1>7, PrivateStep

LEMMA CollectResponseKeeps ==
    ASSUME EInv, NEW a \in Agents, CollectResponse(a)
    PROVE  EInv'
<1>h. a \in Holders
  BY Threads
<1>. DEFINE view == Concat(plan[a].offers, Message(a).cores)
            pl == [plan[a] EXCEPT !.awaited = plan[a].awaited - 1, !.offers = view]
<1>0. /\ CanTake(a) /\ Message(a).kind = "OFFER" /\ pc[a] = "responses" /\ queue' = Taken(a)
      /\ plan[a].awaited > 0
      /\ plan' = [plan EXCEPT ![a] = pl]
      /\ UNCHANGED <<out, pc, owned, reserved, request, self, why>> /\ Elsewhere
  BY DEF CollectResponse, Takes
<1>m. MailTypes /\ AgentTypes /\ InHand(a) /\ plan[a] \in Plans /\ out[a] = <<>>
  BY <1>0, <1>h, AgentParts DEF CanTake
<1>1. Message(a) \in Messages /\ Message(a).cores \in Offers
  BY <1>0, <1>h, <1>m, MessageType, MessageParts
<1>2. MailTypes' /\ FewerInvitations
  BY <1>0, <1>h, <1>m, ReceiveInvitesNobody
<1>3. view \in Offers /\ plan[a].awaited - 1 \in Nat /\ plan[a].core # None
  <2>1. plan[a].offers \in Offers /\ plan[a].awaited \in Nat
    BY <1>m DEF Plans
  <2>2. plan[a].core # None
    BY <1>0, <1>m, InHandParts DEF PlanInHand, Planning
  <2>. QED
    BY <1>0, <1>1, <2>1, <2>2, OffersAreViews
<1>. HIDE DEF view
<1>4. pl \in Plans /\ pl.core = plan[a].core
  BY <1>3, <1>m DEF Plans
<1>. HIDE DEF pl
<1>5. AgentTypes'
  BY <1>0, <1>4, <1>m DEF AgentTypes
<1>6. Alone(a) /\ Quiet(a)
  BY <1>0, <1>h, <1>4, <1>m DEF AgentTypes, Alone, Quiet, Active, Resigned
<1>7. InHand(a)'
  <2>1. pc'[a] = "responses" /\ plan'[a] = pl /\ out'[a] = <<>> /\ request'[a] = request[a]
    BY <1>0, <1>h, <1>m DEF AgentTypes
  <2>2. RequestInHand("responses", request[a])
    BY <1>0, <1>m, InHandParts
  <2>3. PlanInHand(a, "responses", pl)
    BY <1>3, <1>4 DEF PlanInHand, Planning, Managing
  <2>. QED
    BY <2>1, <2>2, <2>3, NothingOut DEF InHand
<1>. QED
  BY <1>0, <1>h, <1>2, <1>5, <1>6, <1>7, PrivateStep

LEMMA TryAgainKeeps ==
    ASSUME EInv, NEW a \in Agents, TryAgain(a)
    PROVE  EInv'
<1>h. a \in Holders
  BY Threads
<1>. DEFINE pl == [plan[a] EXCEPT !.tries = plan[a].tries + 1]
<1>0. /\ pc[a] = "responses" /\ out[a] = <<>> /\ plan[a].tries + 1 < TryLimit
      /\ plan' = [plan EXCEPT ![a] = pl] /\ pc' = [pc EXCEPT ![a] = "try"]
      /\ UNCHANGED <<queue, out, owned, reserved, request, self, why>> /\ Elsewhere
  BY DEF TryAgain, At, Goto
<1>m. MailTypes /\ AgentTypes /\ InHand(a) /\ plan[a] \in Plans
  BY <1>h, AgentParts
<1>1. plan[a].core # None /\ request[a] = NoRequest
  BY <1>0, <1>m, InHandParts DEF PlanInHand, Planning, RequestInHand, Managing
<1>2. pl \in Plans /\ pl.core = plan[a].core
  <2>1. plan[a].tries \in 0 .. TryLimit /\ TryLimit \in Nat
    BY <1>m, OptionsAssumption DEF Plans
  <2>2. plan[a].tries + 1 \in 0 .. TryLimit
    BY <1>0, <2>1
  <2>. QED
    BY <2>2, <1>m DEF Plans
<1>. HIDE DEF pl
<1>4. MailTypes' /\ FewerInvitations
  BY <1>0, <1>m, NoMailInvitesNobody
<1>5. AgentTypes'
  BY <1>0, <1>2, <1>m DEF AgentTypes, Stops
<1>6. Alone(a) /\ Quiet(a)
  BY <1>0, <1>1, <1>2, <1>h, <1>m DEF AgentTypes, Alone, Quiet, Active, Resigned
<1>7. InHand(a)'
  <2>1. /\ pc'[a] = "try" /\ plan'[a] = pl /\ out'[a] = <<>> /\ request'[a] = NoRequest
    BY <1>0, <1>1, <1>h, <1>m DEF AgentTypes
  <2>2. RequestInHand("try", NoRequest)
    BY DEF RequestInHand, Managing
  <2>3. PlanInHand(a, "try", pl)
    BY <1>1, <1>2, <1>h DEF PlanInHand, Planning, Managing
  <2>. QED
    BY <2>1, <2>2, <2>3, NothingOut DEF InHand
<1>. QED
  BY <1>0, <1>h, <1>4, <1>5, <1>6, <1>7, PrivateStep

LEMMA TakeOverKeeps ==
    ASSUME EInv, NEW a \in Agents, TakeOver(a)
    PROVE  EInv'
<1>h. a \in Holders
  BY Threads
<1>0. /\ pc[a] = "responses" /\ out[a] = <<>> /\ pc' = [pc EXCEPT ![a] = "round over"]
      /\ UNCHANGED <<queue, reserved, request, self, why>> /\ Elsewhere
  BY DEF TakeOver, At, Goto
<1>m. MailTypes /\ AgentTypes /\ InHand(a) /\ plan[a] \in Plans
  BY <1>h, AgentParts
<1>k. plan[a].core # None /\ plan[a].core \in Cores /\ request[a] = NoRequest
      /\ plan[a].offers \in Offers
  <2>1. plan[a].core # None /\ request[a] = NoRequest
    BY <1>0, <1>m, InHandParts DEF PlanInHand, Planning, RequestInHand, Managing
  <2>. QED
    BY <2>1, <1>m DEF Plans
<1>1. PICK taken \in SUBSET Offered(a) :
          /\ Sends(a, Answers(a, taken))
          /\ owned' = [owned EXCEPT ![a] = @ \union taken]
          /\ plan' = [plan EXCEPT ![a] = Planned(plan[a].core, Cardinality(taken))]
  BY DEF TakeOver
<1>. DEFINE list == Answers(a, taken)
            pl == Planned(plan[a].core, Cardinality(taken))
<1>t. taken \subseteq Cores
  BY <1>k, OffersAreViews DEF Offered
<1>2. pl \in Plans /\ pl.core = plan[a].core /\ pl.awaited = 0 /\ pl.offers = <<>>
  <2>1. Cardinality(taken) \in 0 .. Cardinality(Cores)
    <3>1. Cardinality(taken) \in Nat /\ Cardinality(taken) <= Cardinality(Cores)
      BY <1>t, SubsetOfCores
    <3>. QED
      BY <3>1, CoresAreNumbers
  <2>. QED
    BY <2>1, <1>k, PlansMade
<1>3. list \in Seq(Posts)
      /\ \A i \in DOMAIN list : list[i].msg.kind \in {"ACCEPT", "REJECT", "REGISTER"}
                                   /\ list[i].msg.from = a
  <2>1. list \in Seq(Posts)
    BY <1>h, <1>k, AnswersAre
  <2>2. ASSUME NEW i \in DOMAIN list
        PROVE  list[i].msg.kind \in {"ACCEPT", "REJECT", "REGISTER"} /\ list[i].msg.from = a
    <3>1. \/ \E c \in Offered(a) : list[i] = Answered(a, taken, c)
          \/ \E c \in taken : list[i] = Register(a, c)
      BY <1>h, <1>k, AnswersAre
    <3>2. ASSUME NEW c, list[i] = Answered(a, taken, c)
          PROVE  list[i].msg.kind \in {"ACCEPT", "REJECT"} /\ list[i].msg.from = a
      BY <3>2 DEF Answered, Reply
    <3>3. ASSUME NEW c, list[i] = Register(a, c)
          PROVE  list[i].msg.kind = "REGISTER" /\ list[i].msg.from = a
      BY <3>3 DEF Register
    <3>. QED
      BY <3>1, <3>2, <3>3
  <2>. QED
    BY <2>1, <2>2
<1>. HIDE DEF list, pl
<1>s. Sends(a, list)
  BY <1>1 DEF list
<1>p. plan' = [plan EXCEPT ![a] = pl]
  BY <1>1 DEF pl
<1>o. out' = [out EXCEPT ![a] = list]
  BY <1>s DEF Sends
<1>4. MailTypes' /\ FewerInvitations
  BY <1>0, <1>h, <1>m, <1>3, <1>s, FillInvitesNobody
<1>5. AgentTypes'
  <2>1. owned' \in [Holders -> SUBSET Cores]
    BY <1>1, <1>t, <1>h, <1>m DEF AgentTypes
  <2>. QED
    BY <1>0, <1>2, <1>p, <1>m, <2>1 DEF AgentTypes, Stops
<1>6. Alone(a) /\ Quiet(a)
  <2>1. Alone(a)
    BY <1>0, <1>p, <1>o, <1>h, <1>m DEF AgentTypes, MailTypes, Alone
  <2>2. Quiet(a)
    BY <1>0, <1>p, <1>k, <1>2, <1>h, <1>m DEF AgentTypes, Quiet, Active, Resigned
  <2>. QED
    BY <2>1, <2>2
<1>7. InHand(a)'
  <2>1. /\ pc'[a] = "round over" /\ plan'[a] = pl /\ out'[a] = list /\ request'[a] = NoRequest
    BY <1>0, <1>k, <1>p, <1>o, <1>h, <1>m DEF AgentTypes, MailTypes
  <2>2. RequestInHand("round over", NoRequest)
    BY DEF RequestInHand, Managing
  <2>3. PlanInHand(a, "round over", pl)
    BY <1>k, <1>2, <1>h DEF PlanInHand, Planning, Managing
  <2>4. OutInHand(a, "round over", list)
    BY <1>3 DEF OutInHand, Outgoing
  <2>. QED
    BY <2>1, <2>2, <2>3, <2>4 DEF InHand
<1>. QED
  BY <1>0, <1>h, <1>4, <1>5, <1>6, <1>7, PrivateStep

LEMMA StopKeeps ==
    ASSUME EInv, NEW a \in Agents, Stop(a)
    PROVE  EInv'
<1>h. a \in Holders
  BY Threads
<1>0. /\ pc[a] = "ending" /\ out[a] = <<>>
      /\ UNCHANGED <<out, owned, reserved, request, plan, self, why>> /\ Elsewhere
  BY DEF Stop, At
<1>m. MailTypes /\ AgentTypes /\ InHand(a)
  BY <1>h, AgentParts
<1>. DEFINE s == [to |-> Idle, msg |-> [kind |-> "END", from |-> a]]
<1>1. \/ pc' = [pc EXCEPT ![a] = "stopped"] /\ UNCHANGED queue
      \/ pc' = [pc EXCEPT ![a] = "last"] /\ queue' = With(queue, s)
  BY DEF Stop, Goto
<1>2. s \in Posts /\ s.msg.kind # "INVADE"
  <2>1. Idle \in Mailboxes
    BY Threads, MailboxesAreFinite
  <2>. QED
    BY <1>h, <2>1 DEF Posts, Messages
<1>. HIDE DEF s
<1>4. MailTypes' /\ FewerInvitations
  <2>1. CASE UNCHANGED queue
    BY <1>0, <1>m, <2>1, NoMailInvitesNobody
  <2>2. CASE queue' = With(queue, s)
    BY <1>0, <1>m, <1>2, <2>2, SendInvitesNobody
  <2>. QED
    BY <1>1, <2>1, <2>2
<1>5. AgentTypes'
  BY <1>0, <1>1, <1>m DEF AgentTypes, Stops
<1>6. Alone(a) /\ Quiet(a)
  BY <1>0, <1>1, <1>h, <1>m DEF AgentTypes, Alone, Quiet, Active, Resigned
<1>7. InHand(a)'
  <2>1. /\ pc'[a] \in {"stopped", "last"} /\ plan'[a] = plan[a] /\ out'[a] = <<>>
        /\ request'[a] = request[a]
    BY <1>0, <1>1, <1>h, <1>m DEF AgentTypes
  <2>2. RequestInHand(pc'[a], request[a])
    BY <1>0, <1>m, <2>1, InHandParts DEF RequestInHand, Managing
  <2>3. PlanInHand(a, pc'[a], plan[a])
    BY <1>0, <1>m, <2>1, InHandParts DEF PlanInHand, Planning, Managing
  <2>. QED
    BY <2>1, <2>2, <2>3, NothingOut DEF InHand
<1>. QED
  BY <1>0, <1>h, <1>4, <1>5, <1>6, <1>7, PrivateStep

-----------------------------------------------------------------------------
(* Steps of other threads, and steps that end one.                         *)
LEMMA BackgroundStep ==
    ASSUME EInv, UNCHANGED <<out, pc, owned, reserved, request, plan, self, why, electionVars>>,
           MailTypes', ClusterTypes', MainTypes', Barrier!TypeOK',
           \A b \in Agents : Invitations(b)' <= Invitations(b) /\ Invitations(b)' \in Nat
    PROVE  EInv'
<1>1. AgentTypes' /\ ElectionTypes'
  BY DEF EInv, AgentTypes, ElectionTypes, electionVars
<1>2. LocalInv'
  <2>1. ASSUME NEW b \in Holders PROVE InHand(b)'
    BY DEF EInv, LocalInv, InHand
  <2>. QED
    BY <2>1 DEF LocalInv
<1>3. ElectionInv'
  <2>0. ElectionInv /\ UNCHANGED <<ready, invading_agent, self, pc, plan>>
    BY DEF EInv, electionVars
  <2>1. ASSUME NEW b \in Agents
        PROVE  Invitations(b) \in Nat /\ Invitations(b)' <= Invitations(b) /\ Invitations(b)' \in Nat
    BY InvitationsType DEF EInv
  <2>2. ASSUME Gathering PROVE Gathering'
    <3>1. ASSUME NEW b \in Agents
          PROVE  Invitations(b)' + (IF pc'[b] = "electing" THEN 1 ELSE 0) <= 1
      <4>1. Invitations(b) + (IF pc[b] = "electing" THEN 1 ELSE 0) <= 1
        BY <2>2 DEF Gathering
      <4>. QED
        BY <2>0, <2>1, <4>1
    <3>2. ready' = Cardinality(Electing') /\ \A b \in Agents : ~ Active(b)'
      BY <2>0, <2>2 DEF Gathering, Electing, Active
    <3>3. invading_agent' # None => pc'[invading_agent'] = "electing"
      BY <2>0, <2>2 DEF Gathering
    <3>. QED
      BY <3>1, <3>2, <3>3 DEF Gathering
  <2>3. ASSUME Decided PROVE Decided'
    <3>1. ASSUME NEW b \in Agents PROVE Invitations(b)' = 0
      <4>1. Invitations(b) = 0
        BY <2>3 DEF Decided
      <4>. QED
        BY <2>1, <4>1
    <3>2. Electing' = {} /\ \A b \in Agents : Active(b)' <=> Active(b)
      BY <2>0, <2>3 DEF Decided, Electing, Active
    <3>3. invading_agent' = None =>
             \A b \in Agents : pc'[b] \in {"unwon", "ending", "last", "stopped"}
      BY <2>0, <2>3 DEF Decided
    <3>4. invading_agent' # None => \A b \in Agents : Active(b)' <=> b = invading_agent'
      BY <2>0, <2>3, <3>2 DEF Decided
    <3>. QED
      BY <3>1, <3>2, <3>3, <3>4 DEF Decided
  <2>4. /\ ready' <= N
        /\ \A b \in Holders : self'[b].rounds <= MaxRounds
        /\ invading_agent' # None => self'[invading_agent'].rounds < MaxRounds
    BY <2>0 DEF ElectionInv
  <2>5. (ready' < N => Gathering') /\ (ready' = N => Decided')
    BY <2>0, <2>2, <2>3 DEF ElectionInv
  <2>. QED
    BY <2>4, <2>5 DEF ElectionInv
<1>. QED
  BY <1>1, <1>2, <1>3 DEF EInv

(* No message and nothing of the main thread changes. *)
LEMMA SameInvitations ==
    ASSUME MailTypes, UNCHANGED <<queue, out, main>>
    PROVE  /\ MailTypes'
           /\ \A b \in Agents : Invitations(b)' <= Invitations(b) /\ Invitations(b)' \in Nat
<1>1. MailTypes' /\ FewerInvitations
  BY NoMailInvitesNobody
<1>. QED
  BY <1>1, FewerIsLess

LEMMA BarrierKeeps ==
    ASSUME EInv, NEW a \in Agents, EnterRegion(a) \/ LeaveRegion(a) \/ PassBarrier(a)
    PROVE  EInv'
<1>0. UNCHANGED <<agentVars, electionVars, clusterVars, mainVars, crashed>>
  BY DEF EnterRegion, LeaveRegion, PassBarrier
<1>1. Barrier!StartROI(a) \/ Barrier!StopROI(a) \/ Barrier!Return(a)
  BY DEF EnterRegion, LeaveRegion, PassBarrier
<1>2. roiReady \in Nat /\ roi \in [Agents -> Barrier!Stages]
  BY DEF EInv, Barrier!TypeOK
<1>3. Barrier!Broadcast \in [Agents -> Barrier!Stages]
  BY <1>2 DEF Barrier!Broadcast, Barrier!Stages
<1>4. roiReady' \in Nat
  BY <1>1, <1>2 DEF Barrier!StartROI, Barrier!StopROI, Barrier!Return
<1>5. roi' \in [Agents -> Barrier!Stages]
  <2>1. ASSUME Barrier!StartROI(a) PROVE roi' \in [Agents -> Barrier!Stages]
    <3>1. \/ roi' = [Barrier!Broadcast EXCEPT ![a] = "inside"]
          \/ roi' = [roi EXCEPT ![a] = "waitStart"]
      BY <2>1 DEF Barrier!StartROI
    <3>2. "inside" \in Barrier!Stages /\ "waitStart" \in Barrier!Stages
      BY DEF Barrier!Stages
    <3>. QED
      BY <1>2, <1>3, <3>1, <3>2
  <2>2. ASSUME Barrier!StopROI(a) PROVE roi' \in [Agents -> Barrier!Stages]
    <3>1. \/ roi' = [Barrier!Broadcast EXCEPT ![a] = "outside"]
          \/ roi' = [roi EXCEPT ![a] = "outside"]
          \/ roi' = [roi EXCEPT ![a] = "waitStop"]
      BY <2>2, <1>2 DEF Barrier!StopROI
    <3>2. "outside" \in Barrier!Stages /\ "waitStop" \in Barrier!Stages
      BY DEF Barrier!Stages
    <3>. QED
      BY <1>2, <1>3, <3>1, <3>2
  <2>3. ASSUME Barrier!Return(a) PROVE roi' \in [Agents -> Barrier!Stages]
    BY <1>2, <2>3 DEF Barrier!Return, Barrier!Stages
  <2>. QED
    BY <1>1, <2>1, <2>2, <2>3
<1>6. Barrier!TypeOK'
  BY <1>4, <1>5 DEF Barrier!TypeOK
<1>7. ClusterTypes' /\ MainTypes'
  BY <1>0 DEF EInv, ClusterTypes, MainTypes, clusterVars, mainVars
<1>8. UNCHANGED <<queue, out, pc, owned, reserved, request, plan, self, why, electionVars, main>>
  BY <1>0 DEF agentVars, mainVars
<1>9. /\ MailTypes'
      /\ \A b \in Agents : Invitations(b)' <= Invitations(b) /\ Invitations(b)' \in Nat
  BY <1>8, SameInvitations DEF EInv
<1>. QED
  BY <1>6, <1>7, <1>8, <1>9, BackgroundStep

LEMMA FollowNullKeeps ==
    ASSUME EInv, FollowNull
    PROVE  EInv'
<1>0. /\ crashed' = TRUE
      /\ UNCHANGED <<agentVars, electionVars, clusterVars, roiReady, roi, mainVars>>
  BY DEF FollowNull
<1>7. ClusterTypes' /\ MainTypes'
  BY <1>0 DEF EInv, ClusterTypes, MainTypes, clusterVars, mainVars
<1>6. Barrier!TypeOK'
  BY <1>0 DEF EInv, Barrier!TypeOK
<1>8. UNCHANGED <<queue, out, pc, owned, reserved, request, plan, self, why, electionVars, main>>
  BY <1>0 DEF agentVars, mainVars
<1>9. /\ MailTypes'
      /\ \A b \in Agents : Invitations(b)' <= Invitations(b) /\ Invitations(b)' \in Nat
  BY <1>8, SameInvitations DEF EInv
<1>. QED
  BY <1>6, <1>7, <1>8, <1>9, BackgroundStep

LEMMA NothingChangesKeeps ==
    ASSUME EInv, UNCHANGED vars
    PROVE  EInv'
<1>0. UNCHANGED <<agentVars, electionVars, clusterVars, roiReady, roi, mainVars, crashed>>
  BY DEF vars
<1>7. ClusterTypes' /\ MainTypes'
  BY <1>0 DEF EInv, ClusterTypes, MainTypes, clusterVars, mainVars
<1>6. Barrier!TypeOK'
  BY <1>0 DEF EInv, Barrier!TypeOK
<1>8. UNCHANGED <<queue, out, pc, owned, reserved, request, plan, self, why, electionVars, main>>
  BY <1>0 DEF agentVars, mainVars
<1>9. /\ MailTypes'
      /\ \A b \in Agents : Invitations(b)' <= Invitations(b) /\ Invitations(b)' \in Nat
  BY <1>8, SameInvitations DEF EInv
<1>. QED
  BY <1>6, <1>7, <1>8, <1>9, BackgroundStep

(* A directory takes a message and answers it, or not.                     *)
LEMMA DirectoryMail ==
    ASSUME MailTypes, NEW d \in Directories, queue[d] # <<>>, UNCHANGED out, NEW P
    PROVE  /\ Head(queue[d]) \in Messages
           /\ queue' = [queue EXCEPT ![d] = Tail(queue[d])] =>
                 /\ MailTypes'
                 /\ UnderWay(P)' = UnderWay(P) - Unit(<<d, Head(queue[d])>>, P)
           /\ \A s \in Posts : queue' = With([queue EXCEPT ![d] = Tail(queue[d])], s) =>
                 /\ MailTypes'
                 /\ UnderWay(P)' = UnderWay(P) - Unit(<<d, Head(queue[d])>>, P)
                                               + Unit(<<s.to, s.msg>>, P)
<1>. DEFINE q == [queue EXCEPT ![d] = Tail(queue[d])]
<1>1. d \in Mailboxes /\ Lists(queue, Mailboxes, Messages) /\ Lists(out, Holders, Posts)
  BY MailboxesAreFinite, MailLists
<1>2. ChangedAt(q, queue, d, Tail(queue[d]))
  BY DEF ChangedAt
<1>. HIDE DEF q
<1>3. /\ Lists(q, Mailboxes, Messages)
      /\ Count(q, P) = Count(queue, P) - Unit(<<d, Head(queue[d])>>, P)
  BY <1>1, <1>2, CountTail
<1>4. Lists(out', Holders, Posts) /\ Count(out', Unposted(P)) = Count(out, Unposted(P))
  BY <1>1
<1>5. /\ Count(queue, P) \in Nat /\ Count(out, Unposted(P)) \in Nat
      /\ \A x : Unit(x, P) \in {0, 1}
  BY UnderWayType, UnitType
<1>6. Head(queue[d]) \in Messages
  <2>1. queue[d] \in Seq(Messages)
    BY <1>1 DEF MailTypes
  <2>. QED
    BY <2>1
<1>7. ASSUME queue' = q
      PROVE  MailTypes' /\ UnderWay(P)' = UnderWay(P) - Unit(<<d, Head(queue[d])>>, P)
  <2>1. MailTypes'
    <3>1. Lists(queue', Mailboxes, Messages)
      BY <1>3, <1>7
    <3>. QED
      BY <1>4, <3>1, MailAfter
  <2>2. UnderWay(P)' = Count(queue', P) + Count(out', Unposted(P))
    BY DEF UnderWay
  <2>. QED
    BY <1>3, <1>4, <1>5, <1>7, <2>1, <2>2 DEF UnderWay
<1>8. ASSUME NEW s \in Posts, queue' = With(q, s)
      PROVE  /\ MailTypes'
             /\ UnderWay(P)' = UnderWay(P) - Unit(<<d, Head(queue[d])>>, P)
                                           + Unit(<<s.to, s.msg>>, P)
  <2>0. /\ Lists(With(q, s), Mailboxes, Messages)
        /\ Count(With(q, s), P) = Count(q, P) + Unit(<<s.to, s.msg>>, P)
    BY <1>3, WithCounts
  <2>1. MailTypes'
    <3>1. Lists(queue', Mailboxes, Messages)
      BY <1>8, <2>0
    <3>. QED
      BY <1>4, <3>1, MailAfter
  <2>2. UnderWay(P)' = Count(queue', P) + Count(out', Unposted(P))
    BY DEF UnderWay
  <2>. QED
    BY <1>3, <1>4, <1>5, <1>8, <2>0, <2>1, <2>2 DEF UnderWay
<1>. QED
  BY <1>6, <1>7, <1>8 DEF q

LEMMA DirectoryKeeps ==
    ASSUME EInv, NEW d \in Directories, DirectoryStep(d)
    PROVE  EInv'
<1>. DEFINE m == Head(queue[d])
            s == [to |-> m.from,
                  msg |-> [kind |-> "INFO", from |-> d, core |-> m.core,
                           agent |-> directory[m.core]]]
            q == [queue EXCEPT ![d] = Tail(queue[d])]
<1>0. /\ queue[d] # <<>> /\ m.kind \in {"REGISTER", "LOCATE", "END"}
      /\ UNCHANGED <<out, pc, owned, reserved, request, plan, self, why,
                     shutdown, electionVars, roiReady, roi, mainVars, crashed>>
  BY DEF DirectoryStep, DirectoryRegisters, DirectoryAnswers, DirectoryEnds, DirectoryTakes
<1>m. MailTypes /\ AgentTypes /\ ClusterTypes
  BY DEF EInv
<1>1. m \in Messages
  BY <1>0, <1>m, DirectoryMail
<1>2. m.kind # "END" => m.from \in Holders /\ m.core \in Cores
  BY <1>0, <1>1, MessageParts
<1>3. m.kind = "LOCATE" => s \in Posts /\ s.msg.kind # "INVADE"
  <2>1. m.kind = "LOCATE" => m.from \in Mailboxes
    BY <1>2, MailboxesAreFinite
  <2>2. m.kind = "LOCATE" => directory[m.core] \in Holders \union {Null}
    BY <1>2, <1>m DEF ClusterTypes
  <2>. QED
    BY <2>1, <2>2, <1>2 DEF Posts, Messages
<1>4. \/ queue' = q
      \/ m.kind = "LOCATE" /\ queue' = With(q, s)
  <2>1. CASE DirectoryRegisters(d) \/ DirectoryEnds(d)
    BY <2>1 DEF DirectoryRegisters, DirectoryEnds
  <2>2. CASE DirectoryAnswers(d)
    <3>1. m.kind = "LOCATE"
      BY <2>2 DEF DirectoryAnswers, DirectoryTakes
    <3>2. m.from # d
      BY <1>2, <3>1, DirectoryIsNoHolder
    <3>3. queue' = [queue EXCEPT ![d] = Tail(queue[d]),
                                 ![m.from] = Append(queue[m.from], s.msg)]
      BY <2>2, <3>2 DEF DirectoryAnswers
    <3>4. With(q, s) = [q EXCEPT ![m.from] = Append(q[m.from], s.msg)]
      BY DEF With
    <3>5. q[m.from] = queue[m.from]
      BY <3>2
    <3>. QED
      BY <3>1, <3>3, <3>4, <3>5
  <2>. QED
    BY <2>1, <2>2 DEF DirectoryStep
<1>5. ClusterTypes'
  <2>1. CASE DirectoryRegisters(d)
    <3>1. m.kind = "REGISTER"
      BY <2>1 DEF DirectoryRegisters, DirectoryTakes
    <3>2. directory' = [directory EXCEPT ![m.core] = m.from] /\ UNCHANGED listening
      BY <2>1 DEF DirectoryRegisters
    <3>. QED
      BY <1>0, <1>2, <1>m, <3>1, <3>2 DEF ClusterTypes
  <2>2. CASE DirectoryAnswers(d)
    BY <1>0, <1>m, <2>2 DEF DirectoryAnswers, ClusterTypes
  <2>3. CASE DirectoryEnds(d)
    BY <1>0, <1>m, <2>3 DEF DirectoryEnds, ClusterTypes
  <2>. QED
    BY <2>1, <2>2, <2>3 DEF DirectoryStep
<1>. HIDE DEF m, s, q
<1>6. MailTypes' /\ \A b \in Agents : UnderWay(InvadeTo(b))' <= UnderWay(InvadeTo(b))
  <2>1. ASSUME NEW b PROVE MailTypes' /\ UnderWay(InvadeTo(b))' <= UnderWay(InvadeTo(b))
    <3>. DEFINE P == InvadeTo(b)
    <3>1. m.kind = "LOCATE" => Unit(<<s.to, s.msg>>, P) = 0
      BY <1>3, NoInvitation
    <3>. HIDE DEF P
    <3>2. UNCHANGED out
      BY <1>0
    <3>3. /\ queue' = q => MailTypes' /\ UnderWay(P)' = UnderWay(P) - Unit(<<d, m>>, P)
          /\ m.kind = "LOCATE" /\ queue' = With(q, s) =>
               MailTypes' /\ UnderWay(P)' = UnderWay(P) - Unit(<<d, m>>, P)
                                               + Unit(<<s.to, s.msg>>, P)
      BY <1>0, <1>m, <1>3, <3>2, DirectoryMail DEF m, q
    <3>4. UnderWay(P) \in Nat /\ Unit(<<d, m>>, P) \in {0, 1}
      BY <1>m, UnderWayType, UnitType
    <3>. QED
      BY <1>4, <3>1, <3>3, <3>4 DEF P
  <2>2. \A b \in Agents : UnderWay(InvadeTo(b))' <= UnderWay(InvadeTo(b))
    BY <2>1
  <2>. QED
    BY <2>1, <2>2
<1>7. \A b \in Agents : Invitations(b)' <= Invitations(b) /\ Invitations(b)' \in Nat
  <2>1. FewerInvitations /\ UNCHANGED main
    BY <1>0, <1>6 DEF FewerInvitations, mainVars
  <2>. QED
    BY <1>m, <1>6, <2>1, FewerIsLess
<1>8. Barrier!TypeOK'
  BY <1>0 DEF EInv, Barrier!TypeOK
<1>9. MainTypes'
  BY <1>0 DEF EInv, MainTypes, mainVars
<1>. QED
  BY <1>0, <1>5, <1>6, <1>7, <1>8, <1>9, BackgroundStep

(* The end is announced to every directory at once.                        *)
LEMMA ClusterStopMail ==
    ASSUME MailTypes, ClusterStop, UNCHANGED out, NEW P,
           \A r : <<r, Control("END")>> \notin P
    PROVE  MailTypes' /\ UnderWay(P)' = UnderWay(P)
<1>. DEFINE S == IF shutdown THEN {} ELSE Directories
            m == Control("END")
<1>1. Lists(queue, Mailboxes, Messages) /\ Lists(out, Holders, Posts)
  BY MailLists
<1>2. m \in Messages
  BY DEF Control, Messages
<1>3. Spread(queue', queue, S, m)
  BY DEF ClusterStop, Spread
<1>. HIDE DEF S
<1>4. Lists(queue', Mailboxes, Messages) /\ Count(queue', P) = Count(queue, P)
  <2>. HIDE DEF m
  <2>1. \A r : <<r, m>> \notin P
    BY DEF m
  <2>. QED
    BY <1>1, <1>2, <1>3, <2>1, CountSpread
<1>5. Lists(out', Holders, Posts) /\ Count(out', Unposted(P)) = Count(out, Unposted(P))
  BY <1>1
<1>6. MailTypes'
  BY <1>4, <1>5, MailAfter
<1>. QED
  BY <1>4, <1>5, <1>6 DEF UnderWay

LEMMA ClusterStopInvitesNobody ==
    ASSUME MailTypes, ClusterStop, UNCHANGED out
    PROVE  MailTypes' /\ FewerInvitations
<1>1. ASSUME NEW b
      PROVE  MailTypes' /\ UnderWay(InvadeTo(b))' <= UnderWay(InvadeTo(b))
  <2>. DEFINE P == InvadeTo(b)
  <2>1. \A r : <<r, Control("END")>> \notin P
    BY DEF InvadeTo, Control
  <2>. HIDE DEF P
  <2>2. MailTypes' /\ UnderWay(P)' = UnderWay(P)
    BY <2>1, ClusterStopMail
  <2>3. UnderWay(P) \in Nat
    BY UnderWayType
  <2>. QED
    BY <2>2, <2>3 DEF P
<1>. QED
  BY <1>1 DEF FewerInvitations

LEMMA StopClusterKeeps ==
    ASSUME EInv, NEW a \in Agents, StopCluster(a)
    PROVE  EInv'
<1>h. a \in Holders
  BY Threads
<1>0. /\ pc[a] = "last" /\ out[a] = <<>> /\ ClusterStop /\ pc' = [pc EXCEPT ![a] = "stopped"]
      /\ UNCHANGED <<out, owned, reserved, request, plan, self, why, directory, listening,
                     electionVars, roiReady, roi, mainVars, crashed>>
  BY DEF StopCluster, At, Goto
<1>m. MailTypes /\ AgentTypes /\ InHand(a)
  BY <1>h, AgentParts
<1>1. MailTypes' /\ FewerInvitations
  BY <1>0, <1>m, ClusterStopInvitesNobody
<1>2. AgentTypes'
  BY <1>0, <1>m DEF AgentTypes, Stops
<1>3. Alone(a) /\ Quiet(a)
  BY <1>0, <1>h, <1>m DEF AgentTypes, Alone, Quiet, Active, Resigned
<1>4. InHand(a)'
  <2>1. /\ pc'[a] = "stopped" /\ plan'[a] = plan[a] /\ out'[a] = <<>> /\ request'[a] = request[a]
    BY <1>0, <1>h, <1>m DEF AgentTypes
  <2>2. RequestInHand("stopped", request[a])
    BY <1>0, <1>m, InHandParts DEF RequestInHand, Managing
  <2>3. PlanInHand(a, "stopped", plan[a])
    BY <1>0, <1>m, InHandParts DEF PlanInHand, Planning, Managing
  <2>. QED
    BY <2>1, <2>2, <2>3, NothingOut DEF InHand
<1>5. LocalInv'
  BY <1>h, <1>3, <1>4, LocalStep DEF EInv
<1>6. ElectionInv'
  <2>1. UNCHANGED <<ready, invading_agent, main>>
    BY <1>0 DEF electionVars, mainVars
  <2>2. ElectionInv /\ ElectionTypes
    BY DEF EInv
  <2>. QED
    BY <1>h, <1>m, <1>1, <1>3, <2>1, <2>2, QuietElection
<1>7. ElectionTypes' /\ MainTypes' /\ ClusterTypes'
  BY <1>0 DEF EInv, ElectionTypes, MainTypes, ClusterTypes, electionVars, mainVars, ClusterStop
<1>8. Barrier!TypeOK'
  BY <1>0 DEF EInv, Barrier!TypeOK
<1>. QED
  BY <1>1, <1>2, <1>5, <1>6, <1>7, <1>8 DEF EInv

LEMMA SendKillKeeps ==
    ASSUME EInv, SendKill
    PROVE  EInv'
<1>0. /\ kill <= N + 2 /\ kill' = kill + 1
      /\ UNCHANGED <<out, pc, owned, reserved, request, plan, self, why, directory, listening,
                     electionVars, roiReady, roi, main, system, crashed>>
  BY DEF SendKill
<1>m. MailTypes /\ kill \in 1 .. N + 3 /\ N \in Nat
  BY Threads DEF EInv, MainTypes
<1>. DEFINE s == [to |-> kill, msg |-> Control("END")]
<1>1. \/ kill <= N + 1 /\ queue' = With(queue, s) /\ UNCHANGED shutdown
      \/ ClusterStop
  BY DEF SendKill, With
<1>2. kill <= N + 1 => s \in Posts /\ s.msg.kind # "INVADE"
  <2>1. kill <= N + 1 => kill \in Mailboxes
    <3>1. kill <= N + 1 => kill \in Holders
      BY <1>m, Threads
    <3>. QED
      BY <3>1, MailboxesAreFinite
  <2>2. Control("END") \in Messages /\ Control("END").kind # "INVADE"
    BY DEF Control, Messages
  <2>. QED
    BY <2>1, <2>2 DEF Posts
<1>. HIDE DEF s
<1>3. MailTypes' /\ FewerInvitations
  <2>1. CASE ClusterStop
    BY <1>0, <1>m, <2>1, ClusterStopInvitesNobody
  <2>2. CASE kill <= N + 1 /\ queue' = With(queue, s)
    BY <1>0, <1>m, <1>2, <2>2, SendInvitesNobody
  <2>. QED
    BY <1>1, <2>1, <2>2
<1>4. ClusterTypes'
  BY <1>0, <1>1 DEF EInv, ClusterTypes, ClusterStop
<1>5. MainTypes'
  <2>1. kill' \in 1 .. N + 3
    BY <1>0, <1>m
  <2>. QED
    BY <1>0, <2>1 DEF EInv, MainTypes
<1>6. Barrier!TypeOK'
  BY <1>0 DEF EInv, Barrier!TypeOK
<1>7. \A b \in Agents : Invitations(b)' <= Invitations(b) /\ Invitations(b)' \in Nat
  BY <1>0, <1>m, <1>3, FewerIsLess
<1>. QED
  BY <1>0, <1>3, <1>4, <1>5, <1>6, <1>7, BackgroundStep

LEMMA SendInvadeKeeps ==
    ASSUME EInv, SendInvade
    PROVE  EInv'
<1>0. /\ main.phase = "start"
      /\ UNCHANGED <<out, pc, owned, reserved, request, plan, self, why, clusterVars,
                     electionVars, roiReady, roi, system, kill, crashed>>
      /\ main' = IF main.next = N THEN [phase |-> "unload", next |-> N + 2]
                                  ELSE [main EXCEPT !.next = main.next + 1]
  BY DEF SendInvade
<1>. DEFINE n == main.next
            s == [to |-> n, msg |-> Control("INVADE")]
<1>m. MailTypes /\ MainTypes /\ n \in Agents /\ N \in Nat /\ n \in 1 .. N
  BY <1>0, Threads DEF EInv, MainTypes, Agents
<1>1. queue' = With(queue, s)
  BY DEF SendInvade, With
<1>2. s \in Posts
  <2>1. n \in Mailboxes
    BY <1>m, Threads, MailboxesAreFinite
  <2>. QED
    BY <2>1 DEF Posts, Control, Messages
<1>d. N + 2 \in Directories
  <2>1. 0 \in Cores
    <3>1. Cardinality(Cores) # 0
      BY CoresAssumption, FS_EmptySet
    <3>2. Cardinality(Cores) \in Nat /\ Cores = 0 .. Cardinality(Cores) - 1
      BY CoresAreNumbers, CoresAssumption
    <3>3. 0 \in 0 .. Cardinality(Cores) - 1
      BY <3>1, <3>2
    <3>. QED
      BY <3>2, <3>3
  <2>2. ClusterSize \in Nat \ {0}
    BY OptionsAssumption
  <2>3. Directory(0) = N + 2
    BY <1>m, <2>2 DEF Directory
  <2>. QED
    BY <2>1, <2>3, DirectoryIsNoHolder
<1>3. MainTypes'
  <2>1. CASE n = N
    BY <1>0, <1>m, <1>d, <2>1 DEF MainTypes
  <2>2. CASE n # N
    <3>1. main' = [phase |-> "start", next |-> n + 1]
      BY <1>0, <1>m, <2>2 DEF MainTypes
    <3>2. n + 1 \in Agents
      BY <1>m, <2>2 DEF Agents
    <3>3. n + 1 \in Nat
      BY <1>m
    <3>. QED
      BY <1>0, <1>m, <3>1, <3>2, <3>3 DEF MainTypes
  <2>. QED
    BY <2>1, <2>2
<1>4. ASSUME NEW b \in Agents
      PROVE  /\ MailTypes'
             /\ Invitations(b)' <= Invitations(b) /\ Invitations(b)' \in Nat
  <2>. DEFINE P == InvadeTo(b)
  <2>b. b \in 1 .. N
    BY DEF Agents
  <2>1. Unit(<<s.to, s.msg>>, P) = IF b = n THEN 1 ELSE 0
    <3>1. <<s.to, s.msg>> \in Mailboxes \X Messages
      BY <1>2 DEF Posts
    <3>2. s.to = n /\ s.msg.kind = "INVADE"
      BY DEF Control
    <3>. HIDE DEF s
    <3>. QED
      BY <3>1, <3>2 DEF Unit, InvadeTo
  <2>2. Uninvited(b) <=> n <= b
    BY <1>0 DEF Uninvited
  <2>3. Uninvited(b)' <=> n <= b /\ n # b
    <3>1. CASE n = N
      <4>1. main'.phase = "unload"
        BY <1>0, <3>1
      <4>2. ~ (n <= b /\ n # b)
        BY <1>m, <2>b, <3>1
      <4>. QED
        BY <4>1, <4>2 DEF Uninvited
    <3>2. CASE n # N
      <4>1. main'.phase = "start" /\ main'.next = n + 1
        BY <1>0, <1>m, <3>2 DEF MainTypes
      <4>2. n + 1 <= b <=> n <= b /\ n # b
        BY <1>m, <2>b
      <4>. QED
        BY <4>1, <4>2 DEF Uninvited
    <3>. QED
      BY <3>1, <3>2
  <2>4. n = b => n <= b
    BY <1>m
  <2>. HIDE DEF P, s, n
  <2>5. MailTypes' /\ UnderWay(P)' = UnderWay(P) + Unit(<<s.to, s.msg>>, P)
    BY <1>0, <1>1, <1>2, <1>m, SendStep
  <2>6. UnderWay(P) \in Nat
    BY <1>m, UnderWayType
  <2>7. Invitations(b) = UnderWay(P) + (IF Uninvited(b) THEN 1 ELSE 0)
    BY DEF Invitations, P
  <2>8. Invitations(b)' = UnderWay(P)' + (IF Uninvited(b)' THEN 1 ELSE 0)
    BY DEF Invitations, P
  <2>. QED
    BY <2>1, <2>2, <2>3, <2>4, <2>5, <2>6, <2>7, <2>8
<1>5. MailTypes'
  BY <1>m, <1>4
<1>6. Barrier!TypeOK'
  BY <1>0 DEF EInv, Barrier!TypeOK
<1>7. ClusterTypes'
  BY <1>0 DEF EInv, ClusterTypes, clusterVars
<1>. QED
  BY <1>0, <1>3, <1>4, <1>5, <1>6, <1>7, BackgroundStep

LEMMA UnloadKeeps ==
    ASSUME EInv, Unload
    PROVE  EInv'
<1>0. /\ main.phase = "unload"
      /\ UNCHANGED <<agentVars, electionVars, clusterVars, roiReady, roi, kill, crashed>>
      /\ main' = IF main.next + 1 \in Directories THEN [main EXCEPT !.next = main.next + 1]
                                                  ELSE [phase |-> "join", next |-> 1]
  BY DEF Unload
<1>m. MailTypes /\ MainTypes /\ ClusterTypes /\ main.next \in Nat
  BY DEF EInv, MainTypes
<1>1. system' \in [Cores -> Agents \union {Null, None}]
  <2>1. system' = [c \in Cores |-> IF Directory(c) # main.next THEN system[c]
                                   ELSE IF directory[c] = Idle THEN Null ELSE directory[c]]
    BY DEF Unload
  <2>2. ASSUME NEW c \in Cores
        PROVE  /\ system[c] \in Agents \union {Null, None}
               /\ directory[c] # Idle => directory[c] \in Agents \union {Null}
    BY <1>m DEF MainTypes, ClusterTypes, Holders
  <2>. QED
    BY <2>1, <2>2
<1>2. MainTypes'
  <2>1. CASE main.next + 1 \in Directories
    <3>1. main' = [phase |-> "unload", next |-> main.next + 1]
      BY <1>0, <1>m, <2>1 DEF MainTypes
    <3>2. main.next + 1 \in Nat
      BY <1>m
    <3>. QED
      BY <1>0, <1>1, <1>m, <2>1, <3>1, <3>2 DEF MainTypes
  <2>2. CASE main.next + 1 \notin Directories
    <3>1. main' = [phase |-> "join", next |-> 1]
      BY <1>0, <2>2
    <3>2. 1 \in Holders
      BY Threads
    <3>. QED
      BY <1>0, <1>1, <1>m, <3>1, <3>2 DEF MainTypes
  <2>. QED
    BY <2>1, <2>2
<1>3. ClusterTypes'
  BY <1>0, <1>m DEF ClusterTypes, clusterVars
<1>4. Barrier!TypeOK'
  BY <1>0 DEF EInv, Barrier!TypeOK
<1>5. UNCHANGED <<queue, out, pc, owned, reserved, request, plan, self, why, electionVars>>
  BY <1>0 DEF agentVars
<1>6. MailTypes' /\ FewerInvitations
  BY <1>5, <1>m, NoMailInvitesNobody
<1>7. ASSUME NEW b \in Agents
      PROVE  Invitations(b)' <= Invitations(b) /\ Invitations(b)' \in Nat
  <2>1. UnderWay(InvadeTo(b))' <= UnderWay(InvadeTo(b))
    BY <1>6 DEF FewerInvitations
  <2>2. UnderWay(InvadeTo(b)) \in Nat
    BY <1>m, UnderWayType
  <2>3. UnderWay(InvadeTo(b))' \in Nat
    BY <1>6, UnderWayTypeNext
  <2>4. ~ Uninvited(b) /\ ~ Uninvited(b)'
    BY <1>0, <1>m DEF Uninvited, MainTypes
  <2>. QED
    BY <2>1, <2>2, <2>3, <2>4 DEF Invitations
<1>. QED
  BY <1>2, <1>3, <1>4, <1>5, <1>6, <1>7, BackgroundStep

LEMMA JoinKeeps ==
    ASSUME EInv, Join
    PROVE  EInv'
<1>0. /\ main.phase = "join"
      /\ UNCHANGED <<agentVars, electionVars, clusterVars, roiReady, roi, system, kill, crashed>>
      /\ main' = IF main.next = Idle THEN [main EXCEPT !.phase = "done"]
                                     ELSE [main EXCEPT !.next = main.next + 1]
  BY DEF Join
<1>m. MailTypes /\ MainTypes /\ ClusterTypes /\ main.next \in Nat /\ main.next \in Holders
  BY <1>0 DEF EInv, MainTypes
<1>2. MainTypes'
  <2>1. CASE main.next = Idle
    <3>1. main' = [phase |-> "done", next |-> main.next]
      BY <1>0, <1>m, <2>1 DEF MainTypes
    <3>. QED
      BY <1>0, <1>m, <3>1 DEF MainTypes
  <2>2. CASE main.next # Idle
    <3>1. main' = [phase |-> "join", next |-> main.next + 1]
      BY <1>0, <1>m, <2>2 DEF MainTypes
    <3>2. main.next + 1 \in Holders /\ main.next + 1 \in Nat
      BY <1>m, <2>2, Threads DEF Idle
    <3>. QED
      BY <1>0, <1>m, <3>1, <3>2 DEF MainTypes
  <2>. QED
    BY <2>1, <2>2
<1>3. ClusterTypes'
  BY <1>0, <1>m DEF ClusterTypes, clusterVars
<1>4. Barrier!TypeOK'
  BY <1>0 DEF EInv, Barrier!TypeOK
<1>5. UNCHANGED <<queue, out, pc, owned, reserved, request, plan, self, why, electionVars>>
  BY <1>0 DEF agentVars
<1>6. MailTypes' /\ FewerInvitations
  BY <1>5, <1>m, NoMailInvitesNobody
<1>7. ASSUME NEW b \in Agents
      PROVE  Invitations(b)' <= Invitations(b) /\ Invitations(b)' \in Nat
  <2>1. UnderWay(InvadeTo(b))' <= UnderWay(InvadeTo(b))
    BY <1>6 DEF FewerInvitations
  <2>2. UnderWay(InvadeTo(b)) \in Nat
    BY <1>m, UnderWayType
  <2>3. UnderWay(InvadeTo(b))' \in Nat
    BY <1>6, UnderWayTypeNext
  <2>4. ~ Uninvited(b) /\ ~ Uninvited(b)'
    BY <1>0, <1>m DEF Uninvited, MainTypes
  <2>. QED
    BY <2>1, <2>2, <2>3, <2>4 DEF Invitations
<1>. QED
  BY <1>2, <1>3, <1>4, <1>5, <1>6, <1>7, BackgroundStep

-----------------------------------------------------------------------------
(* The steps of the election itself.                                       *)

(* Who is invited asks before all have asked.                              *)
LEMMA InvitedBeforeAllAsked ==
    ASSUME EInv, NEW a \in Agents, CanTake(a), Message(a).kind = "INVADE",
           queue' = Taken(a), UNCHANGED <<out, main>>
    PROVE  /\ MailTypes' /\ Gathering /\ ready < N /\ ready \in Nat
           /\ \A b \in Agents : Invitations(b)' = Invitations(b) - (IF b = a THEN 1 ELSE 0)
           /\ \A b \in Agents : Invitations(b)' \in Nat /\ Invitations(b) \in Nat
<1>h. a \in Holders /\ MailTypes /\ ElectionInv /\ ElectionTypes
  BY Threads DEF EInv
<1>1. Message(a) \in Messages /\ a \in Mailboxes
  BY <1>h, MessageType, MailboxesAreFinite
<1>2. ASSUME NEW b \in Agents
      PROVE  /\ MailTypes'
             /\ Invitations(b)' = Invitations(b) - (IF b = a THEN 1 ELSE 0)
             /\ Invitations(b)' \in Nat /\ Invitations(b) \in Nat
  <2>. DEFINE P == InvadeTo(b)
  <2>1. Unit(<<a, Message(a)>>, P) = IF b = a THEN 1 ELSE 0
    BY <1>1 DEF Unit, InvadeTo
  <2>. HIDE DEF P
  <2>2. MailTypes' /\ UnderWay(P)' = UnderWay(P) - Unit(<<a, Message(a)>>, P)
    BY <1>h, ReceiveStep
  <2>3. UnderWay(P) \in Nat
    BY <1>h, UnderWayType
  <2>4. UnderWay(P)' \in Nat
    BY <2>2, UnderWayTypeNext
  <2>5. Uninvited(b)' <=> Uninvited(b)
    BY DEF Uninvited
  <2>6. /\ Invitations(b) = UnderWay(P) + (IF Uninvited(b) THEN 1 ELSE 0)
        /\ Invitations(b)' = UnderWay(P)' + (IF Uninvited(b)' THEN 1 ELSE 0)
    BY DEF Invitations, P
  <2>. QED
    BY <2>1, <2>2, <2>3, <2>4, <2>5, <2>6
<1>3. Invitations(a) > 0
  BY <1>2
<1>4. ready # N
  <2>1. ready = N => Invitations(a) = 0
    BY <1>h DEF ElectionInv, Decided
  <2>. QED
    BY <1>2, <1>3, <2>1
<1>5. ready < N /\ ready \in Nat
  <2>1. ready \in Nat /\ ready <= N /\ N \in Nat
    BY <1>h, Threads DEF ElectionTypes, ElectionInv
  <2>. QED
    BY <1>4, <2>1
<1>. QED
  BY <1>2, <1>5, <1>h DEF ElectionInv

(* An agent in the election has nothing in hand. *)
LEMMA Waits ==
    ASSUME NEW b \in Holders, InHand(b), AgentTypes, MailTypes,
           pc[b] = "electing" \/ (pc[b] = "loop" /\ out[b] = <<>>)
    PROVE  request[b] = NoRequest /\ plan[b] = NoPlan /\ out[b] = <<>>
<1>1. request[b] = NoRequest
  BY InHandParts DEF RequestInHand, Managing
<1>2. plan[b] = NoPlan
  BY InHandParts DEF PlanInHand, Managing, Planning
<1>3. out[b] = <<>>
  <2>1. OutInHand(b, pc[b], out[b]) /\ out[b] \in Seq(Posts)
    BY InHandParts DEF MailTypes
  <2>2. pc[b] = "electing" => DOMAIN out[b] = {}
    BY <2>1 DEF OutInHand, Outgoing
  <2>3. Len(out[b]) \in Nat /\ DOMAIN out[b] = 1 .. Len(out[b])
    BY <2>1
  <2>4. pc[b] = "electing" => Len(out[b]) = 0
    BY <2>2, <2>3
  <2>. QED
    BY <2>1, <2>4
<1>. QED
  BY <1>1, <1>2, <1>3

LEMMA InvadeKeeps ==
    ASSUME EInv, NEW a \in Agents, Invade(a)
    PROVE  EInv'
<1>h. a \in Holders /\ NoPlan.core = None /\ Idle \notin Agents /\ Agents \subseteq Holders
      /\ None \notin Agents /\ IsFiniteSet(Agents) /\ Cardinality(Agents) = N /\ N \in Nat
  BY Threads, PlansMade
<1>0. /\ CanTake(a) /\ Message(a).kind = "INVADE" /\ pc[a] = "loop" /\ queue' = Taken(a)
      /\ out[a] = <<>>
      /\ UNCHANGED <<out, owned, reserved, request, plan, why, stale, options,
                     clusterVars, roiReady, roi, mainVars, crashed>>
  BY DEF Invade, Takes, CanTake
<1>m. MailTypes /\ AgentTypes /\ LocalInv /\ InHand(a) /\ ElectionInv /\ ElectionTypes
  BY <1>h, AgentParts DEF EInv
<1>n. UNCHANGED main
  BY <1>0 DEF mainVars
<1>1. /\ MailTypes' /\ Gathering /\ ready < N /\ ready \in Nat
      /\ \A b \in Agents : Invitations(b)' = Invitations(b) - (IF b = a THEN 1 ELSE 0)
      /\ \A b \in Agents : Invitations(b)' \in Nat /\ Invitations(b) \in Nat
  BY <1>0, <1>n, InvitedBeforeAllAsked
<1>f. MailTypes' /\ FewerInvitations
  BY <1>0, <1>h, <1>m, ReceiveInvitesNobody
<1>2. CASE ~ (rounds < MaxRounds * N)
  <2>1. UNCHANGED <<self, invading_agent, ready, rounds, pc>>
    BY <1>2 DEF Invade
  <2>2. Elsewhere
    BY <1>0, <2>1 DEF Elsewhere, electionVars
  <2>3. Alone(a) /\ Quiet(a) /\ InHand(a)'
    BY <1>0, <1>m, <2>1 DEF Alone, Quiet, Active, InHand
  <2>4. AgentTypes'
    BY <1>0, <1>m, <2>1 DEF AgentTypes
  <2>. QED
    BY <1>h, <1>f, <2>2, <2>3, <2>4, PrivateStep
<1>3. CASE rounds < MaxRounds * N
  <2>0. /\ self' = [self EXCEPT ![a] = Refreshed(a)]
        /\ invading_agent' = Winner(a)
        /\ ready' = ready + 1
    BY <1>3 DEF Invade
  <2>1. Refreshed(a) \in [stale : BOOLEAN, rounds : Nat, was_invading : BOOLEAN]
        /\ Refreshed(a).rounds = self[a].rounds
    <3>1. self[a] \in [stale : BOOLEAN, rounds : Nat, was_invading : BOOLEAN]
      BY <1>h, <1>m DEF AgentTypes
    <3>. QED
      BY <3>1 DEF Refreshed
  <2>2. self' \in [Holders -> [stale : BOOLEAN, rounds : Nat, was_invading : BOOLEAN]]
        /\ \A b \in Holders : self'[b].rounds = self[b].rounds
    BY <1>h, <1>m, <2>0, <2>1 DEF AgentTypes
  <2>3. invading_agent' \in {invading_agent, a} /\ invading_agent' \in Agents \union {None}
        /\ (invading_agent' = a /\ invading_agent # a => MayInvade(a, Refreshed(a)))
    BY <1>m, <2>0 DEF Winner, ElectionTypes
  <2>4. invading_agent' # None => self'[invading_agent'].rounds < MaxRounds
    <3>1. CASE invading_agent' = invading_agent
      BY <1>h, <1>m, <2>2, <2>3, <3>1 DEF ElectionInv
    <3>2. CASE invading_agent' = a /\ invading_agent # a
      BY <1>h, <2>1, <2>2, <2>3, <3>2 DEF MayInvade
    <3>. QED
      BY <2>3, <3>1, <3>2
  <2>5. \A b \in Holders : self'[b].rounds <= MaxRounds
    BY <1>h, <1>m, <2>2 DEF ElectionInv
  <2>6. \A b \in Holders : InHand(b) /\ (b # a /\ pc[b] # "electing" => pc'[b] = pc[b])
    <3>1. \A b \in Holders : InHand(b)
      BY <1>m DEF LocalInv
    <3>2. ASSUME NEW b \in Holders, b # a, pc[b] # "electing" PROVE pc'[b] = pc[b]
      BY <1>3, <1>h, <1>m, <3>2 DEF Invade, Goto, AgentTypes
    <3>. QED
      BY <3>1, <3>2
  <2>8. a \notin Electing /\ IsFiniteSet(Electing) /\ Electing \subseteq Agents
        /\ Cardinality(Electing) = ready
        /\ Cardinality(Electing \union {a}) = ready + 1 /\ IsFiniteSet(Electing \union {a})
    <3>1. a \notin Electing /\ Electing \subseteq Agents
      BY <1>0 DEF Electing
    <3>2. IsFiniteSet(Electing)
      BY <1>h, <3>1, FS_Subset
    <3>3. Cardinality(Electing) = ready
      BY <1>1 DEF Gathering
    <3>. QED
      BY <3>1, <3>2, <3>3, FS_AddElement
  <2>9. ASSUME NEW b \in Holders, pc[b] = "electing" \/ b = a
        PROVE  request[b] = NoRequest /\ plan[b] = NoPlan /\ out[b] = <<>> /\ b \in Agents
    <3>1. request[b] = NoRequest /\ plan[b] = NoPlan /\ out[b] = <<>>
      BY <1>0, <1>m, <2>6, <2>9, Waits
    <3>2. b \in Agents
      BY <2>6, <2>9, InHandParts DEF PlanInHand
    <3>. QED
      BY <3>1, <3>2
  <2>10. \A b \in Agents : ~ Active(b) /\ Invitations(b) + (IF pc[b] = "electing" THEN 1 ELSE 0) <= 1
    BY <1>1 DEF Gathering
  <2>11. invading_agent # None => invading_agent \in Agents /\ pc[invading_agent] = "electing"
    BY <1>1, <1>m DEF Gathering, ElectionTypes
  <2>t. ClusterTypes' /\ MainTypes' /\ Barrier!TypeOK'
    BY <1>0 DEF EInv, ClusterTypes, MainTypes, clusterVars, mainVars, Barrier!TypeOK
  <2>12. CASE ready + 1 # N
    <3>1. pc' = [pc EXCEPT ![a] = "electing"] /\ UNCHANGED rounds
      BY <1>3, <2>0, <2>12 DEF Invade, Goto
    <3>2. AgentTypes' /\ ElectionTypes'
      <4>1. AgentTypes'
        BY <1>0, <1>m, <2>2, <3>1 DEF AgentTypes, Stops
      <4>2. ready' \in Nat
        BY <1>1, <2>0
      <4>. QED
        BY <1>0, <1>m, <2>3, <3>1, <4>1, <4>2 DEF ElectionTypes
    <3>3. LocalInv'
      <4>1. ASSUME NEW b \in Holders PROVE InHand(b)'
        <5>1. CASE b = a
          <6>1. /\ pc'[a] = "electing" /\ request'[a] = NoRequest /\ plan'[a] = NoPlan
                /\ out'[a] = <<>>
            BY <1>0, <1>h, <1>m, <2>9, <3>1 DEF AgentTypes
          <6>2. RequestInHand("electing", NoRequest)
            BY DEF RequestInHand, Managing
          <6>3. PlanInHand(a, "electing", NoPlan)
            BY <1>h DEF PlanInHand, Planning, Managing
          <6>. QED
            BY <5>1, <6>1, <6>2, <6>3, NothingOut DEF InHand
        <5>2. CASE b # a
          <6>1. pc'[b] = pc[b]
            BY <1>m, <3>1, <5>2 DEF AgentTypes
          <6>. QED
            BY <1>0, <2>6, <6>1 DEF InHand
        <5>. QED
          BY <5>1, <5>2
      <4>. QED
        BY <4>1 DEF LocalInv
    <3>4. \A b \in Agents : pc'[b] = IF b = a THEN "electing" ELSE pc[b]
      BY <1>h, <1>m, <3>1 DEF AgentTypes
    <3>5. ready' = Cardinality(Electing')
      <4>1. Electing' = Electing \union {a}
        BY <3>4 DEF Electing
      <4>. QED
        BY <2>0, <2>8, <4>1
    <3>6. \A b \in Agents : ~ Active(b)'
      <4>1. ASSUME NEW b \in Agents PROVE ~ (pc'[b] = "seed" \/ plan'[b].core # None)
        <5>1. ~ (pc[b] = "seed" \/ plan[b].core # None)
          BY <2>10 DEF Active
        <5>. QED
          BY <1>0, <3>4, <5>1
      <4>. QED
        BY <4>1 DEF Active
    <3>7. ASSUME NEW b \in Agents
          PROVE  Invitations(b)' + (IF pc'[b] = "electing" THEN 1 ELSE 0) <= 1
      <4>1. Invitations(b) + (IF pc[b] = "electing" THEN 1 ELSE 0) <= 1
        BY <2>10
      <4>2. Invitations(b)' = Invitations(b) - (IF b = a THEN 1 ELSE 0) /\ Invitations(b) \in Nat
        BY <1>1
      <4>. QED
        BY <1>0, <3>4, <4>1, <4>2
    <3>8. invading_agent' # None => pc'[invading_agent'] = "electing"
      BY <2>3, <2>11, <3>4
    <3>9. Gathering'
      BY <3>5, <3>6, <3>7, <3>8 DEF Gathering
    <3>10. ready' <= N /\ ready' # N
      BY <1>1, <1>h, <2>0, <2>12
    <3>11. ElectionInv'
      BY <2>4, <2>5, <3>9, <3>10 DEF ElectionInv
    <3>. QED
      BY <1>1, <2>t, <3>2, <3>3, <3>11 DEF EInv
  <2>13. CASE ready + 1 = N
    <3>1. rounds' = rounds + 1
          /\ pc' = [b \in Holders |-> IF pc[b] = "electing" \/ b = a
                                      THEN Outcome(b, Winner(a)) ELSE pc[b]]
      BY <1>3, <2>0, <2>13 DEF Invade
    <3>2. Agents = Electing \union {a}
      <4>1. Electing \union {a} \subseteq Agents
        BY <2>8
      <4>. QED
        BY <1>h, <2>8, <2>13, <4>1, FS_Subset
    <3>3. \A b \in Agents : pc[b] = "electing" \/ b = a
      BY <3>2 DEF Electing
    <3>4. \A b \in Agents : pc'[b] = Outcome(b, invading_agent')
      BY <1>h, <2>0, <3>1, <3>3
    <3>5. \A b \in Agents :
             /\ Outcome(b, None) = "unwon" /\ Outcome(b, b) = "seed"
             /\ \A w : w # None /\ w # b => Outcome(b, w) = "lost"
      BY <1>h DEF Outcome
    <3>6. pc'[Idle] = pc[Idle]
      <4>1. pc[Idle] # "electing" /\ Idle # a
        BY <1>h, <2>9, Threads
      <4>. QED
        BY <2>6, <4>1, Threads
    <3>7. \A b \in Agents : plan[b] = NoPlan /\ request[b] = NoRequest /\ out[b] = <<>>
      BY <1>h, <2>9, <3>3
    <3>8. AgentTypes' /\ ElectionTypes'
      <4>1. pc' \in [Holders -> Stops]
        <5>1. ASSUME NEW b \in Holders PROVE pc'[b] \in Stops
          <6>1. pc[b] \in Stops /\ Outcome(b, Winner(a)) \in Stops
            BY <1>m DEF AgentTypes, Outcome, Stops
          <6>. QED
            BY <3>1, <6>1
        <5>. QED
          BY <3>1, <5>1
      <4>2. AgentTypes'
        BY <1>0, <1>m, <2>2, <4>1 DEF AgentTypes
      <4>3. ready' \in Nat
        BY <1>1, <2>0
      <4>4. rounds' \in 0 .. MaxRounds * N
        <5>. DEFINE all == MaxRounds * N
        <5>1. all \in Nat
          BY <1>h, OptionsAssumption
        <5>2. rounds \in 0 .. all
          BY <1>m DEF ElectionTypes
        <5>3. rounds < all
          BY <1>3
        <5>. HIDE DEF all
        <5>4. rounds' \in 0 .. all
          BY <3>1, <5>1, <5>2, <5>3
        <5>. QED
          BY <5>4 DEF all
      <4>. QED
        BY <1>0, <1>m, <2>3, <4>2, <4>3, <4>4 DEF ElectionTypes
    <3>9. LocalInv'
      <4>1. ASSUME NEW b \in Agents PROVE InHand(b)'
        <5>1. /\ pc'[b] \in {"unwon", "seed", "lost"} /\ request'[b] = NoRequest
              /\ plan'[b] = NoPlan /\ out'[b] = <<>>
          BY <1>0, <3>4, <3>7 DEF Outcome
        <5>2. RequestInHand(pc'[b], NoRequest)
          BY <5>1 DEF RequestInHand, Managing
        <5>3. PlanInHand(b, pc'[b], NoPlan)
          BY <1>h, <5>1 DEF PlanInHand, Planning, Managing
        <5>. QED
          BY <5>1, <5>2, <5>3, NothingOut DEF InHand
      <4>2. InHand(Idle)'
        BY <1>0, <2>6, <3>6, Threads DEF InHand
      <4>3. \A b \in Holders : InHand(b)'
        BY <4>1, <4>2 DEF Holders
      <4>. QED
        BY <4>3 DEF LocalInv
    <3>10. Electing' = {}
      <4>1. \A b \in Agents : pc'[b] # "electing"
        BY <3>4 DEF Outcome
      <4>. QED
        BY <4>1 DEF Electing
    <3>11. ASSUME NEW b \in Agents PROVE Invitations(b)' = 0
      <4>1. Invitations(b) + (IF pc[b] = "electing" THEN 1 ELSE 0) <= 1
        BY <2>10
      <4>2. /\ Invitations(b)' = Invitations(b) - (IF b = a THEN 1 ELSE 0)
            /\ Invitations(b) \in Nat /\ Invitations(b)' \in Nat
        BY <1>1
      <4>. QED
        BY <1>0, <3>3, <4>1, <4>2
    <3>12. invading_agent' = None =>
              \A b \in Agents : pc'[b] \in {"unwon", "ending", "last", "stopped"}
      BY <3>4, <3>5
    <3>13. invading_agent' # None => \A b \in Agents : Active(b)' <=> b = invading_agent'
      <4>1. ASSUME invading_agent' # None, NEW b \in Agents
            PROVE  (pc'[b] = "seed" \/ plan'[b].core # None) <=> b = invading_agent'
        <5>1. plan'[b].core = None
          BY <1>0, <1>h, <3>7
        <5>2. b # None
          BY <1>h
        <5>. QED
          BY <3>4, <3>5, <4>1, <5>1, <5>2
      <4>. QED
        BY <4>1 DEF Active
    <3>14. Decided'
      BY <3>10, <3>11, <3>12, <3>13 DEF Decided
    <3>15. ready' = N /\ N <= N /\ ~ (N < N)
      BY <1>h, <2>0, <2>13
    <3>16. ElectionInv'
      BY <2>4, <2>5, <3>14, <3>15 DEF ElectionInv
    <3>. QED
      BY <1>1, <2>t, <3>8, <3>9, <3>16 DEF EInv
  <2>. QED
    BY <2>12, <2>13
<1>. QED
  BY <1>2, <1>3

LEMMA EndRoundKeeps ==
    ASSUME EInv, NEW a \in Agents, EndRound(a)
    PROVE  EInv'
<1>h. a \in Holders /\ NoPlan.core = None /\ NoPlan \in Plans /\ None \notin Agents
      /\ N \in Nat /\ N >= 1
  BY Threads, PlansMade
<1>. DEFINE kind == IF rounds < MaxRounds * N THEN "INVADE" ELSE "END"
            place == IF rounds < MaxRounds * N THEN "loop" ELSE "ending"
            list == ToAll(kind, a)
            mine == [stale |-> plan[a].taken = 0, rounds |-> self[a].rounds + 1,
                     was_invading |-> TRUE]
<1>0. /\ pc[a] = "round over" /\ out[a] = <<>>
      /\ stale' = (plan[a].taken = 0) /\ invading_agent' = None /\ ready' = 0
      /\ plan' = [plan EXCEPT ![a] = NoPlan]
      /\ UNCHANGED <<queue, owned, reserved, request, rounds, options,
                     clusterVars, roiReady, roi, mainVars, crashed>>
  BY DEF EndRound, At, NewElection
<1>1. /\ self' = [self EXCEPT ![a] = mine] /\ Sends(a, list)
      /\ pc' = [pc EXCEPT ![a] = place]
      /\ why' = why \/ why' = [why EXCEPT ![a] = "rounds"]
  BY DEF EndRound, Goto
<1>k. /\ kind \in {"INVADE", "END"} /\ place \in {"loop", "ending"}
      /\ Outgoing(place, kind)
  BY DEF Outgoing
<1>m. /\ MailTypes /\ AgentTypes /\ LocalInv /\ InHand(a) /\ ElectionInv /\ ElectionTypes
      /\ request[a] = NoRequest /\ plan[a].core # None
  <2>1. MailTypes /\ AgentTypes /\ LocalInv /\ InHand(a) /\ ElectionInv /\ ElectionTypes
    BY <1>h, AgentParts DEF EInv
  <2>2. request[a] = NoRequest
    BY <1>0, <2>1, InHandParts DEF RequestInHand, Managing
  <2>3. plan[a].core # None
    BY <1>0, <2>1, InHandParts DEF PlanInHand, Planning
  <2>. QED
    BY <2>1, <2>2, <2>3
<1>3. list \in Seq(Posts)
      /\ DOMAIN list = Agents
      /\ \A b \in Agents : list[b].to = b /\ list[b].msg = [kind |-> kind, from |-> a]
  BY <1>h, <1>k, ToAllType
<1>. HIDE DEF kind, place, list
<1>4. /\ ready = N /\ Decided /\ invading_agent = a
  <2>1. Active(a)
    BY <1>m DEF Active
  <2>2. ~ Gathering
    BY <2>1 DEF Gathering
  <2>3. ready = N
    <3>1. ready \in Nat /\ ready <= N /\ ~ (ready < N)
      BY <1>m, <2>2 DEF ElectionInv, ElectionTypes
    <3>. QED
      BY <1>h, <3>1
  <2>4. Decided
    BY <1>m, <2>3 DEF ElectionInv
  <2>5. invading_agent # None
    BY <1>0, <2>4 DEF Decided
  <2>. QED
    BY <2>1, <2>3, <2>4, <2>5 DEF Decided
<1>5. self[a].rounds < MaxRounds /\ self[a].rounds \in Nat /\ MaxRounds \in Nat
  BY <1>4, <1>h, <1>m, OptionsAssumption DEF ElectionInv, AgentTypes
<1>6. mine \in [stale : BOOLEAN, rounds : Nat, was_invading : BOOLEAN]
      /\ mine.rounds <= MaxRounds
  BY <1>5
<1>. HIDE DEF mine
<1>7. out' = [out EXCEPT ![a] = list]
  BY <1>1 DEF Sends
<1>8. AgentTypes' /\ ElectionTypes'
  <2>1. AgentTypes'
    BY <1>0, <1>1, <1>h, <1>k, <1>m, <1>6 DEF AgentTypes, Stops
  <2>2. ready' \in Nat /\ invading_agent' \in Agents \union {None} /\ stale' \in BOOLEAN
    BY <1>0
  <2>. QED
    BY <1>0, <1>m, <2>1, <2>2 DEF ElectionTypes
<1>9. ASSUME NEW b \in Agents
      PROVE  MailTypes' /\ Invitations(b)' <= 1 /\ Invitations(b)' \in Nat
  <2>. DEFINE P == InvadeTo(b)
  <2>1. Matching(list, P) \in {0, 1}
    <3>1. CASE kind # "INVADE"
      <4>1. \A i \in DOMAIN list : <<list[i].to, list[i].msg>> \notin P
        BY <1>3, <3>1 DEF InvadeTo
      <4>. HIDE DEF P
      <4>. QED
        BY <4>1, NoneMatches
    <3>2. CASE kind = "INVADE"
      <4>1. ASSUME NEW i \in DOMAIN list
            PROVE  <<list[i].to, list[i].msg>> \in P <=> i = b
        <5>1. list[i] \in Posts /\ list[i].to = i /\ list[i].msg.kind = "INVADE"
          BY <1>3, <3>2
        <5>2. <<list[i].to, list[i].msg>> \in Mailboxes \X Messages
          BY <5>1 DEF Posts
        <5>. QED
          BY <5>1, <5>2 DEF InvadeTo
      <4>2. b \in DOMAIN list
        BY <1>3
      <4>. HIDE DEF P
      <4>. QED
        BY <4>1, <4>2, OneMatches
    <3>. QED
      BY <3>1, <3>2
  <2>2. Invitations(b) = 0
    BY <1>4 DEF Decided
  <2>3. Uninvited(b)' <=> Uninvited(b)
    BY <1>0 DEF Uninvited, mainVars
  <2>. HIDE DEF P
  <2>4. MailTypes' /\ UnderWay(P)' = UnderWay(P) + Matching(list, P)
    <3>1. UNCHANGED queue
      BY <1>0
    <3>. QED
      BY <1>0, <1>1, <1>3, <1>h, <1>m, <3>1, FillStep
  <2>5. UnderWay(P) \in Nat
    BY <1>m, UnderWayType
  <2>6. /\ Invitations(b) = UnderWay(P) + (IF Uninvited(b) THEN 1 ELSE 0)
        /\ Invitations(b)' = UnderWay(P)' + (IF Uninvited(b)' THEN 1 ELSE 0)
    BY DEF Invitations, P
  <2>. QED
    BY <2>1, <2>2, <2>3, <2>4, <2>5, <2>6
<1>10. Alone(a)
  BY <1>0, <1>1, <1>7, <1>h, <1>m DEF Alone, AgentTypes, MailTypes
<1>11. LocalInv'
  <2>1. /\ pc'[a] = place /\ request'[a] = NoRequest /\ plan'[a] = NoPlan /\ out'[a] = list
    BY <1>0, <1>1, <1>7, <1>h, <1>m DEF AgentTypes, MailTypes
  <2>2. RequestInHand(place, NoRequest)
    BY <1>k DEF RequestInHand, Managing
  <2>3. PlanInHand(a, place, NoPlan)
    BY <1>h, <1>k DEF PlanInHand, Planning, Managing
  <2>4. OutInHand(a, place, list)
    BY <1>3, <1>k DEF OutInHand
  <2>5. InHand(a)'
    BY <2>1, <2>2, <2>3, <2>4 DEF InHand
  <2>. QED
    BY <1>h, <1>m, <1>10, <2>5, LocalStep
<1>12. \A b \in Agents : b # a => pc'[b] = pc[b] /\ plan'[b] = plan[b] /\ self'[b] = self[b]
  BY <1>10, Threads DEF Alone
<1>13. /\ pc'[a] \in {"loop", "ending"} /\ plan'[a] = NoPlan /\ self'[a] = mine
  BY <1>0, <1>1, <1>h, <1>k, <1>m DEF AgentTypes
<1>14. \A b \in Agents : pc'[b] # "electing"
  <2>1. \A b \in Agents : pc[b] # "electing"
    BY <1>4 DEF Decided, Electing
  <2>. QED
    BY <2>1, <1>12, <1>13
<1>15. \A b \in Agents : ~ Active(b)'
  <2>1. ASSUME NEW b \in Agents PROVE ~ (pc'[b] = "seed" \/ plan'[b].core # None)
    <3>1. CASE b = a
      BY <1>h, <1>13, <3>1
    <3>2. CASE b # a
      <4>1. ~ Active(b)
        BY <1>h, <1>4, <3>2 DEF Decided
      <4>. QED
        BY <1>12, <3>2, <4>1 DEF Active
    <3>. QED
      BY <3>1, <3>2
  <2>. QED
    BY <2>1 DEF Active
<1>16. Gathering'
  <2>1. ready' = Cardinality(Electing')
    <3>1. Electing' = {}
      BY <1>14 DEF Electing
    <3>. QED
      BY <1>0, <3>1, FS_EmptySet
  <2>2. ASSUME NEW b \in Agents
        PROVE  Invitations(b)' + (IF pc'[b] = "electing" THEN 1 ELSE 0) <= 1
    BY <1>9, <1>14
  <2>. QED
    BY <1>0, <1>15, <2>1, <2>2 DEF Gathering
<1>17. \A b \in Holders : self'[b].rounds <= MaxRounds
  BY <1>m, <1>6, <1>10, <1>13 DEF ElectionInv, Alone
<1>18. ElectionInv'
  <2>1. ready' <= N /\ ready' # N /\ invading_agent' = None
    <3>1. ready' = 0 /\ invading_agent' = None
      BY <1>0
    <3>2. N \in Nat /\ N >= 1
      BY <1>h
    <3>. QED
      BY <3>1, <3>2
  <2>. QED
    BY <1>16, <1>17, <2>1 DEF ElectionInv
<1>19. ClusterTypes' /\ MainTypes' /\ Barrier!TypeOK'
  BY <1>0 DEF EInv, ClusterTypes, MainTypes, clusterVars, mainVars, Barrier!TypeOK
<1>20. MailTypes'
  BY <1>9
<1>. QED
  BY <1>8, <1>11, <1>18, <1>19, <1>20 DEF EInv

-----------------------------------------------------------------------------
(* The start.                                                              *)
LEMMA InitiallyInvited ==
    ASSUME Init
    PROVE  MailTypes /\ \A b \in Agents : Invitations(b) = 1
<1>1. PICK owner \in InitialOwners :
          /\ queue = [r \in Holders \union Directories |->
                         IF r \in Directories THEN Registrations(owner, r) ELSE <<>>]
          /\ out = [a \in Holders |-> <<>>]
          /\ main = [phase |-> "start", next |-> 1]
  BY DEF Init
<1>2. owner \in [Cores -> Agents \union {Null}]
  BY InitialAssumption
<1>3. ASSUME NEW r \in Mailboxes
      PROVE  /\ queue[r] \in Seq(Messages)
             /\ \A i \in DOMAIN queue[r] : queue[r][i].kind = "REGISTER"
  <2>1. CASE r \notin Directories
    <3>1. queue[r] = <<>>
      BY <1>1, <2>1 DEF Mailboxes
    <3>. QED
      BY <3>1
  <2>2. CASE r \in Directories
    <3>1. queue[r] = Registrations(owner, r)
      BY <1>1, <2>2
    <3>2. /\ Registrations(owner, r) \in Seq(Messages)
          /\ \A i \in DOMAIN Registrations(owner, r) : \E c \in Cores :
                Registrations(owner, r)[i]
                   = Register(IF owner[c] = Null THEN Idle ELSE owner[c], c).msg
      BY <1>2, RegistrationsType
    <3>3. \A x, c : Register(x, c).msg.kind = "REGISTER"
      BY DEF Register
    <3>. QED
      BY <3>1, <3>2, <3>3
  <2>. QED
    BY <2>1, <2>2
<1>4. MailTypes
  <2>1. queue \in [Mailboxes -> Seq(Messages)]
    BY <1>1, <1>3 DEF Mailboxes
  <2>2. <<>> \in Seq(Posts)
    OBVIOUS
  <2>3. out \in [Holders -> Seq(Posts)]
    BY <1>1, <2>2
  <2>. QED
    BY <2>1, <2>3 DEF MailTypes
<1>5. ASSUME NEW b \in Agents PROVE Invitations(b) = 1
  <2>. DEFINE P == InvadeTo(b)
  <2>1. \A r \in Mailboxes : \A i \in DOMAIN queue[r] : <<r, queue[r][i]>> \notin P
    BY <1>3 DEF InvadeTo
  <2>. HIDE DEF P
  <2>2. Count(queue, P) = 0
    BY <1>4, <2>1, MailLists, CountIsZero
  <2>3. \A r \in Holders : \A i \in DOMAIN out[r] : <<r, out[r][i]>> \notin Unposted(P)
    BY <1>1
  <2>4. Count(out, Unposted(P)) = 0
    BY <1>4, <2>3, MailLists, CountIsZero
  <2>5. Uninvited(b)
    <3>1. b \in Nat /\ 1 <= b
      BY Threads DEF Agents
    <3>. QED
      BY <1>1, <3>1 DEF Uninvited
  <2>. QED
    BY <2>2, <2>4, <2>5 DEF Invitations, UnderWay, P
<1>. QED
  BY <1>4, <1>5

LEMMA InitEstablishes ==
    ASSUME Init
    PROVE  EInv
<1>0. PICK owner \in InitialOwners :
          /\ pc = [a \in Holders |-> "loop"]
          /\ owned = [a \in Holders |->
                         {c \in Cores : owner[c] = (IF a = Idle THEN Null ELSE a)}]
          /\ reserved = [a \in Holders |-> {}]
          /\ request = [a \in Holders |-> NoRequest]
          /\ plan = [a \in Holders |-> NoPlan]
          /\ self = [a \in Holders |-> [stale |-> FALSE, rounds |-> 0, was_invading |-> FALSE]]
          /\ why = [a \in Holders |-> ""]
          /\ stale = FALSE /\ rounds = 0 /\ ready = 0 /\ invading_agent = None
          /\ options \in Options
          /\ directory = owner
          /\ listening = Directories
          /\ shutdown = FALSE
          /\ Barrier!Init
          /\ main = [phase |-> "start", next |-> 1]
          /\ system = [c \in Cores |-> None]
          /\ kill = 1
          /\ crashed = FALSE
          /\ out = [a \in Holders |-> <<>>]
  BY DEF Init
<1>1. owner \in [Cores -> Agents \union {Null}]
  BY InitialAssumption
<1>n. N \in Nat /\ N >= 1 /\ MaxRounds \in Nat /\ MaxRounds >= 1 /\ Agents \subseteq Holders
      /\ NoRequest \in Requests /\ NoPlan \in Plans /\ NoPlan.core = None
  BY Threads, OptionsAssumption, RequestsMade, PlansMade
<1>2. MailTypes /\ \A b \in Agents : Invitations(b) = 1
  BY InitiallyInvited
<1>3. AgentTypes
  BY <1>0, <1>n DEF AgentTypes, Stops
<1>4. ElectionTypes
  <2>1. 0 \in 0 .. MaxRounds * N
    BY <1>n
  <2>. QED
    BY <1>0, <2>1 DEF ElectionTypes
<1>5. ClusterTypes
  BY <1>0, <1>1, <1>n DEF ClusterTypes
<1>6. MainTypes
  <2>1. 1 \in Agents /\ 1 \in 1 .. N + 3
    BY <1>n DEF Agents
  <2>. QED
    BY <1>0, <2>1 DEF MainTypes
<1>7. Barrier!TypeOK
  BY <1>0 DEF Barrier!Init, Barrier!TypeOK, Barrier!Stages
<1>8. LocalInv
  <2>1. ASSUME NEW a \in Holders PROVE InHand(a)
    <3>1. pc[a] = "loop" /\ request[a] = NoRequest /\ plan[a] = NoPlan /\ out[a] = <<>>
      BY <1>0
    <3>2. RequestInHand("loop", NoRequest)
      BY DEF RequestInHand, Managing
    <3>3. PlanInHand(a, "loop", NoPlan)
      BY <1>n DEF PlanInHand, Planning, Managing
    <3>. QED
      BY <3>1, <3>2, <3>3, NothingOut DEF InHand
  <2>. QED
    BY <2>1 DEF LocalInv
<1>9. Gathering
  <2>1. ready = Cardinality(Electing)
    <3>1. Electing = {}
      BY <1>0, <1>n DEF Electing
    <3>. QED
      BY <1>0, <3>1, FS_EmptySet
  <2>2. \A a \in Agents : ~ Active(a)
    BY <1>0, <1>n DEF Active
  <2>3. ASSUME NEW b \in Agents
        PROVE  Invitations(b) + (IF pc[b] = "electing" THEN 1 ELSE 0) <= 1
    <3>1. pc[b] # "electing"
      BY <1>0, <1>n
    <3>2. Invitations(b) = 1
      BY <1>2
    <3>. QED
      BY <3>1, <3>2
  <2>. QED
    BY <1>0, <2>1, <2>2, <2>3 DEF Gathering
<1>10. ElectionInv
  <2>1. ready <= N /\ ready # N
    <3>1. ready = 0
      BY <1>0
    <3>. QED
      BY <1>n, <3>1
  <2>2. \A a \in Holders : self[a].rounds <= MaxRounds
    <3>1. \A a \in Holders : self[a].rounds = 0
      BY <1>0, <1>n
    <3>. QED
      BY <1>n, <3>1
  <2>. QED
    BY <1>0, <1>9, <2>1, <2>2 DEF ElectionInv
<1>. QED
  BY <1>2, <1>3, <1>4, <1>5, <1>6, <1>7, <1>8, <1>10 DEF EInv

LEMMA HolderStepKeeps ==
    ASSUME EInv, NEW a \in Holders, HolderStep(a)
    PROVE  EInv'
BY MakeOfferKeeps, RequestKeeps, LocateCoreKeeps, CoreLocatedKeeps, ManageKeeps, ForwardKeeps,
   ForwardedKeeps, CollectOfferKeeps, RespondKeeps, AcceptedKeeps, EndKeeps, SendNextKeeps,
   FollowNullKeeps DEF HolderStep, Crash

LEMMA AgentStepKeeps ==
    ASSUME EInv, NEW a \in Agents, AgentStep(a)
    PROVE  EInv'
BY InvadeKeeps, LookForWinnerKeeps, SeedKeeps, TryKeeps, ManageOwnKeeps, LocateCenterKeeps,
   CenterLocatedKeeps, SendRequestKeeps, AllRequestedKeeps, CollectResponseKeeps,
   TryAgainKeeps, TakeOverKeeps, EndRoundKeeps, BarrierKeeps, StopKeeps, StopClusterKeeps
   DEF AgentStep

LEMMA StepKeeps ==
    ASSUME EInv, [Next]_vars
    PROVE  EInv'
<1>1. CASE \E a \in Holders : HolderStep(a)
  BY <1>1, HolderStepKeeps
<1>2. CASE \E a \in Agents : AgentStep(a)
  BY <1>2, AgentStepKeeps
<1>3. CASE \E d \in Directories : DirectoryStep(d)
  BY <1>3, DirectoryKeeps
<1>4. CASE MainStep
  BY <1>4, SendInvadeKeeps, UnloadKeeps, JoinKeeps DEF MainStep
<1>5. CASE SendKill
  BY <1>5, SendKillKeeps
<1>6. CASE UNCHANGED vars
  BY <1>6, NothingChangesKeeps
<1>7. CASE Miss
  BY <1>7, FollowNullKeeps DEF Miss, MissCenter, MissLocated
<1>. QED
  BY <1>1, <1>2, <1>3, <1>4, <1>5, <1>6, <1>7 DEF Next, Terminating

(* In every reachable state: the types of all variables, an election that  *)
(* gathers every agent exactly once before anybody invades, and at most    *)
(* one invader, who is the one that the global names (distrm.c).           *)
THEOREM ElectionInvariant == Spec => []EInv
<1>1. Init => EInv
  BY InitEstablishes
<1>2. EInv /\ [Next]_vars => EInv'
  BY StepKeeps
<1>. QED
  BY <1>1, <1>2, PTL DEF Spec

(* TypeOK of Distrm.tla, for any number of agents, cores and rounds: no    *)
(* counter leaves its range, no message has a part its reader cannot use.  *)
THEOREM DistrmTypes == Spec => []TypeOK
<1>1. EInv => TypeOK
  <2>. SUFFICES ASSUME EInv PROVE TypeOK
    OBVIOUS
  <2>m. MailTypes /\ AgentTypes /\ ElectionTypes /\ ClusterTypes /\ MainTypes /\ ElectionInv
        /\ Barrier!TypeOK
    BY DEF EInv
  <2>1. \A r \in Holders \union Directories : \A i \in DOMAIN queue[r] : queue[r][i] \in Messages
    <3>1. ASSUME NEW r \in Mailboxes, NEW i \in DOMAIN queue[r] PROVE queue[r][i] \in Messages
      <4>1. queue[r] \in Seq(Messages)
        BY <2>m DEF MailTypes
      <4>. QED
        BY <4>1
    <3>. QED
      BY <3>1 DEF Mailboxes
  <2>2. \A a \in Holders : \A i \in DOMAIN out[a] :
           out[a][i].to \in Holders \union Directories /\ out[a][i].msg \in Messages
    <3>1. ASSUME NEW a \in Holders, NEW i \in DOMAIN out[a]
          PROVE  out[a][i].to \in Mailboxes /\ out[a][i].msg \in Messages
      <4>1. out[a] \in Seq(Posts)
        BY <2>m DEF MailTypes
      <4>2. out[a][i] \in Posts
        BY <4>1
      <4>. QED
        BY <4>2 DEF Posts
    <3>. QED
      BY <3>1 DEF Mailboxes
  <2>3. ASSUME NEW a \in Holders
        PROVE  /\ request[a].region \in RegionsHere
               /\ request[a].invader \in Agents \union {None}
               /\ request[a].left \in 0 .. N + 1
               /\ request[a].found \in Offers
               /\ request[a].response \in Offers
    <3>1. request[a] \in Requests
      BY <2>m DEF AgentTypes
    <3>. QED
      BY <3>1 DEF Requests
  <2>4. ASSUME NEW a \in Holders
        PROVE  /\ plan[a].core \in Cores \union {None}
               /\ plan[a].tries \in 0 .. TryLimit
               /\ ToSet(plan[a].todo) \subseteq Pieces
               /\ plan[a].awaited \in Nat
               /\ plan[a].offers \in Offers
               /\ plan[a].taken \in 0 .. Cardinality(Cores)
    <3>1. plan[a] \in Plans
      BY <2>m DEF AgentTypes
    <3>2. plan[a].todo \in Seq(Centered)
      BY <3>1 DEF Plans
    <3>3. ToSet(plan[a].todo) \subseteq Centered
      BY <3>2 DEF ToSet
    <3>4. ToSet(plan[a].todo) \subseteq Pieces
      BY <3>3 DEF Centered
    <3>. QED
      BY <3>1, <3>4 DEF Plans
  <2>5. self \in [Holders -> [stale : BOOLEAN, rounds : 0 .. MaxRounds, was_invading : BOOLEAN]]
    <3>1. ASSUME NEW a \in Holders
          PROVE  self[a] \in [stale : BOOLEAN, rounds : 0 .. MaxRounds, was_invading : BOOLEAN]
      <4>1. self[a] \in [stale : BOOLEAN, rounds : Nat, was_invading : BOOLEAN]
        BY <2>m DEF AgentTypes
      <4>2. self[a].rounds \in 0 .. MaxRounds
        BY <2>m, <4>1, OptionsAssumption DEF ElectionInv
      <4>. QED
        BY <4>1, <4>2
    <3>2. self \in [Holders -> [stale : BOOLEAN, rounds : Nat, was_invading : BOOLEAN]]
      BY <2>m DEF AgentTypes
    <3>. QED
      BY <3>1, <3>2
  <2>6. ready \in 0 .. N
    BY <2>m, Threads DEF ElectionTypes, ElectionInv
  <2>7. pc \in [Holders -> {"loop", "electing", "lost", "unwon", "seed", "try", "next",
                           "center", "center again", "cores", "owner", "offers",
                           "responses", "round over", "ending", "last", "stopped"}]
    BY <2>m DEF AgentTypes, Stops
  <2>. QED
    BY <2>m, <2>1, <2>2, <2>3, <2>4, <2>5, <2>6, <2>7
       DEF TypeOK, AgentTypes, ElectionTypes, ClusterTypes, MainTypes
<1>. QED
  BY <1>1, ElectionInvariant, PTL

-----------------------------------------------------------------------------
(* Elections without a winner.                                             *)

(* One pair for each round that an agent has won. *)
Won == {w \in Agents \X (1 .. MaxRounds) : w[2] <= self[w[1]].rounds}

(* Who has invaded last; the losers of an election have not yet noticed.   *)
Invaded(b) == self[b].was_invading /\ pc[b] # "lost"

(* While agents ask, none that has asked could have won; a global that is  *)
(* read without a lock and what each agent remembers of it agree for the   *)
(* agent that has invaded last.                                            *)
StillOpen ==
    /\ \A b \in Agents : Invaded(b) => self[b].stale = stale
    /\ \A b, c \in Agents : Invaded(b) /\ Invaded(c) => b = c
    /\ invading_agent = None =>
          \A b \in Electing : ~ MayInvade(b, self[b]) /\ (self[b].stale => stale)

StaleInv ==
    /\ \A b \in Agents : pc[b] = "unwon" \/ why[b] = "stale" =>
          ready = N /\ invading_agent = None
    /\ ready = N /\ invading_agent = None => Settled
    /\ ready = N /\ invading_agent # None =>
          \A b \in Agents : Invaded(b) => b = invading_agent
    /\ ready < N => StillOpen
    /\ rounds = Cardinality(Won) + (IF ready = N THEN 1 ELSE 0)

(* What most steps do to the variables that the elections are about.       *)
Elected == {"electing", "lost", "unwon"}
Ordinary ==
    /\ UNCHANGED <<electionVars, self>>
    /\ \A b \in Agents : pc'[b] # pc[b] => pc[b] \notin Elected /\ pc'[b] \notin Elected
    /\ \A b \in Agents : why'[b] = "stale" => why[b] = "stale"

LEMMA GoingIsOrdinary ==
    ASSUME AgentTypes, NEW a \in Holders, UNCHANGED <<electionVars, self>>,
           UNCHANGED pc \/ (pc[a] \notin Elected /\ \E p : p \notin Elected /\ Goto(a, p)),
           UNCHANGED why \/ \E w : w # "stale" /\ why' = [why EXCEPT ![a] = w]
    PROVE  Ordinary
<1>0. Agents \subseteq Holders
  BY Threads
<1>1. \A b \in Agents : pc'[b] # pc[b] => pc[b] \notin Elected /\ pc'[b] \notin Elected
  BY <1>0 DEF AgentTypes, Goto
<1>2. \A b \in Agents : why'[b] = "stale" => why[b] = "stale"
  BY <1>0 DEF AgentTypes
<1>. QED
  BY <1>1, <1>2 DEF Ordinary

LEMMA RequestsAreOrdinary ==
    ASSUME AgentTypes, NEW a \in Holders,
           \/ MakeOffer(a) \/ Request(a) \/ LocateCore(a) \/ CoreLocated(a)
           \/ Manage(a) \/ Forward(a) \/ Forwarded(a) \/ CollectOffer(a) \/ Respond(a)
    PROVE  Ordinary
<1>1. CASE MakeOffer(a) \/ CollectOffer(a)
  BY <1>1, GoingIsOrdinary DEF MakeOffer, CollectOffer, Elsewhere
<1>2. CASE Request(a)
  BY <1>2, GoingIsOrdinary DEF Request, Takes, Begin, Elsewhere, Elected
<1>3. CASE LocateCore(a) \/ CoreLocated(a)
  BY <1>3, GoingIsOrdinary DEF LocateCore, CoreLocated, At, Takes, Elsewhere, Elected
<1>4. CASE Manage(a) \/ Forwarded(a)
  BY <1>4, GoingIsOrdinary DEF Manage, Forwarded, At, Takes, Elsewhere, Elected
<1>5. CASE Forward(a) \/ Respond(a)
  <2>1. UNCHANGED <<electionVars, self, why>> /\ pc[a] \notin Elected
    BY <1>5 DEF Forward, Respond, At, Elsewhere, Elected
  <2>2. Goto(a, "next") \/ Goto(a, "loop")
    BY <1>5 DEF Forward, Respond
  <2>. QED
    BY <2>1, <2>2, GoingIsOrdinary DEF Elected
<1>. QED
  BY <1>1, <1>2, <1>3, <1>4, <1>5

LEMMA HolderStepsAreOrdinary ==
    ASSUME AgentTypes, NEW a \in Holders, HolderStep(a)
    PROVE  Ordinary
<1>1. CASE Accepted(a) \/ Rejected(a)
  BY <1>1, GoingIsOrdinary DEF Accepted, Rejected, Elsewhere
<1>2. CASE End(a)
  <2>1. UNCHANGED <<electionVars, self>> /\ pc[a] \notin Elected
        /\ why' = [why EXCEPT ![a] = "end"]
    BY <1>2 DEF End, Takes, Elsewhere, Elected
  <2>2. Goto(a, "stopped") \/ Goto(a, "ending")
    BY <1>2 DEF End
  <2>. QED
    BY <2>1, <2>2, GoingIsOrdinary DEF Elected
<1>3. CASE SendNext(a)
  BY <1>3, GoingIsOrdinary DEF SendNext, Elsewhere
<1>4. CASE Crash(a)
  BY <1>4, GoingIsOrdinary DEF Crash, FollowNull, agentVars
<1>. QED
  BY <1>1, <1>2, <1>3, <1>4, RequestsAreOrdinary DEF HolderStep

LEMMA AgentStepsAreOrdinary ==
    ASSUME AgentTypes, NEW a \in Agents, AgentStep(a)
    PROVE  Ordinary \/ Invade(a) \/ LookForWinner(a) \/ EndRound(a)
<1>h. a \in Holders
  BY Threads
<1>1. CASE Seed(a) \/ Try(a) \/ LocateCenter(a)
  BY <1>h, <1>1, GoingIsOrdinary DEF Seed, Try, LocateCenter, At, Elsewhere, Elected
<1>2. CASE ManageOwn(a)
  BY <1>h, <1>2, GoingIsOrdinary DEF ManageOwn, Begin, At, Elsewhere, Elected
<1>3. CASE CenterLocated(a)
  <2>1. UNCHANGED <<electionVars, self, why>> /\ pc[a] \notin Elected
    BY <1>3 DEF CenterLocated, Takes, Elsewhere, Elected
  <2>2. Goto(a, "cores") \/ Goto(a, "center again")
    BY <1>3 DEF CenterLocated, Begin
  <2>. QED
    BY <1>h, <2>1, <2>2, GoingIsOrdinary DEF Elected
<1>4. CASE SendRequest(a) \/ AllRequested(a)
  BY <1>h, <1>4, GoingIsOrdinary DEF SendRequest, AllRequested, At, Takes, Elsewhere, Elected
<1>5. CASE CollectResponse(a)
  BY <1>h, <1>5, GoingIsOrdinary DEF CollectResponse, Elsewhere
<1>6. CASE TryAgain(a) \/ TakeOver(a)
  BY <1>h, <1>6, GoingIsOrdinary DEF TryAgain, TakeOver, At, Elsewhere, Elected
<1>7. CASE EnterRegion(a) \/ LeaveRegion(a) \/ PassBarrier(a)
  BY <1>h, <1>7, GoingIsOrdinary DEF EnterRegion, LeaveRegion, PassBarrier, agentVars
<1>8. CASE Stop(a)
  <2>1. UNCHANGED <<electionVars, self, why>> /\ pc[a] \notin Elected
    BY <1>8 DEF Stop, At, Elsewhere, Elected
  <2>2. Goto(a, "stopped") \/ Goto(a, "last")
    BY <1>8 DEF Stop
  <2>. QED
    BY <1>h, <2>1, <2>2, GoingIsOrdinary DEF Elected
<1>9. CASE StopCluster(a)
  BY <1>h, <1>9, GoingIsOrdinary DEF StopCluster, At, Elected
<1>. QED
  BY <1>1, <1>2, <1>3, <1>4, <1>5, <1>6, <1>7, <1>8, <1>9 DEF AgentStep

LEMMA OtherStepsAreOrdinary ==
    ASSUME AgentTypes,
           \/ \E d \in Directories : DirectoryStep(d)
           \/ Miss \/ MainStep \/ SendKill \/ UNCHANGED vars
    PROVE  Ordinary
<1>1. UNCHANGED <<electionVars, self, pc, why>>
  BY DEF DirectoryStep, DirectoryRegisters, DirectoryAnswers, DirectoryEnds, DirectoryTakes,
         Miss, MissCenter, MissLocated, FollowNull,
         MainStep, SendInvade, Unload, Join, SendKill, vars, agentVars
<1>. QED
  BY <1>1 DEF Ordinary

LEMMA OrdinaryStepsKeepStaleInv ==
    ASSUME StaleInv, Ordinary
    PROVE  StaleInv'
<1>0. /\ UNCHANGED <<stale, rounds, ready, invading_agent, self>>
      /\ \A b \in Agents : pc'[b] \in Elected \/ pc[b] \in Elected => pc'[b] = pc[b]
      /\ \A b \in Agents : why'[b] = "stale" => why[b] = "stale"
  BY DEF Ordinary, electionVars
<1>1. \A b \in Agents : pc'[b] = "unwon" \/ why'[b] = "stale" => pc[b] = "unwon" \/ why[b] = "stale"
  BY <1>0 DEF Elected
<1>2. \A b \in Agents : Invaded(b)' <=> Invaded(b)
  BY <1>0 DEF Invaded, Elected
<1>3. Electing' = Electing /\ Won' = Won /\ (Settled' <=> Settled)
  BY <1>0 DEF Electing, Elected, Won, Settled
<1>4. \A b \in Agents : MayInvade(b, self[b])' <=> MayInvade(b, self[b])
  BY <1>0 DEF MayInvade
<1>5. ASSUME StillOpen PROVE StillOpen'
  <2>1. \A b \in Agents : Invaded(b)' => self'[b].stale = stale'
    BY <1>0, <1>2, <1>5 DEF StillOpen
  <2>2. \A b, c \in Agents : Invaded(b)' /\ Invaded(c)' => b = c
    BY <1>2, <1>5 DEF StillOpen
  <2>3. invading_agent' = None =>
           \A b \in Electing' : ~ MayInvade(b, self[b])' /\ (self'[b].stale => stale')
    BY <1>0, <1>3, <1>4, <1>5 DEF StillOpen, Electing
  <2>. QED
    BY <2>1, <2>2, <2>3 DEF StillOpen
<1>6. \A b \in Agents : pc'[b] = "unwon" \/ why'[b] = "stale" => ready' = N /\ invading_agent' = None
  BY <1>0, <1>1 DEF StaleInv
<1>7. ready' = N /\ invading_agent' # None => \A b \in Agents : Invaded(b)' => b = invading_agent'
  BY <1>0, <1>2 DEF StaleInv
<1>. QED
  BY <1>0, <1>3, <1>5, <1>6, <1>7 DEF StaleInv

LEMMA WonIsFinite == IsFiniteSet(Won) /\ Cardinality(Won) \in Nat
<1>1. IsFiniteSet(Agents) /\ MaxRounds \in Nat
  BY Threads, OptionsAssumption
<1>2. IsFiniteSet(1 .. MaxRounds)
  BY <1>1, FS_Interval
<1>3. IsFiniteSet(Agents \X (1 .. MaxRounds))
  BY <1>1, <1>2, FS_Product
<1>4. Won \subseteq Agents \X (1 .. MaxRounds)
  BY DEF Won
<1>. QED
  BY <1>3, <1>4, FS_Subset, FS_CardinalityType

LEMMA LookForWinnerKeepsStaleInv ==
    ASSUME EInv, StaleInv, NEW a \in Agents, LookForWinner(a)
    PROVE  StaleInv'
<1>h. a \in Holders /\ AgentTypes /\ Agents \subseteq Holders
  BY Threads DEF EInv
<1>0. /\ pc[a] \in {"lost", "unwon"} /\ UNCHANGED <<stale, rounds, ready, invading_agent>>
      /\ self' = [self EXCEPT ![a].was_invading = FALSE]
  BY DEF LookForWinner, At, Elsewhere, electionVars
<1>1. /\ \A b \in Agents \ {a} : pc'[b] = pc[b] /\ why'[b] = why[b] /\ self'[b] = self[b]
      /\ pc'[a] \in {"loop", "ending"}
      /\ why'[a] = "stale" => why[a] = "stale" \/ pc[a] = "unwon"
  <2>1. \A b \in Agents \ {a} : pc'[b] = pc[b]
    BY <1>h DEF LookForWinner, Goto, AgentTypes
  <2>2. \A b \in Agents \ {a} : why'[b] = why[b]
    BY <1>h DEF LookForWinner, AgentTypes
  <2>3. \A b \in Agents \ {a} : self'[b] = self[b]
    BY <1>h, <1>0 DEF AgentTypes
  <2>4. pc'[a] \in {"loop", "ending"}
    BY <1>h DEF LookForWinner, Goto, AgentTypes
  <2>5. why'[a] = "stale" => why[a] = "stale" \/ pc[a] = "unwon"
    BY <1>h, <1>0 DEF LookForWinner, AgentTypes
  <2>. QED
    BY <2>1, <2>2, <2>3, <2>4, <2>5
<1>2. self'[a].was_invading = FALSE /\ self'[a].stale = self[a].stale
      /\ self'[a].rounds = self[a].rounds
  BY <1>h, <1>0 DEF AgentTypes
<1>3. \A b \in Agents : self'[b].stale = self[b].stale /\ self'[b].rounds = self[b].rounds
  BY <1>1, <1>2
<1>4. \A b \in Agents : Invaded(b)' => b # a /\ Invaded(b)
  BY <1>1, <1>2 DEF Invaded
<1>5. Electing' = Electing
  BY <1>0, <1>1 DEF Electing
<1>6. Won' = Won /\ (Settled' <=> Settled)
  BY <1>0, <1>3 DEF Won, Settled
<1>7. ASSUME StillOpen PROVE StillOpen'
  <2>1. \A b \in Agents : Invaded(b)' => self'[b].stale = stale'
    BY <1>0, <1>1, <1>4, <1>7 DEF StillOpen
  <2>2. \A b, c \in Agents : Invaded(b)' /\ Invaded(c)' => b = c
    BY <1>4, <1>7 DEF StillOpen
  <2>3. ASSUME invading_agent' = None, NEW b \in Electing
        PROVE  ~ MayInvade(b, self[b])' /\ (self'[b].stale => stale')
    <3>1. b \in Agents /\ b # a
      BY <1>0 DEF Electing
    <3>2. self'[b] = self[b]
      BY <1>1, <3>1
    <3>3. ~ MayInvade(b, self[b]) /\ (self[b].stale => stale)
      BY <1>0, <1>7, <2>3 DEF StillOpen
    <3>. QED
      BY <1>0, <3>2, <3>3 DEF MayInvade
  <2>. QED
    BY <1>5, <2>1, <2>2, <2>3 DEF StillOpen
<1>8. \A b \in Agents : pc'[b] = "unwon" \/ why'[b] = "stale" => pc[b] = "unwon" \/ why[b] = "stale"
  BY <1>1
<1>9. /\ \A b \in Agents : pc'[b] = "unwon" \/ why'[b] = "stale" =>
            ready' = N /\ invading_agent' = None
      /\ ready' = N /\ invading_agent' # None => \A b \in Agents : Invaded(b)' => b = invading_agent'
  BY <1>0, <1>4, <1>8 DEF StaleInv
<1>. QED
  BY <1>0, <1>6, <1>7, <1>9 DEF StaleInv

LEMMA NotLess == \A m, n \in Nat : m <= n /\ ~ (m < n) => m = n
OBVIOUS

(* Only the winner of an election gets as far as the end of an invasion.   *)
LEMMA WinnerEndsRound ==
    ASSUME EInv, NEW a \in Agents, pc[a] = "round over"
    PROVE  ready = N /\ Decided /\ invading_agent = a
<1>h. a \in Holders /\ N \in Nat
  BY Threads
<1>m. InHand(a) /\ ElectionInv /\ ElectionTypes
  BY <1>h, AgentParts DEF EInv
<1>1. Active(a)
  BY <1>m, InHandParts DEF PlanInHand, Planning, Active
<1>2. ~ Gathering
  BY <1>1 DEF Gathering
<1>3. ready = N
  <2>1. ready \in Nat /\ ready <= N /\ ~ (ready < N)
    BY <1>m, <1>2 DEF ElectionInv, ElectionTypes
  <2>2. N \in Nat
    BY <1>h
  <2>. QED
    BY <2>1, <2>2, NotLess, Zenon
<1>4. Decided
  BY <1>m, <1>3 DEF ElectionInv
<1>5. invading_agent # None
  BY <1>4 DEF Decided
<1>. QED
  BY <1>1, <1>3, <1>4, <1>5 DEF Decided

LEMMA EndRoundKeepsStaleInv ==
    ASSUME EInv, StaleInv, NEW a \in Agents, EndRound(a)
    PROVE  StaleInv'
<1>h. a \in Holders /\ AgentTypes /\ Agents \subseteq Holders /\ N \in Nat /\ N >= 1
  BY Threads DEF EInv
<1>. DEFINE mine == [stale |-> plan[a].taken = 0, rounds |-> self[a].rounds + 1,
                     was_invading |-> TRUE]
<1>0. /\ pc[a] = "round over"
      /\ stale' = (plan[a].taken = 0) /\ invading_agent' = None /\ ready' = 0
      /\ self' = [self EXCEPT ![a] = mine] /\ UNCHANGED rounds
  BY DEF EndRound, At, NewElection
<1>1. /\ \A b \in Agents \ {a} : pc'[b] = pc[b] /\ why'[b] = why[b] /\ self'[b] = self[b]
      /\ pc'[a] \in {"loop", "ending"} /\ self'[a] = mine
      /\ why'[a] = "stale" => why[a] = "stale"
  <2>1. \A b \in Agents \ {a} : pc'[b] = pc[b]
    BY <1>h DEF EndRound, Goto, AgentTypes
  <2>2. \A b \in Agents \ {a} : why'[b] = why[b]
    BY <1>h DEF EndRound, AgentTypes
  <2>3. \A b \in Agents \ {a} : self'[b] = self[b]
    BY <1>h, <1>0 DEF AgentTypes
  <2>4. pc'[a] \in {"loop", "ending"}
    BY <1>h DEF EndRound, Goto, AgentTypes
  <2>5. why'[a] = "stale" => why[a] = "stale"
    BY <1>h DEF EndRound, AgentTypes
  <2>6. self'[a] = mine
    BY <1>h, <1>0 DEF AgentTypes
  <2>. QED
    BY <2>1, <2>2, <2>3, <2>4, <2>5, <2>6
<1>2. ready = N /\ Decided /\ invading_agent = a /\ a # None
  BY <1>0, <1>h, WinnerEndsRound, Threads
<1>3. self[a].rounds \in Nat /\ self[a].rounds < MaxRounds /\ MaxRounds \in Nat
  BY <1>h, <1>2, OptionsAssumption DEF EInv, ElectionInv, AgentTypes
<1>4. \A b \in Agents : pc'[b] # "unwon" /\ why'[b] # "stale"
  <2>1. \A b \in Agents : pc[b] # "unwon" /\ why[b] # "stale"
    BY <1>2 DEF StaleInv
  <2>. QED
    BY <1>1, <2>1
<1>5. \A b \in Agents : Invaded(b)' => b = a
  <2>1. \A b \in Agents : Invaded(b) => b = a
    BY <1>2 DEF StaleInv
  <2>. QED
    BY <1>1, <2>1 DEF Invaded
<1>6. Electing' = {}
  <2>1. \A b \in Agents : pc[b] # "electing"
    BY <1>2 DEF Decided, Electing
  <2>. QED
    BY <1>1, <2>1 DEF Electing
<1>7. StillOpen'
  <2>1. self'[a].stale = stale'
    <3>1. mine.stale = (plan[a].taken = 0)
      OBVIOUS
    <3>2. self'[a] = mine /\ stale' = (plan[a].taken = 0)
      BY <1>0, <1>1
    <3>. HIDE DEF mine
    <3>. QED
      BY <3>1, <3>2, Zenon
  <2>2. \A b \in Agents : Invaded(b)' => self'[b].stale = stale'
    BY <1>5, <2>1
  <2>. QED
    BY <1>5, <1>6, <2>2 DEF StillOpen
<1>8. rounds' = Cardinality(Won')
  <2>1. rounds = Cardinality(Won) + 1
    BY <1>2 DEF StaleInv
  <2>2. Won' = Won \union {<<a, self[a].rounds + 1>>}
    <3>1. \A b \in Agents : self'[b].rounds = IF b = a THEN self[a].rounds + 1 ELSE self[b].rounds
      BY <1>1
    <3>2. \A b \in Agents : self[b].rounds \in Nat
      BY <1>h DEF AgentTypes
    <3>3. ASSUME NEW b \in Agents, NEW i \in 1 .. MaxRounds
          PROVE  i <= self'[b].rounds <=>
                    i <= self[b].rounds \/ (b = a /\ i = self[a].rounds + 1)
      BY <1>3, <3>1, <3>2
    <3>4. self[a].rounds + 1 \in 1 .. MaxRounds
      BY <1>3
    <3>5. ASSUME NEW w
          PROVE  w \in Won' <=> w \in Won \/ w = <<a, self[a].rounds + 1>>
      <4>1. CASE w \in Agents \X (1 .. MaxRounds)
        <5>1. PICK b \in Agents, i \in 1 .. MaxRounds : w = <<b, i>>
          BY <4>1
        <5>2. w \in Won' <=> i <= self'[b].rounds
          BY <5>1 DEF Won
        <5>3. w \in Won <=> i <= self[b].rounds
          BY <5>1 DEF Won
        <5>4. w = <<a, self[a].rounds + 1>> <=> b = a /\ i = self[a].rounds + 1
          BY <5>1
        <5>. QED
          BY <3>3, <5>2, <5>3, <5>4
      <4>2. CASE w \notin Agents \X (1 .. MaxRounds)
        BY <3>4, <4>2 DEF Won
      <4>. QED
        BY <4>1, <4>2
    <3>. QED
      BY <3>5
  <2>3. <<a, self[a].rounds + 1>> \notin Won
    BY <1>3 DEF Won
  <2>. QED
    BY <1>0, <2>1, <2>2, <2>3, WonIsFinite, FS_AddElement
<1>9. ready' # N
  <2>1. ready' = 0
    BY <1>0
  <2>2. N \in Nat /\ N >= 1
    BY <1>h
  <2>. QED
    BY <2>1, <2>2
<1>10. rounds' = Cardinality(Won') + (IF ready' = N THEN 1 ELSE 0)
  <2>1. Cardinality(Won') \in Nat
    <3>1. MaxRounds * N \in Nat
      BY <1>h, OptionsAssumption
    <3>2. rounds' \in 0 .. MaxRounds * N
      BY <1>0 DEF EInv, ElectionTypes
    <3>. QED
      BY <1>8, <3>1, <3>2
  <2>. QED
    BY <1>8, <1>9, <2>1
<1>. QED
  BY <1>4, <1>7, <1>9, <1>10 DEF StaleInv

(* If all agents but one have won all their rounds, the rounds of all      *)
(* agents together are as many as the rule for winning twice asks for.     *)
LEMMA AllButOneHaveWon ==
    ASSUME NEW b \in Agents, \A c \in Agents : c # b => self[c].rounds = MaxRounds
    PROVE  Cardinality(Won) >= MaxRounds * (N - 1)
<1>. DEFINE others == Agents \ {b}
            theirs == others \X (1 .. MaxRounds)
<1>1. IsFiniteSet(Agents) /\ Cardinality(Agents) = N /\ N \in Nat /\ MaxRounds \in Nat
      /\ MaxRounds >= 1
  BY Threads, OptionsAssumption
<1>2. IsFiniteSet(others) /\ Cardinality(others) = N - 1
  BY <1>1, FS_RemoveElement
<1>3. IsFiniteSet(1 .. MaxRounds) /\ Cardinality(1 .. MaxRounds) = MaxRounds
  <2>1. 1 \in Int /\ MaxRounds \in Int
    BY <1>1
  <2>2. IsFiniteSet(1 .. MaxRounds)
        /\ Cardinality(1 .. MaxRounds) = IF 1 > MaxRounds THEN 0 ELSE MaxRounds - 1 + 1
    BY <2>1, FS_Interval
  <2>. QED
    BY <1>1, <2>2
<1>. HIDE DEF others
<1>4. IsFiniteSet(theirs) /\ Cardinality(theirs) = (N - 1) * MaxRounds
  <2>1. /\ IsFiniteSet(theirs)
        /\ Cardinality(theirs) = Cardinality(others) * Cardinality(1 .. MaxRounds)
    BY <1>2, <1>3, FS_Product
  <2>. HIDE DEF theirs
  <2>. QED
    BY <1>2, <1>3, <2>1, Zenon
<1>5. theirs \subseteq Won
  <2>1. ASSUME NEW c \in others, NEW i \in 1 .. MaxRounds PROVE <<c, i>> \in Won
    <3>1. c \in Agents /\ self[c].rounds = MaxRounds
      BY DEF others
    <3>2. i <= MaxRounds
      BY <1>1
    <3>. QED
      BY <3>1, <3>2 DEF Won
  <2>. QED
    BY <2>1
<1>. HIDE DEF theirs
<1>6. Cardinality(theirs) <= Cardinality(Won)
  BY <1>4, <1>5, WonIsFinite, FS_Subset
<1>7. (N - 1) * MaxRounds = MaxRounds * (N - 1)
  BY <1>1
<1>. QED
  BY <1>1, <1>4, <1>6, <1>7, WonIsFinite

(* The last to ask finds no winner.                                        *)
LEMMA NoWinnerIsSettled ==
    ASSUME EInv, StaleInv, StillOpen, invading_agent = None, NEW a \in Agents,
           pc[a] = "loop", ~ MayInvade(a, Refreshed(a)),
           Agents = Electing \union {a}, ready # N,
           self' = [self EXCEPT ![a] = Refreshed(a)], UNCHANGED stale
    PROVE  Settled'
<1>h. AgentTypes /\ ElectionTypes /\ a \in Holders /\ Agents \subseteq Holders /\ N \in Nat
      /\ MaxRounds \in Nat
  BY Threads, OptionsAssumption DEF EInv
<1>1. \A b \in Agents : self[b] \in [stale : BOOLEAN, rounds : Nat, was_invading : BOOLEAN]
  BY <1>h DEF AgentTypes
<1>2. /\ \A b \in Agents : b # a => self'[b] = self[b]
      /\ self'[a] = Refreshed(a)
      /\ Refreshed(a).rounds = self[a].rounds
      /\ Refreshed(a).was_invading = self[a].was_invading
      /\ (Refreshed(a).stale => stale)
      /\ (self[a].stale = stale => Refreshed(a).stale = stale)
  <2>1. /\ \A b \in Agents : b # a => self'[b] = self[b]
        /\ self'[a] = Refreshed(a)
    BY <1>h DEF AgentTypes
  <2>2. /\ Refreshed(a).rounds = self[a].rounds
        /\ Refreshed(a).was_invading = self[a].was_invading
    BY <1>1 DEF Refreshed
  <2>3. Refreshed(a).stale => stale
    BY <1>1 DEF Refreshed
  <2>4. self[a].stale = stale => Refreshed(a).stale = stale
    <3>1. stale \in BOOLEAN
      BY <1>h DEF ElectionTypes
    <3>2. stale => Refreshed(a) = self[a]
      BY DEF Refreshed
    <3>3. ~ stale => Refreshed(a).stale = FALSE
      BY <1>1 DEF Refreshed
    <3>4. ~ stale => stale = FALSE
      BY <3>1
    <3>. QED
      BY <3>2, <3>3, <3>4
  <2>. QED
    BY <2>1, <2>2, <2>3, <2>4
<1>3. \A b \in Agents : b = a \/ b \in Electing
  OBVIOUS
<1>4. \A b \in Agents : ~ MayInvade(b, self'[b]) /\ (self'[b].stale => stale)
  <2>1. ASSUME NEW b \in Agents, b # a
        PROVE  ~ MayInvade(b, self'[b]) /\ (self'[b].stale => stale)
    <3>1. b \in Electing
      BY <1>3, <2>1
    <3>2. ~ MayInvade(b, self[b]) /\ (self[b].stale => stale)
      BY <3>1 DEF StillOpen
    <3>. QED
      BY <1>2, <2>1, <3>2
  <2>2. ~ MayInvade(a, self'[a]) /\ (self'[a].stale => stale)
    BY <1>2
  <2>. QED
    BY <2>1, <2>2
<1>5. \A b \in Agents : self'[b].was_invading => Invaded(b)
  <2>1. ASSUME NEW b \in Agents, self'[b].was_invading PROVE Invaded(b)
    <3>1. self[b].was_invading
      BY <1>2, <2>1
    <3>2. pc[b] # "lost"
      BY <1>3 DEF Electing
    <3>. QED
      BY <3>1, <3>2 DEF Invaded
  <2>. QED
    BY <2>1
<1>6. rounds = Cardinality(Won)
  BY WonIsFinite DEF StaleInv
<1>7. ASSUME NEW b \in Agents, ~ ((stale /\ self'[b].stale) \/ self'[b].rounds = MaxRounds)
      PROVE  FALSE
  <2>1. ~ self'[b].stale
    BY <1>4, <1>7
  <2>2. self'[b].rounds < MaxRounds
    <3>1. self'[b].rounds = self[b].rounds
      BY <1>2
    <3>2. self[b].rounds <= MaxRounds /\ self[b].rounds \in Nat
      BY <1>1, <1>h DEF EInv, ElectionInv
    <3>. QED
      BY <1>7, <1>h, <3>1, <3>2
  <2>3. self'[b].was_invading /\ ~ (rounds >= MaxRounds * (N - 1))
    BY <1>4, <2>1, <2>2 DEF MayInvade
  <2>4. Invaded(b)
    BY <1>5, <2>3
  <2>5. ~ stale
    <3>1. self[b].stale = stale
      BY <2>4 DEF StillOpen
    <3>2. self'[b].stale = stale
      BY <1>2, <3>1
    <3>. QED
      BY <2>1, <3>2
  <2>6. ASSUME NEW c \in Agents, c # b PROVE self[c].rounds = MaxRounds
    <3>1. ~ self'[c].stale
      BY <1>4, <2>5
    <3>2. ~ self'[c].was_invading
      BY <1>5, <2>4, <2>6 DEF StillOpen
    <3>3. ~ (self'[c].rounds < MaxRounds)
      BY <1>4, <3>1, <3>2 DEF MayInvade
    <3>4. self'[c].rounds = self[c].rounds
      BY <1>2
    <3>5. self[c].rounds <= MaxRounds /\ self[c].rounds \in Nat
      BY <1>1, <1>h DEF EInv, ElectionInv
    <3>. QED
      BY <1>h, <3>3, <3>4, <3>5, NotLess
  <2>7. Cardinality(Won) >= MaxRounds * (N - 1)
    BY <2>6, AllButOneHaveWon
  <2>. QED
    BY <1>6, <2>3, <2>7
<1>8. \A b \in Agents : (stale /\ self'[b].stale) \/ self'[b].rounds = MaxRounds
  BY <1>7
<1>. QED
  BY <1>8 DEF Settled

LEMMA InvadeKeepsStaleInv ==
    ASSUME EInv, StaleInv, EInv', NEW a \in Agents, Invade(a)
    PROVE  StaleInv'
<1>h. /\ a \in Holders /\ AgentTypes /\ ElectionTypes /\ Agents \subseteq Holders /\ N \in Nat
      /\ a # None /\ None \notin Agents
  BY Threads DEF EInv
<1>0. /\ CanTake(a) /\ Message(a).kind = "INVADE" /\ pc[a] = "loop" /\ queue' = Taken(a)
      /\ UNCHANGED <<out, why, stale, main>>
  BY DEF Invade, Takes, mainVars
<1>1. ready < N /\ ready \in Nat /\ ready # N
  <2>1. ready < N /\ ready \in Nat
    BY <1>0, InvitedBeforeAllAsked
  <2>. QED
    BY <1>h, <2>1
<1>2. CASE ~ (rounds < MaxRounds * N)
  <2>1. Ordinary
    BY <1>0, <1>2 DEF Invade, Ordinary, electionVars
  <2>. QED
    BY <2>1, OrdinaryStepsKeepStaleInv
<1>3. CASE rounds < MaxRounds * N
  <2>0. /\ self' = [self EXCEPT ![a] = Refreshed(a)]
        /\ invading_agent' = Winner(a)
        /\ ready' = ready + 1
    BY <1>3 DEF Invade
  <2>1. StillOpen /\ rounds = Cardinality(Won)
    BY <1>1, WonIsFinite DEF StaleInv
  <2>2. \A b \in Agents : pc[b] # "unwon" /\ why'[b] # "stale"
    BY <1>0, <1>1 DEF StaleInv
  <2>3. self[a] \in [stale : BOOLEAN, rounds : Nat, was_invading : BOOLEAN]
    BY <1>h DEF AgentTypes
  <2>4. /\ \A b \in Agents : b # a => self'[b] = self[b]
        /\ self'[a] = Refreshed(a)
        /\ Refreshed(a).rounds = self[a].rounds
        /\ Refreshed(a).was_invading = self[a].was_invading
    BY <1>h, <2>0, <2>3 DEF AgentTypes, Refreshed
  <2>5. (Refreshed(a).stale => stale) /\ (self[a].stale = stale => Refreshed(a).stale = stale)
    <3>1. stale \in BOOLEAN
      BY <1>h DEF ElectionTypes
    <3>2. stale => Refreshed(a) = self[a]
      BY DEF Refreshed
    <3>3. ~ stale => Refreshed(a).stale = FALSE
      BY <2>3 DEF Refreshed
    <3>4. ~ stale => stale = FALSE
      BY <3>1
    <3>. QED
      BY <3>2, <3>3, <3>4
  <2>6. Won' = Won
    <3>1. \A b \in Agents : self'[b].rounds = self[b].rounds
      BY <2>4
    <3>. QED
      BY <3>1 DEF Won
  <2>7. invading_agent' = None => invading_agent = None /\ ~ MayInvade(a, Refreshed(a))
    BY <1>h, <2>0 DEF Winner
  <2>8. CASE ready + 1 # N
    <3>1. pc' = [pc EXCEPT ![a] = "electing"] /\ UNCHANGED rounds
      BY <1>3, <2>0, <2>8 DEF Invade, Goto
    <3>2. \A b \in Agents : pc'[b] = IF b = a THEN "electing" ELSE pc[b]
      BY <1>h, <3>1 DEF AgentTypes
    <3>3. \A b \in Agents : Invaded(b)' => Invaded(b)
      BY <1>0, <2>4, <3>2 DEF Invaded
    <3>4. \A b \in Agents : Invaded(b)' => self'[b].stale = stale'
      <4>1. ASSUME NEW b \in Agents, Invaded(b)' PROVE self'[b].stale = stale
        <5>1. self[b].stale = stale
          BY <2>1, <3>3, <4>1 DEF StillOpen
        <5>2. CASE b = a
          BY <2>4, <2>5, <5>1, <5>2
        <5>3. CASE b # a
          BY <2>4, <5>1, <5>3
        <5>. QED
          BY <5>2, <5>3
      <4>. QED
        BY <1>0, <4>1
    <3>5. \A b, c \in Agents : Invaded(b)' /\ Invaded(c)' => b = c
      BY <2>1, <3>3 DEF StillOpen
    <3>6. ASSUME invading_agent' = None, NEW b \in Electing'
          PROVE  ~ MayInvade(b, self[b])' /\ (self'[b].stale => stale')
      <4>1. b \in Agents /\ (b = a \/ b \in Electing)
        BY <3>2 DEF Electing
      <4>2. CASE b = a
        BY <1>0, <2>4, <2>5, <2>7, <3>1, <3>6, <4>2 DEF MayInvade
      <4>3. CASE b # a
        <5>1. ~ MayInvade(b, self[b]) /\ (self[b].stale => stale)
          BY <2>1, <2>7, <3>6, <4>1, <4>3 DEF StillOpen
        <5>2. self'[b] = self[b]
          BY <2>4, <4>1, <4>3
        <5>. QED
          BY <1>0, <3>1, <5>1, <5>2 DEF MayInvade
      <4>. QED
        BY <4>2, <4>3
    <3>7. StillOpen'
      BY <3>4, <3>5, <3>6 DEF StillOpen
    <3>8. \A b \in Agents : pc'[b] # "unwon"
      BY <2>2, <3>2
    <3>9. ready' # N
      BY <2>0, <2>8
    <3>10. rounds' = Cardinality(Won') + (IF ready' = N THEN 1 ELSE 0)
      BY <2>1, <2>6, <3>1, <3>9, WonIsFinite
    <3>. QED
      BY <2>2, <3>7, <3>8, <3>9, <3>10 DEF StaleInv
  <2>9. CASE ready + 1 = N
    <3>1. rounds' = rounds + 1
          /\ pc' = [b \in Holders |-> IF pc[b] = "electing" \/ b = a
                                      THEN Outcome(b, Winner(a)) ELSE pc[b]]
      BY <1>3, <2>0, <2>9 DEF Invade
    <3>2. Agents = Electing \union {a}
      <4>1. a \notin Electing /\ Electing \subseteq Agents
        BY <1>0 DEF Electing
      <4>2. IsFiniteSet(Agents) /\ Cardinality(Agents) = N
        BY Threads
      <4>3. IsFiniteSet(Electing)
        BY <4>1, <4>2, FS_Subset
      <4>4. Cardinality(Electing) = ready
        BY <1>1 DEF EInv, ElectionInv, Gathering
      <4>5. Cardinality(Electing \union {a}) = ready + 1 /\ IsFiniteSet(Electing \union {a})
        BY <4>1, <4>3, <4>4, FS_AddElement
      <4>6. Electing \union {a} \subseteq Agents
        BY <4>1
      <4>. QED
        BY <2>9, <4>2, <4>5, <4>6, FS_Subset
    <3>3. \A b \in Agents : pc[b] = "electing" \/ b = a
      BY <3>2 DEF Electing
    <3>4. \A b \in Agents : pc'[b] = Outcome(b, invading_agent')
      BY <1>h, <2>0, <3>1, <3>3
    <3>5. ready' = N /\ ~ (ready' < N)
      BY <1>h, <2>0, <2>9
    <3>6. ASSUME invading_agent' = None PROVE Settled'
      BY <1>0, <1>1, <2>0, <2>1, <2>7, <3>2, <3>6, NoWinnerIsSettled
    <3>7. \A b \in Agents : pc'[b] = "unwon" => invading_agent' = None
      BY <3>4 DEF Outcome
    <3>8. invading_agent' # None => \A b \in Agents : Invaded(b)' => b = invading_agent'
      BY <3>4 DEF Invaded, Outcome
    <3>9. rounds' = Cardinality(Won') + (IF ready' = N THEN 1 ELSE 0)
      BY <2>1, <2>6, <3>1, <3>5, WonIsFinite
    <3>. QED
      BY <2>2, <3>5, <3>6, <3>7, <3>8, <3>9 DEF StaleInv
  <2>. QED
    BY <2>8, <2>9
<1>. QED
  BY <1>2, <1>3

LEMMA InitiallyOpen ==
    ASSUME Init
    PROVE  StaleInv
<1>0. PICK owner \in InitialOwners :
          /\ pc = [a \in Holders |-> "loop"]
          /\ self = [a \in Holders |-> [stale |-> FALSE, rounds |-> 0, was_invading |-> FALSE]]
          /\ why = [a \in Holders |-> ""]
          /\ rounds = 0 /\ ready = 0 /\ invading_agent = None
  BY DEF Init
<1>1. Agents \subseteq Holders /\ N \in Nat /\ N >= 1
  BY Threads
<1>2. \A b \in Agents : pc[b] = "loop" /\ why[b] = "" /\ self[b].rounds = 0
                           /\ self[b].was_invading = FALSE
  BY <1>0, <1>1
<1>3. StillOpen
  BY <1>2 DEF StillOpen, Invaded, Electing
<1>4. ready # N
  <2>1. ready = 0
    BY <1>0
  <2>. QED
    BY <1>1, <2>1
<1>5. Cardinality(Won) = 0
  <2>1. ASSUME NEW b \in Agents, NEW i \in 1 .. MaxRounds
        PROVE  ~ (i <= self[b].rounds)
    <3>1. self[b].rounds = 0
      BY <1>2
    <3>2. i >= 1 /\ i \in Int
      BY OptionsAssumption
    <3>. QED
      BY <3>1, <3>2
  <2>2. Won = {}
    BY <2>1 DEF Won
  <2>. QED
    BY <2>2, FS_EmptySet
<1>6. rounds = Cardinality(Won) + (IF ready = N THEN 1 ELSE 0)
  <2>1. rounds = 0
    BY <1>0
  <2>. QED
    BY <1>4, <1>5, <2>1
<1>. QED
  BY <1>2, <1>3, <1>4, <1>6 DEF StaleInv

LEMMA StepKeepsStaleInv ==
    ASSUME EInv, StaleInv, [Next]_vars
    PROVE  EInv' /\ StaleInv'
<1>0. EInv' /\ AgentTypes
  BY StepKeeps DEF EInv
<1>1. CASE \E a \in Holders : HolderStep(a)
  BY <1>0, <1>1, HolderStepsAreOrdinary, OrdinaryStepsKeepStaleInv
<1>2. CASE \E a \in Agents : AgentStep(a)
  BY <1>0, <1>2, AgentStepsAreOrdinary, OrdinaryStepsKeepStaleInv, InvadeKeepsStaleInv,
     LookForWinnerKeepsStaleInv, EndRoundKeepsStaleInv
<1>3. CASE \/ \E d \in Directories : DirectoryStep(d)
           \/ Miss \/ MainStep \/ SendKill \/ UNCHANGED vars
  BY <1>0, <1>3, OtherStepsAreOrdinary, OrdinaryStepsKeepStaleInv
<1>. QED
  BY <1>1, <1>2, <1>3 DEF Next, Terminating

(* An election without a winner leaves all agents settled, although what   *)
(* they know of the last invasion is a flag each copies from a global      *)
(* without a lock (distrm.c:593, distrm.c:634): whoever has rounds left    *)
(* has tried in vain since any agent last gained a core.                   *)
THEOREM ElectionsEndSettled == Spec => []NobodyWinsOnlyWhenSettled
<1>1. Init => EInv /\ StaleInv
  BY InitEstablishes, InitiallyOpen
<1>2. EInv /\ StaleInv /\ [Next]_vars => EInv' /\ StaleInv'
  BY StepKeepsStaleInv
<1>3. StaleInv => NobodyWinsOnlyWhenSettled
  BY DEF StaleInv, NobodyWinsOnlyWhenSettled
<1>. QED
  BY <1>1, <1>2, <1>3, PTL DEF Spec
=============================================================================
