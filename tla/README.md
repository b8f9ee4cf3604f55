# A TLA+ model of dcop

dcop runs distributed constraint optimization algorithms for resource
management on many-core systems. Every agent is a thread with a mailbox, a view
of who owns which resource, and a list of constraints; agents exchange messages
until they have found an assignment of the resources. This directory holds TLA+
models of the parts where threads meet, TLC configurations that check them, and
TLAPS proofs about them. Names follow the C source; operators with an underscore
in their names (`Beaten_NoTies`) are deliberately wrong variants of the operator
before the underscore, kept to show that a property notices the mistake.

## 1. The system

| Component | State | Operations | Interacts with |
|---|---|---|---|
| ROI barrier (`dcop.c:307-339`) | `ready`, `mt`, `cv` of the `dcop_t` | `dcop_start_ROI`, `dcop_stop_ROI` | called by every agent thread |
| Agent mailbox (`agent.c:314-385`) | `msg_queue`, `mt`, `cv` of each agent | `agent_send`, `agent_broadcast`, `agent_recv`, `agent_recv_filter` | all threads send, the owner receives |
| MGM (`mgm.c`) | `mgm_agent_t`, phase, counter, views | one handler per message, `mgm_run`, `mgm_cleanup`, `mgm_kill` | mailbox, barrier, views, search |
| MGM search (`mgm.c:135-564`) | scratch views | `try_free_resources`, `try_subregions`, `permutate_assignment` | views, constraints |
| Views (`view.c`) | lists of resources with status and owner | compare, merge, copy, clear, split | all algorithms |
| Tile-local memory (`tlm.c`) | list of entries, `cur_used`, `max_used`, mutex | `tlm_malloc`, `tlm_free`, `tlm_realloc` | every allocation of an agent; senders allocate what receivers free |
| DistRM (`distrm.c`) | globals `ready`, `rounds`, `stale`, `invading_agent`; each agent's owned and reserved cores | election, requests, offers, rounds | mailbox, directory, barrier, regions |
| Cluster directory (`cluster.c`) | owner of each core, `shutdown` | register, locate, load, unload, stop | DistRM |
| Regions (`region.c`) | center, size, view | build, contain, split, select at random | DistRM |
| Constraints (`constraint.c`, `native.c`, `lua/constraint.lua`) | arguments | evaluation, natively or in Lua | search |
| Problem (`lua/dcop.lua`, `dcop_load`) | agents, neighbors, initial views | `claim_resource`, `load` | everything starts from it |
| Lifecycle (`dcop.c:main`) | `algo`, `dcop` | init, run, cleanup, merge views, SIGINT | all |

Hard behaviours: interleavings of threads in mailbox and barrier (both wait
without a loop); two-phase rounds kept apart by nothing but message filters and
counters; a START message per agent while the agents already talk to each other;
agents that stop for different reasons in one round; a signal that ends them at
any point; an allocator used by two threads that gives up its lock inside a
call; the election and the unlocked globals of DistRM; offers that are counted and not
matched to requests; a directory that nobody waits for; a search that is cut short by
several rules at once and skipped by others.

What makes each component correct:

- barrier: a rendezvous at both ends, from one counter and one condition variable;
- mailbox: an atomic queue with filtered removal, no lost wakeup;
- MGM: rounds do not mix, neighbors never move together, the agents work on one
  assignment that changes by single moves, everyone stops, the printed verdict is right;
- memory: entries partition the arena, blocks keep their contents, the count is right;
- DistRM: one invader at a time, no core lost or owned twice, rounds end;
- search: the assignment found is better, and is the best one it claims to look for;
- constraints: the native and the Lua version of a constraint agree.

## 2. Plan

All modules of the plan are written, in this order:

1. `Rendezvous`, `RoiBarrier`: barrier and its refinement; proofs in `RoiBarrierProofs`.
2. `MessageList`, `MessageQueue`, `Mailbox`; proofs in `MessageListProofs`, `MailboxProofs`.
3. `Views`, `AssignmentSearch`, `Mgm` with `MCMgm`: composes barrier and mailboxes; proofs in `MgmProofs`.
4. `Heap`, `Tlm`; proofs in `TlmProofs`.
5. `Regions`, `CoreOwnership`, `Distrm` with `MCDistrm`: composes barrier, mailboxes,
   directory and regions.
6. `Constraints`, `MgmSearch` with `MCMgmSearch`: what `Mgm` leaves open about a search.

The proofs about `Distrm` are in `DistrmElectionProofs`, `DistrmCoreProofs` and `DistrmDirectoryProofs`, each of which
extends the one before. The theorems that were planned are all proved (section 6). None of the modules with proofs
declares or reaches a RECURSIVE operator.

## 3. The modules

**RoiBarrier.** A thread is `new`, waiting, woken or past the wait, for each of the two
calls; a call is one step up to its `pthread_cond_wait` and one from there on, because it
holds `dcop->mt` otherwise. `ready` is the counter. `Rendezvous` is instantiated twice, for
entry and exit. The waits are assumed to end only after a broadcast.

**Mailbox.** `queue` is `msg_queue`; `Send` is `agent_send`, `Receive` the part of a receive call
up to its first wait, `Resume` the part after a wait. A message carries its sender, kind and
number; a filter is the set of kinds it accepts, since the filters of the code look at
nothing else. `WakeSpuriously` is allowed in the calls named by `SpuriousIn`. `MessageQueue` is
the abstract queue. `agent_recv`, once awake, reads the head whatever the list holds: on an
empty list this is the state `"corrupt"`.

**Mgm.** Per agent: mailbox, `view`, `agent_view`, the record `mgm_agent_t`, the thread's locals
`mode`, `counter`, `stop`, and `out`, the messages of a loop of sends that are still to be sent, so that
a receiver may act between two sends of one loop. One action per message kind and case
(`OkButNotLast`, `LastOk`, ...), each the whole handler including `send_ok` or `send_improve`.
`main` sends the STARTs, joins, and merges the views; `kill` is the signal handler, taken as a
thread of its own. Mailboxes are the atomic queues `Mailbox` implements, the barrier is
`RoiBarrier`. Utilities are `finite` or `INF`, improvements a small number or `Infinite`. What the
search finds is open: any reassignment in which the agent claims resources and yields its own,
with any positive improvement, under the early returns of `improve`; `MgmSearch` shows that this is
all a search can do. `why` (the reason for
which an agent stopped) is a history variable. `AssignmentSearch` is the abstract
specification: one assignment that one agent at a time changes for itself.

**Tlm.** `entries` is the list of entries, as a set: the order of the list only decides which of
several fitting entries is used. Sizes are in words of four bytes, `Align = 2` words. `op` holds
a call between its critical sections: clearing after `tlm_malloc`, and moving in `tlm_realloc`, where
other threads may come in. `memory` holds what is stored: the i-th word of a block holds i, so
that a wrong copy, a lost move or an overlap shows. Callers only ask `tlm_realloc` for more
(`constraint.c:158`, `constraint.c:172`, `distrm.c:348`); the last conjunct of `EntriesTileTheArena` shows that the branch for
a smaller size is then dead. A failed allocation ends the model as it ends the program.

**Distrm.** Agents are `1..N`, the idle agent is `N + 1`, the directories follow. `owned` and
`reserved` are the two lists of `distrm_agent_t`, as sets; `request` holds the locals of a request an agent
is managing, `plan` those of its invasion (`request_cores`, `handle_offer`). `pc` says where the thread waits:
in its loop, in the election, for an answer of the directory, for offers, for responses. A step goes from one wait to
the next; a single send belongs to it, while a series of sends goes out one by one (`out`), so that
others act in between. The filters of `filter_distrm_info` and `filter_distrm_offer` decide what a wait
accepts: an agent that waits for offers answers a `MAKE_OFFER`. The election is `Invade` (under the mutex, up to the broadcast)
and `LookForWinner` (afterwards, without it); `why` is a history variable that tells an agent that found
no winner from one that came too late. Directories, `cluster_stop`, `cluster_unload`, the joins of `distrm_cleanup`
and the signal handler are actions of the same module. `crashed` is a followed NULL pointer, which ends
everything: `Crash` is a message without what its reader looks for, `MissCenter` and `MissLocated` are the center of a part without
cores (`region.c:118`). That center is memory behind the list head of an empty view, so each look reads what happens to be there
(`CenterRead`): the number of some core, and the invasion goes on, or no core, and `cluster_get_directory` returns the NULL that
`agent_send` follows (`cluster.c:42-46`), or the directory, which looks again, finds no resource (`cluster.c:92`). Open are: which cores an agent offers and which ones it accepts (any subset, in place of the speedup
functions), its seed, the regions drawn at random. `Asked` keeps the slip of `distrm.c:340`. `CoreOwnership` is the abstract
specification: each core has one owner, one agent at a time invades, only that one gains cores. The refinement
maps a core to its holder (`HolderOf`): its owner, or whoever has put it aside and has no ACCEPT for it under way (`Released`).
While an ACCEPT is under way its reader still has the core on its list, but the invader owns it already.

**Regions.** Operators for `region_new`, `region_contains`, `region_split` and the random selection. `Garbage`
is the center of a part without cores; what comes of it is said under `Distrm`. That a part shares its center with its view,
so that `region_free` frees it twice (`region.c:67`), does not show: regions are values here, not memory.

**Constraints.** The native constraints, the Lua ones they replace and the sums of both.
Costs are multiples of 1/`Scale`, or `Infinity`; a speedup is a fraction, compared by
multiplication. -1 stands for no core, as in the code.

**MgmSearch.** One agent, `Self`, with its private state between rounds (`view`, `new_view`, `can_move`, `changed`,
`improve`, `best_eval`, `max_resources`). `Start` is the thread's beginning with `get_optimal_utility`, `LastOk` the last
`MGM_OK` of a phase with the whole of `improve`, `Move` and `GiveWay` the last `MGM_IMPROVE` with and without the
right to move; in `GiveWay` one neighbor may make any move that `AssignmentSearch` allows. `Permutate` is
`permutate_assignment`, a recursive function over the position in the list and what the search carries along.
Rounds do not end here: distance, staleness and END are the business of `Mgm`. Agents without neighbors, which search once and stop, are `StartAlone` there.
`EveryImprovementIsReal` is what `Mgm` assumes of a search; `ImprovingTheSameView` of `Mgm` is what lets
`MgmSearch` start each round from one common view.

## 4. The runs

| Run | Module, cfg | Shows |
|---|---|---|
| roi_barrier | RoiBarrier | counter right, region common, both rendezvous refined, everyone gets out |
| mailbox | Mailbox | no lost wakeup, refinement of the queue (nothing lost, doubled or out of order), calls return |
| mailbox_spurious | Mailbox, MailboxSpurious.cfg | *violated*: `agent_recv` reads an empty list after a spurious wakeup |
| mgm_triangle | MCMgm, MgmTriangle.cfg | three mutual neighbors: phases apart, no joint moves, one final assignment, right verdict |
| mgm_pair | MCMgm, MgmPair.cfg | a pair and a lone agent: refinement of the single-move search, termination |
| mgm_kill | MCMgm, MgmKill.cfg | a line of three: SIGINT ends the program in every state |
| mgm_race | MCMgm, MgmRace.cfg | *violated*: a START that is overtaken stops an agent with an improvement in hand |
| tlm | Tlm | partition, merging, contents, refinement of the heap |
| tlm_count | Tlm, TlmCount.cfg | *violated*: a moved block leaves the count too high |
| distrm | MCDistrm, Distrm.cfg | no core lost, the directory's answers true, nothing left over between rounds, result right, NULL followed only after SIGINT or for a part without cores, refinement of `CoreOwnership`, termination |
| distrm_stale | MCDistrm, DistrmStale.cfg | *violated*: an agent that looks for the winner too late stops for a stale assignment |
| search | MCMgmSearch, MgmSearch.cfg | optimum known, improvements real, best found where it is promised, free resources first, native and Lua constraints agree |

Bounds, and why they are enough:

- barrier: four threads, so that there is a first, a last and two between them.
- mailbox: two senders, two kinds, two messages each: enough for a message of one kind to
  overtake, for a second message of the same sender and kind, and for a rejected message to wake
  the receiver.
- MGM: `MaxDistance = 3` gives two full rounds with both phases and the final one, in which a stop
  for distance, for staleness and through END can all occur; `MaxImprove = 1` gives ties, a better
  neighbor (`Infinite`, or 1 against 0) and none. Three agents for a message of a neighbor that is
  ahead while another is behind. One or two resources: two are needed for a move that claims one
  and yields another.
- memory: six words in units of two, at most four entries, blocks of one to three words: three
  blocks with holes between them, growth down, up and by moving, a full table, an exhausted arena.
  `MaxUsed` only stops `cur_used` from drifting without end, which is the finding below.
- DistRM: two agents and the idle agent are an invader, another owner, and one who answers without taking part.
  Two cores in clusters of one give two directories, so that answers and registrations of different cores overtake each
  other. `MaxRounds = 2` gives up to four elections, among them those that nobody wins
  (`was_invading`, `stale` and used-up rounds all decide one). Two tries, since an empty
  first offer leads to a second. `KillRounds` (1) bounds only when SIGINT arrives: at any moment after
  the first election and before the second is decided, and its messages are read at any later time. `distrm_stale`
  has three cores and regions that are split.
  `options` holds the two options that vary within a run: regions of one core to each side and two requests at a time
  (`Near`), or regions that reach beyond the machine, are split, and are asked for one at a time (`Large`). `SizeThresh` is 3 and
  not 5, to have such regions with two cores: their first part takes both, the second is empty. `KillRounds` lets SIGINT
  arrive with small regions only (`UnlessSplit`), so that with large ones every NULL pointer is the program's own.
- search: two tiles of two cores, so that there is a part to prefer and one to pass over, and within a part
  a claim, a yield and an exchange; 256 initial views, which are all assignments to three agents or nobody. Five
  problems in the style of `generator.lua` give every native constraint, unsatisfiable, satisfied and negative
  costs, parts of one and of two tiles. `MaxMoves = 1` allows one move of a neighbor;
  the agent's own moves are unbounded.

Fairness. `RoiBarrier`: each thread that can go on does (`WF` of its steps). `Mailbox`: a woken
receiver runs. `Mgm`: as long as some thread can go on, one does (`WF` of all steps together,
weaker than fairness of each thread, and enough because each behaviour is finite); SIGINT itself
is never forced, a handler that has begun goes on. `Distrm`: the same. The operating system's scheduler justifies all
of them. `Tlm` and `MgmSearch` need none. Deadlock is checked except where the system may really stop: in `Mailbox`
when senders have nothing more to send, in a line of MGM agents without SIGINT (below), and in `Distrm` after
SIGINT, when an agent has missed a winner or come to a part without cores (below).

## 5. What the models show about the code

- `agent_recv` waits in an `if`; POSIX allows spurious wakeups (mailbox_spurious). The filtering
  receive is not affected, and MGM uses only that one. The two barrier calls wait in an `if` as well:
  with spurious wakeups a thread could enter or leave the region alone, which is why `RoiBarrier`
  states the contrary as an assumption.
- `mgm_run` starts agents one by one. The OK of a started neighbor can be handled before an agent's own
  START; its OK phase is then over and its `stale` flag set when START calls `send_ok`, and the
  agent stops with an improvement in hand (mgm_race). `OnlyOvertakenStopsAreEarly` and `VerdictIsRight` show that
  among mutual neighbors nothing else does this.
- If agents are not all neighbors of each other, an agent stops when its neighborhood is stale although
  a round goes on elsewhere; its END stops its neighbors, and theirs wait for ever. The problems in
  `lua/` connect all agents, so this does not occur with them. `KillTerminates` shows that SIGINT ends it.
- The count of used memory, dumped as a result of the experiments, grows with every block that
  is moved (tlm_count).
- An agent of DistRM that lost an election reads `invading_agent` after the mutex is released. If the winner has
  finished by then, it finds no winner, stops, and the others wait in the next election for ever
  (distrm_stale). `NobodyWinsOnlyWhenSettled` shows that an election without winner happens only when nobody can gain
  anything, and `Termination` that the rounds end unless an agent comes too late or to a part without cores.
- After SIGINT a `DISTRM_END` passes both filters of DistRM and is taken for an answer of the directory
  or an offer, whose fields are then followed as NULL. `OnlySigintOrEmptyPartCrashes` shows that nothing else leads there; the
  list of pending messages is clean between invasions (`QuietBetweenRounds`), so that without SIGINT the
  `INVADE` past the last round and the `default:` case are not reached.
- A region larger than `size_thresh` (option `-r` of 6 or more) is split into parts, the last of which is empty if the region
  reaches beyond the edge of the machine. Its center is then no resource (`region.c:118`), and the look-up of its owner may follow
  NULL without any SIGINT. `OnlySigintOrEmptyPartCrashes` names this as the only other case. The two look-ups of one center
  (`distrm.c:434`, `distrm.c:243`) may also read different cores; an agent that is the owner of the second sends the request to itself,
  while it waits for offers only, and the program hangs. Hence `Termination` excepts empty parts, too.
- `distrm.c:340` tests `cores[1]` where it means `cores[i]`: an agent is asked for offers if
  agent 1 owns something, whatever it owns itself. It costs offers and nothing else.
- An agent that moves in MGM skips its next search (`mgm.c:470`), and as that leaves `improve` at 0, every later search
  as well unless a neighbor takes something from it (`mgm.c:456`). It may stay at a cost
  that one more move would lower. Hence `SearchFindsTheBest` is about searches that take place.
- The native `TILE` accepts every view (`native.c:11`), the Lua one does not. `native.c:145` divides 1 by 2 as
  integers, which matters for fractional variances only. A constraint nested in `AND` or `OR` that names a neighbor is
  registered wrongly (`lua/dcop.lua:367`), and nesting of such constraints does not occur in `lua/`.

## 6. The proofs

All for arbitrary constants under the `ASSUME`s of the modules.

- `RoiBarrierProofs`: `CounterIsRight` by induction on `ready = Cardinality(Counted)`, a step
  adding or removing one thread. `RegionIsSafe` needs the stronger invariant `IInv`: as soon as anyone is
  beyond the entry nobody is left before it (`EntryComplete`), and the same at the exit (`ExitComplete`);
  `RegionIsCommon` alone does not say where the waiters are that a broadcast releases. From `IInv`, each step
  is a step of `Rendezvous` or leaves it unchanged: `StartIsRendezvous`, `StopIsRendezvous`.
- `MessageListProofs`: the search of a list stops at the first acceptable message, unlinking
  keeps a list of messages. The least index of a set is found through well-foundedness of `<`. For `Distrm`, whose rounds
  are held together by messages and not by a counter, how many messages with a given property are in all mailboxes
  together (`Count`), as the number of triples of mailbox, position and message; what appending, removing and unlinking does to it.
- `MailboxProofs`: the invariant `IInv` adds to the properties that a call in progress is one of `Calls` and
  that `agent_recv` accepts every kind (`CallInProgress`); without it an awake `agent_recv` with a message
  in the list need not find it. `MailboxTypes`, `ReceiversAreSafe` and `MailboxIsMessageQueue` assume only that the wait
  of `agent_recv` does not end spuriously (`WaitsAreSafe`); without that the type invariant is false, as `mailbox_spurious` shows.
- `TlmProofs`: the entries are described by their bounds (`Tiles`, `Merged`), and one lemma, `Refill`, covers
  every change of the table: what lies in an interval is replaced by entries that fill the interval. `Tiles` alone is
  not inductive: that a call which goes on after the mutex was released still finds its block needs `CallIsRight` (the entry of its new block is taken
  and no block has it, the old block is still there and outgrown), and that two such calls do not meet needs `CallsAreApart`.
  `ContentsSurvive` needs in addition that a block already copied to holds what the old one did (`MemoryInv`).
  The count of used memory is bounded from below only (`CountInv`): it equals the memory in use
  until a block is moved (tlm_count). `ArenaIsHeap` takes each step to one of `Heap` or a stutter. Assumed of the constants
  is what the code sets: an alignment of one or two words, sizes positive.
- `MgmProofs`: `NeighborsNeverMoveTogether` says nothing about the steps in between, so `IInv` describes each link between two
  neighbors in every state. The phases of an agent are numbered (OK messages of round r in 2r, IMPROVE messages in 2r + 1; before its
  START it is in phase 0, and in phase 1 if the START was overtaken). `InStep`: neighbors are at most one phase apart. `OkLink` and
  `ImproveLink`: exactly when a message of a phase from this neighbor is on its way (`Pending`: unread or not yet sent), in terms of the two phases and of
  what has been heard. `MoveLink`: an agent that may still move beats every neighbor it has compared itself with. `MailInv`:
  no second message of a phase, and an IMPROVE tells what its sender has found (`Truthful`). `CounterInv`: the counter, which
  only counts messages, is the number of neighbors heard of or compared with; that is why `IsLast` means all of them. `StartInv`: one START per agent, read in
  phase 0 or 1. Agents that stopped in `send_ok` have counted a round too many, hence `Round`. Each handler is one lemma (`LastOkStep`,
  ...); `TakerStep` says that only the agent's own part and its links need a look. `IInv` gives `MgmTypes`, `RoundsAreApart` and
  `NeighborsTakeTurns`, for any symmetric neighbors, any search, with SIGINT or without. Beyond the assumptions on the
  constants that the runs check, `ResourcesAssumption` is needed: without a resource every view is the cleared one, and an
  agent could not tell a neighbor it has heard of.
  `AgentsImproveOneView` (`ImprovingTheSameView`) assumes `Mutual`: whoever has a neighbor at all is a neighbor of all others that have one, as every
  specification in `lua/` makes it; in a line it is false. The property compares agents in one phase,
  but the views they adopt were sent, read and forgotten phases ago, so `ViewInv` says for every two neighbors (`ViewLink`) how their views are
  related whatever their phases: agents that improve have the same view, agents that read views differ only if one of them has moved,
  and one that is behind (`Past`) and has not moved is going to hear the view of the one ahead from some neighbor (`Hears`), perhaps not from that
  one itself. `Said` are the views told and not yet adopted or forgotten: unread, unsent or noted. When the last view is in (`AllTold`), what an
  agent adopts is the view of every neighbor that improves already (`AdoptedFromPast`), and a neighbor still reading has it, or will be told it (`AdoptedIsHeard`).
  That only one neighbor has moved, the first theorem, is what makes the difference unambiguous (`MoverFacts`).
  `StopsAreNotEarly` (`OnlyOvertakenStopsAreEarly`) assumes `Complete`: all agents are neighbors. An agent that stops sees its own messages only; `RoundInv`
  adds to the links what it has learned from them: as long as it calls the round stale, nobody it has compared itself with has an
  improvement (`StaleLink`), and whoever has stopped in `send_ok` has compared itself with everybody, unless it was overtaken or the
  limit is one round (`HaltInv`). An `improve` that was compared changes no more, because its owner cannot open another round (`InStep`).
  `FinalViewsAgree` (`NoInconsistentView`) and `VerdictIsTrue` (`VerdictIsRight`) assume `Complete` and no SIGINT, the second also two agents or more: one
  that is alone stops without a look at its own utility, and its verdict stays TRUE. An agent stops in `send_ok` in the phase its neighbors are in, or in the
  one before, and then they have found their round stale too, so nobody moves any more (`HaltedFacts`, `FinalView`). `EndInv` says that everybody else stops
  for an END of such an agent (`StopInv`), and that the ENDs are in order: behind the last IMPROVE of their sender, which is the one thing a reader may still have to learn from it
  (`InOrder`, `EndedBy`). For the verdict it says whose utilities an agent has seen (`Seen`), and what a doubt it has may
  still mean when its neighbor is a phase ahead (`Doubts`); the utility of the agent that stopped first has been seen by another one (`SeenByAnother`).
  `RoundsAreASearch` (`IsAssignmentSearch`) assumes `Mutual` and that some agent has a neighbor (without one nobody is ahead, and there is no common assignment
  to speak of); SIGINT may arrive. The mapping takes the view of some agent of `UpToDate`. `ViewInv` makes that choice immaterial
  (`OneAssignment`): agents that improve agree, only one can have moved, and without either all views of those ahead are equal. So a step changes
  the assignment only if it leaves none of these agents with its view, and each handler has one lemma. What is adopted is what the
  agents ahead have already (`LastOkSearch`, with the lemmas on adoption above); an agent that halts early could come to be the only one ahead,
  but then everyone has its view (`HaltingSearch`, from `FinalView`); the one that begins a round first
  takes the assignment along, its own move applied or not, and one that follows with a move finds those ahead without it (`NextRoundSearch`).
  The invariants are needed after the step, too: state lemmas are primed by PTL (`AheadAgain`, `AssignmentsAgreeAgain`).

- `DistrmElectionProofs`: `DistrmTypes` and `ElectionsEndSettled`, for any number of agents, cores, rounds and any options.
  `TypeOK` is not inductive: that `request` and `plan` are there where they are used, that the counter `left` does not go below zero and that
  `ready` stays at most `N` depends on how often an agent is invited. `EInv` adds, for each thread, what it has in hand where it
  waits (`InHand`), and for the election as a whole two phases: in `Gathering` every agent is invited at most once or has asked (`Invitations`
  counts INVADE messages unread, unsent, and not yet sent by `main`), nobody invades, and `ready` is the number of those who
  asked; in `Decided` all have asked, no INVADE is under way, and the one that `invading_agent` names is the only one with a plan.
  `ElectionsEndSettled` needs `StaleInv` on top: `rounds` counts the invasions won (`Won`), and as long as nobody found an election without winner
  whoever has invaded and has rounds left agrees with the global `stale` (`StillOpen`). Assumed of the constants
  is what the options allow: numbers are positive, cores are `0 .. k`, `None` is neither a thread nor a core.
- `DistrmCoreProofs`: `CoresAreKept` (`NoCoreIsLost`) and `CoresAreOwned` (the refinement of `CoreOwnership`). Both are false of states
  that obey `EInv` alone: two offers could mention one core, or an invader take over with an offer still to come. `CoreInv`
  counts instead. `DueInv`: what is due to an agent (questions and requests it has sent, requests that others manage for it, offers to it)
  is what its two counters `awaited` and `left` say. `TokenInv`: of the offers, answers, responses and collections that say
  that h has put core c aside there is one if it has, else none. `HolderInv`: one holder per core. From these follows that
  everything is settled when an invasion ends: its counter is zero, hence nobody manages a request (`NobodyManages`), no message about it is
  under way (`NoDealings`), and only answers are left. Each mailbox keeps these before the next INVADE (`OrderInv`), so that an agent has
  nothing put aside when it is elected (`ReadyInv`, `FreeInv`); without that an invader could accept an offer of a core that an
  unread REJECT gives back. Most actions touch none of this (`...IsIdle`); the others have a lemma each (`...IsSafe`). A step of
  `TakeOver` hands exactly the accepted cores to the invader (`Captures`), every other one leaves all holders (`SameHolders`).

- `DistrmDirectoryProofs`: `RoundsEndQuietly` (`QuietBetweenRounds`). `CoreInv` says that no request, offer or response is left when nobody
  invades, but nothing about questions to the directories, which agents that are asked for offers send too (`region_clone`).
  `InquiryInv`: an agent that waits for a directory is owed exactly one answer, counting its LOCATE and the INFO to it, and one that does not
  is owed none. When nobody invades nobody is in the middle of an invasion or a request (`NobodyIsActive`), hence nobody waits (`NobodyIsInquiring`).
  `LocatedOwnersAreHolders` (`LocatedIsHolder`): `DirectoryInv` says whom a directory will name when it has read its mailbox. For each core, its
  holder is still about to register it (`Announces`), or the last registration in the mailbox of its directory is the holder's, or there is
  none and the directory knows already (`KnownInv`, `Latest`). That is enough only if no registration is behind a question (`NewsInv`): an agent that has
  gained cores registers them before it ends its round, when nobody asks (`AnnouncersAreDone`). Steps that concern no directory need no
  look at all (`NoNews`); `TakeOverIsAnnounced`, `SendNextIsSafe`, `DirectoryStepIsSafe` treat the others.
  `OnlySigintAndEmptyPartsAreFatal` (`OnlySigintOrEmptyPartCrashes`) has one reason for each of the four messages that make an agent
  follow NULL (`NobodyCrashes`), and one for the centers that are looked up: each part an invader has yet to ask for has a center that
  is a core, or has no cores (`Centers`, part of the types of `EInv`), and the latter comes only from a region larger than `size_thresh` (`Fitting`,
  `PartInv`), so that only such parts are missed (`OnlyEmptyPartsAreMissed`). The state in which a thread has followed NULL is final (`CrashIsFinal`), and still shows which part it was.
  An answer about a core that is not put aside would be a token too many (`TokenInv`), a question for offers that reaches an
  agent collecting responses would be about another invasion (`ForInvader`, `Misled`), and an answer without an owner would be untrue (`TruthInv`).
  An END where an agent waits needs `EndInv`: as long as nobody interrupts the program, an END is under way to an agent only when the rounds are
  exhausted or all agents are past their loops (`Ending`), which is final (`EndIsFinal`), and then nobody invades or waits (`NobodyInvades`, `NobodyWaits`).
  The directories get theirs only in the second case (`Ended`), because the first agent to send one has passed the exit of
  the region; that all others are at this exit then is the invariant of the barrier, cited as an instance of `RoiBarrierProofs` (`ExitInv`, `LeaversAreLast`).
  `AssignmentIsFinal` (`FinalAssignmentIsRight`): no registration is behind the END of a directory (`ClosedInv`), because whoever has one to
  send is not past its loop (`EndedIsQuiet`). So a directory that has stopped knows the holder (`StoppedKnows`), which stays the holder
  (`EndedHoldersStay`), and `SystemInv` says that `main` has collected just that, from all directories: they are numbered without a gap
  (`LastDirectory`).

Only model-checked: all liveness properties (the prover does not handle fairness and ENABLED), and everything about `MgmSearch` and
`Constraints`: the cost of a view and the search are folds and recursive functions over lists, and what `Permutate` computes for every list is
an induction over data. Of the other modules every safety property that a passing run checks is proved.

## 7. Not modelled

- Loading: option parsing, `dcop_load`, `lua/dcop.lua` and the registration of constraints in `constraint.c` are sequential
  code that builds the initial state; the models take its outcome as constants. Two faults met
  there are listed as hazards.
- The speedup of `DOWNEY` and `SPEEDUP` for fractional variances, and their Lua versions: floating-point
  formulas. Distrm leaves open what a core is worth, and the search run uses integer variances.
- Nested constraints that name a neighbor (see above).
- Printing, the console lock, plotting and experiments: no state that a property could be about.
- The pointer operations of `list.h` are taken to implement lists.
- The SIGINT handler takes mutexes and allocates memory, which a handler must not do: it could wait for a mutex that
  the interrupted thread holds. The models run it as a thread and do not show this. Nor do they cover a signal before the
  threads exist or after `dcop_free`.
- Destruction of `cluster_m` by `cluster_unload` while a second stopping agent is about to lock it, and
  wakeups without a broadcast in the barrier and in the election (`distrm.c:108`): assumed not to happen.
- The state of the random generator: draws are arbitrary.
