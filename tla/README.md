# TLA+ models and proofs of paxos-rs

`paxos-rs` is a Multi-Paxos library: every node of a group keeps a log of slots,
a distinguished proposer (the leader) gets values accepted for the slots, and
every node applies the decided prefix of the log to a state machine. This
directory holds models of the library for TLC and machine-checked proofs (TLAPS)
about them. Source paths below are relative to the repository
(`src/node.rs`, `examples/http-paxos/kvstore.rs`).

## 1. The system

| part | state | operations | talks to |
|---|---|---|---|
| `Configuration`, `QuorumSet` (`src/config.rs`) | own id, map of peers; a slice of counted nodes with as many places as a quorum | `quorum_size`, `peer_node_ids`, index by id; `insert`, `contains`, `has_quorum` | used by `Node`, `Proposer`, `Acceptor` |
| `Ballot` (`src/lib.rs`) | round and owner | order, `higher_for` | |
| `Acceptor` (`src/acceptor.rs`) | one Paxos instance: `AwaitValue`, `AwaitQuorum`, `Resolved` | `receive_prepare`, `receive_accept`, `notice_value`, `receive_accepted`, `resolve` | owned by the window |
| `SlotWindow` (`src/window.rs`) | `open` (acceptors from `open_min_slot`), `decided`, `max_promised` | `slot_mut`, `next_slot`, `fill`, drop of a slot reference (`fill_decisions`), `decisions` | owned by `Node` |
| `Proposer` (`src/proposer.rs`) | `Follower`, `Candidate`, `Leader`; highest ballot; queue | `observe_ballot`, `prepare`, `receive_promise`, `receive_reject`, queue | owned by `Node` |
| `Node` (`src/node.rs`) | proposer and window | one handler per `Command`, `propose_leadership` | other nodes, through `Transport` |
| `Liveness` (`src/liveness.rs`) | a timeout | `receive` bumps it, `tick` calls `propose_leadership` | wraps a `Replica` |
| `StateMachineReplica` (`src/statemachine.rs`) | `next_execution_slot` | executes new decisions after each command | wraps a `Replica` |
| key-value example (`examples/http-paxos/`) | map and waiting requests | `register_*`, `execute`, `prune_listeners`; HTTP service | a `StateMachineReplica` over `Liveness` over `Node`, behind a mutex |

A handler has the replica for itself (`&mut self`; the example holds a mutex), so
within a node nothing interleaves: what is hard is the group. Commands travel
over a `Transport` that promises nothing (the example posts them over HTTP and
ignores errors). They are lost, repeated, delayed and reordered; nodes campaign
against each other at any moment; a handler may leave early in the middle of a
batch; slots are opened after the promises that bind them were made; decisions
come out of order and leave holes; the quorum, the log and the ballots meet their
boundary cases. Above the group, timers race with the commands that should bump
them, and in the example the request handlers, the execution of decisions and the
pruning of listeners interleave between mutexes. Nothing is persisted, so there is
no recovery to model: a node that restarts is a node the protocol does not allow,
and a node that stops stays away.

What makes each part correct:

- *ballots*: a total order, `higher_for` goes up, and a node never meets a ballot
  of its own it did not start;
- *acceptor*: never accepts below a promise, counts a peer once, for the proposal
  it holds, never changes a decision;
- *window*: `open_min_slot` is the first undecided slot, slots opened later are
  bound by the promises made before, `next_slot` never hands out a proposed slot;
- *proposer*: leads only on a quorum of promises for its present ballot, and only
  while that ballot is the highest it knows;
- *group*: one value per slot and ballot; a decision was accepted by a quorum; two
  replicas never decide differently (and where the code fails to keep this);
- *state machine replica*: each decided value executed once, in slot order;
- *liveness*: while a majority runs and is heard, there is a leader again, nobody
  campaigns against one, competing elections end with one leader whom all follow, and
  what was proposed is decided and learnt everywhere (where the code keeps this: as
  long as elections do not compete);
- *example*: a client that waits has a listener or its answer, no listener stays behind,
  and the replicas look like one atomic store as long as they execute in one order.

## 2. Modules

    Config - Ballots - Acceptors -+- Windows - Handlers -+- PaxosGroup - GroupProperties - MCPaxosGroup
                                  +- Proposers ----------+
                       Handlers - WindowCalls
    Windows, DecisionRanges - SlotVectors (implements WindowCalls) - MCSlotVectors

    GroupProperties -+- Machines (implements ReplicatedLog; with DecisionRanges)
                     +- Elections -+- TimedGroup (implements PaxosGroup)
                                   +- MCElections
    QuorumSlices        KvService (implements AtomicStore)

    WindowProofs (Handlers) -+- GroupProofs (PaxosGroup) -+- AgreementProofs - MachineProofs (Machines)
                             |                            +- ElectionProofs (TimedGroup)
                             +- VectorProofs (SlotVectors)
    QuorumProofs (QuorumSlices)        KvProofs (KvService)

| module | models | correspondence |
|---|---|---|
| `Config` | `src/config.rs` | `Node` is the membership, `Peers(n)` the map of node `n`, `QuorumSize` = `quorum_size()` |
| `Ballots` | `Ballot` of `src/lib.rs` | pairs; `NoBallot` is `None`, which Rust orders below every `Some`; `HigherFor`, `NextBallot` |
| `Acceptors` | `src/acceptor.rs` | a record with `promised()`, `highest_value()` and the counted peers; one operator per method |
| `Windows` | `src/window.rs` | both vectors as one function `acc` from slots to acceptors, with `min` = `open_min_slot`, `end` the slot after the last open one, `max` = `max_promised` |
| `Handlers` | the loops of `src/node.rs` over the window | closed forms: the window after the loop, and what it collected to send |
| `Proposers` | `src/proposer.rs` | a record; one operator per method |
| `PaxosGroup` | `src/node.rs`, `src/commands.rs` | variables `proposer`, `window` (per node), `msgs` (the commands sent), `panicked`; one action per handler |
| `GroupProperties` | | the properties of the group |
| `WindowCalls` | | abstract specification: the window of one replica under any sequence of calls |
| `SlotVectors` | `src/window.rs`, the loops of `src/node.rs` | the two vectors; one `...Visit` per loop body, which `Loop` iterates over the slots as a recursive function; implements `WindowCalls` under `w <- AsWindow(vec)` |
| `DecisionRanges` | `DecisionSet::range` | bounds as records; `StartIndex`, `EndIndex`; `Yielded`, the slots of the iterator |
| `QuorumSlices` | `QuorumSet` of `src/config.rs` | `values`, the places; `heard`, a history of what was inserted; `Search` and `Insert` |
| `ReplicatedLog` | | abstract specification: one log, decided slot by slot, of which replicas apply growing prefixes |
| `Machines` | `src/statemachine.rs` | `next` = `next_execution_slot`, `executed` = the calls of `execute`; `Receive` is a handler of `PaxosGroup` and `TryExecute` in one step, `Tick` does not execute |
| `Elections` | `src/liveness.rs` | `timer` = age of `latest_message`; `Receive` bumps it and runs the handler, `Tick` is `propose_leadership` when `Due`; `pending` is the network, with sender and destination of each command, `alive` the nodes that run |
| `TimedGroup` | | `Elections` with a history variable `sent`, all commands of all calls; it implements `PaxosGroup` under `msgs <- sent` |
| `AtomicStore` | | abstract specification: every request takes effect at one moment between call and return |
| `KvService` | `kvstore.rs`, `service.rs` of the example | `phase` of each request handler, `listeners` = `pending_get` and `pending_set`, `values`; `executed` is the sequence of commands each replica has executed |

How the network is modelled in `PaxosGroup`: `msgs` only grows and any handler may take any
command of it at any time, again and again, or never. That gives loss,
duplication, delay and reordering at once. A command goes to the node its ballot
names, or carries its destination. `Reject` leaves out its sender, which the
handler only logs. The field `omitted` of a `Promise` is not in the code: it
records how many decided slots the promise did not report, for the property
`FullyReported`.

`Elections` needs a network that can be fair, so it delivers each command once:
`msgs` serves as the outbox of the call that runs, `Dispatch` moves it to `pending`,
from where commands are delivered in any order. A node may stop at any moment between two
calls (`Crash`), and takes with it what was on its way to it and any part of what it was
sending: the example posts every command in a task of its process, so a broadcast may have
reached some peers and not others. `LossySpec` adds the loss of other commands. Handlers are those of
`PaxosGroup`, unchanged; a command that its handler would ignore (`Ignores`) is
delivered as well. A handler runs to its end and its commands are on their way
before the next one starts, as `receive` under a mutex does.

This is a different network from that of `PaxosGroup`, and the calls come from the clock
of `Liveness` in place of any moment. `TimedGroup` says that nothing is lost by it: what the
replicas of `Elections` do and send is a behaviour of `PaxosGroup`, in which a node that
stopped is one that nobody hears of any more. That is proved (`TimedIsGroup`) and has no
run: a state that holds every command ever sent tells TLC nothing the proof does not.

Time in `Elections` goes in steps of half a timeout (one second). It passes when
nothing is on its way and every tick that is due has run: the model assumes that a
chain of commands takes less than a second (the example: one machine room, 0.1 s
ticks). Without that assumption no election algorithm terminates. Comparisons with
`>` become `>=` on this grid: after one step "more than half of the timeout" has passed.

`KvService` takes from the group only that it executes nothing that was not submitted:
at any moment a replica may execute any submitted command (`Execute(n, r)`), so replicas
may lag, differ in order, repeat commands or never execute them. `OneOrder` says that they
execute the same commands at the same positions, and none twice. That is what
`ReplicatedLog` promises, as long as `FullyReported` holds (finding 1), for commands that
are decided once (the transport of the example posts a redirected proposal once; the
library does not deduplicate). `StoreIsAtomic` has `OneOrder` as its condition, and the
other properties of the service do not need it. Random request ids are taken to differ, and one key is
followed, since a command touches one. The answer of the executing replica carries the
slot; the model counts the commands a replica has executed from one.

How loops are modelled: `Handlers` says which slots a loop reached before the
first slot that makes it return (`Reached(S, stops)`), opens the slots it opens,
with the promise each gets at that moment, and updates the visited acceptors.
That this is what the loops do, including the drop of each slot reference
(`max_promised`, `fill_decisions`), is what the run `vectors` checks and `VectorProofs`
proves for every number of slots and ballots; it is the reason `SlotVectors` exists.

A node that sends to itself panics in the lookup of its own id among its peers
(`src/config.rs:64`). The model records it in `panicked`, keeps what the handler
did before, and lets the node go on, as an embedding that catches the unwinding
would.

Abstractions: values are compared only, and the no-op is a value of its own;
a `QuorumSet` is the set of its members in the group (`QuorumSlices` and
`QuorumProofs` show when that is the same: the group never inserts beyond a quorum
and asks `contains` only before); metadata, serialisation and logging are
left out; a `Vec` of slots in a command is a set or a function of slots (handlers
visit slots in increasing order: the code builds all of them from increasing
ranges, and `catchup` sorts).

### Bounds

| constant | bounds | guard |
|---|---|---|
| `MaxRound` | the rounds of ballots | `Campaign` |
| `MaxSlot` | the slots a leader proposes | `ProposeLead`, `DriveAccept` (and the two calls of `WindowCalls`, `Fits` in `SlotVectors`) |
| `MaxQueue` | the queue of a candidate | `ProposeFirst`, `ProposeQueue` |
| `MaxMsgs` | the number of different commands sent | `Send` |
| `Clients`, `Timers`, `Heartbeats` | where values and elections come from | `ClientProposal`, `ProposeLeadership` |
| `MaxLosses`, `MaxCrashes` | the commands lost and the nodes stopped | `Lose`, `Crash` |
| `Member`, `Size`, `Request`, `Replica` | nodes and places of a slice, requests and replicas of the example | |
| `MaxExecuted` | the commands a replica of the example executes | `Execute` |

A window has one slot more than can be proposed (`WindowSlot`), the one that stays
open behind the decided ones. No handler runs in part: where it would propose a slot
above `MaxSlot`, or send a command more than `MaxMsgs`, it does not run at all, and the
model says nothing of what the program does from there. A leader needs a slot for every
value, and a new leader proposes all slots that are open at it, so `MaxSlot` is at
least one in the passing runs of the group: at zero no leader that hears of a slot could go on.
Every run with `CHECK_DEADLOCK FALSE` stops where these bounds leave nothing to
do, as the program does when no command is under way. `elections` and `rivals` check
deadlock: there `Rest` is the step of a group with nothing on its way and no timer started,
so a bound in the middle of an election would show as a deadlock.
Their only bounds are the clients' values and the crashes: a liveness property that fails
because a bound stopped the group, or holds because of it, is excluded.

## 3. Runs

| run | instance | properties | shows |
|---|---|---|---|
| `log` | 3 nodes, a client at one and timers at two, rounds 0 and 1, 2 slots, 10 commands, with executions | `TypeOK`, `AgreementWhenReported`, `OneValuePerBallot`, `ResolvedWasChosen`, `OpenMinUndecided`, `MaxPromisedCoversWindow`, `PromiseKept`, `ResolvedIsFinal`, `ExecutesDecided`, `ExecutesOnceInOrder`, `OneLogWhenReported` | leaders that compete over the worst network, adopt what promises report and propose again: a ballot proposes one value for a slot, and decisions agree unless a promise left out a decided slot; holes, catchup, early returns and slots opened late; each machine executes its decided slots once and in order, also after a handler has unwound; together they implement `ReplicatedLog` under the same condition |
| `rounds` | 5 nodes, 2 slots, a client at one and a timer with heartbeats at another, rounds 0 and 1, 9 commands | `ResolvedWasChosen`, `LeaderWasPromised`, `LeaderHoldsHighest`, `FollowsAnother` | quorums that need several different peers; repeated elections with the answers of the earlier ones about |
| `vectors` | one window, 2 ballots, 2 slots, unbounded | `OpenRangeIsExact`, `CallsHold` | the data structure and loops of the code implement the closed forms; ranges of decisions without an inclusive end are exact |
| `elections` | 3 nodes, 2 values, rounds 0 to 3, 5 slots, one crash | `LeadershipReturns`, `NoElectionAgainstLeader` | the leader may stop anywhere: a new one comes and stays, and no timer challenges the leader its node follows |
| `rivals` | 3 nodes, 2 of them with a client and a value each, rounds 0 and 1, 3 slots, nothing lost, no crash | `ProposalsAreLearnt`, `OneLeaderRemains` | elections that compete end with one leader whom all follow; without competition every value is decided and learnt everywhere, also one that a follower redirects |
| `kv` | 2 replicas, 2 writes, 1 read, each replica executes up to 3 commands | `NoLostAnswer`, `ListenersArePruned`, `StoreIsAtomic` | nobody waits in vain and listeners go away, whatever is executed; the store is linearizable as long as the replicas execute in one order |
| `slices` | 5 nodes, 3 places | `QuorumIsDistinctNodes`, `HoldsTheHeard` | a slice counts like a set |
| `agreement` | 3 nodes, 2 clients with 2 values, 1 slot | `Agreement` (violated) | finding 1 |
| `even` | 4 nodes | `ResolvedByMajority` (violated) | finding 2 |
| `selfsend` | 3 nodes, 1 client, 1 timer, round 0, 2 slots | `SendsOnlyToPeers` (violated) | finding 3 |
| `stranded` | as `rivals` | `QueueIsForwarded` (violated) | finding 4 |
| `leaderless` | 3 nodes, one crash, two losses | `LeadershipReturns` (violated) | finding 5 |

Why these bounds are enough for the question asked: two values and two nodes that
campaign are the least that can disagree, and three nodes the least a group may
have (`Acceptor::new` asserts a quorum above one). In `log` the two values are the
client's and the no-op, with which a leader that knows of nothing fills its slot. Ten
commands are an election (2 commands), its `Accept`, `Accepted` and `Resolution`, and as
much again. Within them TLC reaches, among others: two ballots that decide the same slot,
the second with the value its leader heard of in a promise; two `Accept`s with values of
one ballot; a hole filled with the no-op before a further `Accept` of the same ballot; a
leader of round 1 that proposes a value it knows only from a promise for its own ballot
of round 0; a catchup, and one that a node would send to itself. A hole needs two slots; a
slot opened behind a promise needs two slots and two ballots. Three nodes have a
quorum of two, for which one peer suffices, so counting needs the five nodes of `rounds`.
A promise of an earlier election of the same node needs a second round. In `vectors` the
two ballots and the
ballot of a fresh window are the least that make a promise, a rejection and a
preempted proposal; the two slots and the one behind them make holes, drains of more
than one slot, and slots opened in the middle of a loop. The properties of these
three runs, and the safety properties of the others that must pass, are also theorems
(section 5), for every value of the bounds.

The second election after a crash needs ballots of two more nodes, and each election
uses up a slot for its no-op, hence the rounds and slots of `elections`. Stopping one
node is the most three replicas survive, and two values force a second proposal behind
the first one. In `rivals` two clients with a value each are the least that compete: their
elections cross, or one value reaches the other node, as a follower that redirects it to
the leader or as a candidate or leader that queues or proposes it. Greater bounds
on rounds, slots and queues give the same states (TLC finds 729180 either way). `leaderless` adds two losses, of the prepares the two others send each
other. The same instance leaves a queue behind in `stranded`. A slice overflows with one node more
than it has places, and repeats need another. In `kv` a read at one replica and a
write at another make the stores differ in time; a second write makes the order of
writes matter, and three executions at a replica are all commands once, or one of them
again.

Each property has a mutation of the model (operators named `Fault...`, next to
the operators they replace) under which TLC finds it violated: `PROJECT.json` pairs
them.

### Fairness

The safety runs assume none. `ElectionSpec` has `WF(Clock)`: the embedding ticks
(every 0.1 s in `examples/http-paxos/service.rs:46`), a call hands out its commands,
and time goes on; and `WF(Leaves)`: a command on its way is delivered or lost, and
`MaxLosses` bounds the losses. There is no fairness on `Ask`, `Crash` or `Lose`.
The second condition is weak fairness on the network getting smaller (the subscript
is `pending`), which `Deliver` and `Lose` are the only steps to do; it says what
`WF(Deliver)` would, since every command on its way can be delivered.
`KvService` has weak fairness of `Prune` only (periodic, `service.rs:37`). Nothing makes
a replica execute a command: a `Resolution` is broadcast once and not repeated
(`src/node.rs:264`), the example ignores HTTP errors, and only a leader answers a
catchup, so a replica may never learn of a decision and its clients then wait until they
hang up. That is also why no property says that a decided command is answered.

## 4. Findings

1. **A decided slot can be decided again** (`src/node.rs:143`, run `agreement`).
   `prepare` reports the slots of `open_range()`, without the decided ones. A
   candidate that has not learnt a decision gets promises that say nothing of that
   slot and proposes it with a higher ballot. In the trace nodes 1 and 0 compete;
   two replicas resolve slot 0 with different values, against "slot decisions that
   are replicated and stable" (`src/window.rs:184`). `AgreementWhenReported` says how far
   agreement does hold: as long as no leader proposes a slot that a promise for its
   ballot left out.
2. **A quorum of an even group is half of it** (`src/config.rs:41`, run `even`):
   `1 + peers.len() / 2` counts the peers. `src/commands.rs:118` promises a majority.
3. **Catchup to itself** (`src/node.rs:296`, run `selfsend`): a candidate or leader
   that learns a resolution and has a hole asks the owner of the highest ballot,
   itself, and panics.

4. **Stranded proposals** (`src/proposer.rs:57`, run `stranded`): a candidate that
   sees a higher `Prepare` or `Accept` becomes a follower and keeps its queue.
   `forward` ("Forwards pending proposals to the new leader", `src/node.rs:80`) runs in
   `reject` only, and the new leader's heartbeats keep this node from ever campaigning
   again. In the trace nothing is lost, and the client value stays in the queue for ever.
5. **A group without leader** (`src/liveness.rs:48`, run `leaderless`): a lapsed timer is
   cleared and starts again with the next command only. After the leader stopped, both
   others campaign, their prepares to each other are lost, and all timers are
   off, although a majority runs ("Configures the replica to re-establish leadership
   upon failure", `src/lib.rs:102`).

Not counted as findings, but worth knowing when reading the code:

- a node promises to itself without telling its own acceptors (`src/proposer.rs:76`),
  which is harmless because a node accepts its own proposals through `notice_value`;
- `accept` and `accepted` return at a slot that is already resolved and drop the rest of
  the batch (`src/node.rs:217`, `:260`). When a leader stops after its resolution
  reached only some peers, and one that has not got it becomes leader, that one proposes
  the slot again and the others return without an answer. Its slot then stays undecided,
  because a leader has nobody to ask for a catchup: under `ElectionSpec` with one crash a
  survivor may hold an accepted value whose decision it never learns;
- the same returns cost decisions when elections compete, although no node stops and
  nothing is lost. An `Accepted` that covers slots 0 to 2 resolves slot 0 at the leader,
  which returns at slot 1 because the `Resolution` of an earlier leader has reached it:
  slot 0 is never announced and slot 2 never counted, unless later traffic makes a peer
  ask. TLC finds this in a simulation of three values and two clients. A leader that is deposed before
  any peer has accepted its value, and a candidate that is (finding 4), can leave it
  undecided for good. Nothing in the repository promises otherwise; `ProposalsAreLearnt`
  is therefore about groups in which no node stops and no two elections compete
  (`Undisputed`), and `OneLeaderRemains` says what is left when they do;
- `DecisionSet::range` turns an inclusive end `s` into the exclusive end `s - 1`
  (`src/window.rs:207`), so that the slots `s - 1` and `s` are left out; the only caller
  uses an open range. `ExactSizeIterator::len` (`src/window.rs:247`) underflows for a
  range that starts behind the last decision;
- a node inserted in a full `QuorumSet` replaces the last one, although "additional nodes
  will not be added" (`src/config.rs:84`, `:127`), and nodes are stored in the order of
  arrival, not sorted (`:91`, `:124`). The callers are not affected;
- `higher_for` of a ballot of round `u32::MAX` is the lowest round, or a panic in a debug
  build (`src/lib.rs:67`).

## 5. Proofs

All theorems are for every `Node` (finite, at least three numbers), `MaxRound`,
`MaxSlot`, `MaxQueue`, `MaxMsgs`, `MaxLosses` and `MaxCrashes`, and all sets of values, clients and timers, under
the `ASSUME`s of the modules. The bounds on messages and queues play no part in the
arguments; those on rounds and slots only make the types finite. `AgreementHolds` and
`MachinesShareOneLog` assume besides that the size of `Node` is odd: in an even group two
quorums need not meet (finding 2).

| theorem | module | states |
|---|---|---|
| `TypeCorrect` | `GroupProofs` | `Spec => []TypeOK` |
| `LeadershipIsHighest` | `GroupProofs` | `Spec => []LeaderHoldsHighest`, the assertion of `drive_accept` |
| `FollowerFollows` | `GroupProofs` | `Spec => []FollowsAnother`: no handler of a follower sends to itself |
| `DecidedPrefix` | `GroupProofs` | `Spec => []OpenMinUndecided`: the decided slots are the resolved prefix |
| `DecisionsAreFinal` | `GroupProofs` | `Spec => ResolvedIsFinal`: no step loses or changes a decision |
| `MaxPromisedCovers` | `GroupProofs` | `Spec => []MaxPromisedCoversWindow`: later slots are bound by earlier promises |
| `PromisesAreKept` | `GroupProofs` | `Spec => PromiseKept`: no `Accepted` below a `Promise` already sent |
| `LeadersArePromised` | `AgreementProofs` | `Spec => []LeaderWasPromised`: a leader was promised its ballot by a quorum of peers |
| `DecisionsAreChosen` | `AgreementProofs` | `Spec => []ResolvedWasChosen`: what is resolved anywhere was accepted by a quorum at one ballot |
| `LeadersAreConsistent` | `AgreementProofs` | `Spec => []OneValuePerBallot`: what is sent or held for a slot at a ballot is one value |
| `AgreementHolds` | `AgreementProofs` | `Spec => []AgreementWhenReported`, for groups of odd size: no slot is decided twice as long as no leader proposes a slot that a promise for its ballot left out |
| `MachinesKeepUp` | `MachineProofs` | `MachineSpec => []ExecutesDecided`: every machine is level with its log unless a handler unwound, and never ahead |
| `ExecutionsFollowLog` | `MachineProofs` | `MachineSpec => []ExecutesOnceInOrder`: what a machine has executed is its own log, in order, each slot once |
| `MachinesShareOneLog` | `MachineProofs` | `MachineSpec => OneLogWhenReported`, for groups of odd size: the machines implement `ReplicatedLog` |
| `VectorsHoldTheWindow` | `VectorProofs` | `VectorsSpec => CallsHold`: the vectors and loops of the code implement the closed forms, the same window and answer after every call |
| `DecisionRangesAreExact` | `VectorProofs` | `VectorsSpec => []OpenRangeIsExact` |
| `LeaderIsNotChallenged` | `ElectionProofs` | `ElectionSpec => NoElectionAgainstLeader`, for groups of every size: no timer starts an election against the running leader its node follows |
| `TimedIsGroup` | `ElectionProofs` | `TimedSpec => ImplementsGroup`: the timed group implements `PaxosGroup`, with any size, stops and losses |
| `TimedGroupHolds` | `ElectionProofs` | `LossySpec => [](LeaderHoldsHighest /\ FollowsAnother /\ OpenMinUndecided)`: they hold under timers, stops and losses too |
| `TimedDecisionsAreFinal` | `ElectionProofs` | `LossySpec => ResolvedIsFinal`: so do decisions stay |
| `QuorumCounts` | `QuorumProofs` | `SliceSpec => []QuorumIsDistinctNodes`, for every size and order |
| `QuorumRemembers` | `QuorumProofs` | `SliceSpec => []HoldsTheHeard` |
| `NobodyWaitsInVain` | `KvProofs` | `KvSpec => []NoLostAnswer`, for every number of replicas and requests |
| `ServiceIsAtomic` | `KvProofs` | `KvSpec => StoreIsAtomic`: the service implements `AtomicStore` as long as its replicas execute in one order |

`LeaderHoldsHighest` is not inductive: a candidate that observes a ballot of its own
*above* its highest would keep its candidacy with an old proposal. What excludes
this is that nobody else invents ballots of a node. `IInv` says so: `Issued(proposer)`
is the set of ballots not above what their owner has reached, and every ballot in any
acceptor, any `max_promised` and any command is in it. `highest` never goes down, so
`Issued` only grows, and what was good stays good (`MoreBallots`, `IssuedGrows`).

The argument is layered as the code is:

- `WindowProofs`: the order of ballots is total, finite sets of ballots have a highest
  element, sets of slots a first and a last one; `GoodWindow(w, B)`: the window has its type and holds only ballots
  of `B`; every method of an acceptor, the opening of slots, `Update` and
  `FillDecisions` preserve it when the ballot of the call is in `B`; so does each
  handler, and what it collects to send is built from `B`. A window between two
  handlers is `Logged` (below `open_min_slot` all is resolved, and that slot is not)
  and `Bounded` (the ballot of a value is at most the promise of its slot, and that at
  most `max_promised`). In the middle of a handler only the first half of `Logged` holds
  (`Shape`); `FillDecisions` restores the second. `Keeps(w, u)` relates the decisions
  before and after a handler, `Climbs(w, u)` says that it takes no promise back;
- `GroupProofs`: the proposer's methods; one lemma per handler and action, each of which
  reduces to `EffectPreserves` (`HandlerPreserves` takes the handlers together, for any
  command that is good, whether it is in `msgs` or not); then `InitIInv`, `NextIInv` and
  the theorems;
- the second half of `GroupProofs`: `LInv` adds to `IInv` that every window is `Logged`.
  `PInv` adds `Bounded` and
  `PromiseHeld`: whoever sent a `Promise` has promised as much in every slot it has not
  resolved, whether open or to be opened. `PromiseKept` speaks of two messages and needs
  this link through the window. `NextReplies` says that only `prepare` sends a `Promise`
  and only `accept` an `Accepted`.
- the first half of `AgreementProofs`: `EInv` adds to `LInv` that the promises a candidate counts were sent
  to it, at its present ballot, and that a leader counted a quorum of them
  (`Promisers`). `CInv` adds that a value in a window was proposed with its ballot
  (`Backed`), that the peers an acceptor counts have sent their `Accepted`
  (`Accepters`), and that a resolved slot, or a slot of a `Resolution`, was `Chosen`.
  All of these speak of sent commands, of which there are only ever more; the count of
  an acceptor includes the owner of the ballot, which sends itself nothing, and
  `LargerQuorum` accounts for it.
- the second half adds, one invariant after the other:
  - `LeadInv`, `BarInv`: who sent an `Accept` was elected with its ballot, and who sent
    a `Promise` for a ballot, or leads with it, is `Barred` from voting below it;
  - `VoteInv`: a node that voted in a slot (sent an `Accepted`, or proposed) still holds
    a ballot as high there, or has resolved the slot (`Kept`);
  - `OneInv`: a leader opens each slot for a ballot once, so a ballot has one value;
  - `RememberInv`: a `Promise` reports a vote as high as any its sender cast below
    it, or one at a ballot that was chosen, in every slot it did not leave out
    (`Remembers`);
  - `HearInv`: a leader's window is at the height of the votes its quorum of promises
    reported (`Heard`), which `notice_value` takes the highest of;
  - `SafeInv`: a ballot `c` is `Settled` for `v` in a slot if each node of some quorum has
    voted at `c`, which proposes `v`, or can no longer vote at `c`. Every `Accept` finds all lower
    ballots settled for its value. For a new one this rests on the votes its promises
    reported (`Basis`): above the highest, the quorum that promised cannot vote; at the
    highest, the value is that of the ballot; below it, what was settled stays so.

  Two replicas that resolved a slot have quorums of `Accepted` behind them
  (`DecisionsAreChosen`); the lower ballot is settled for the value of the higher, and
  the two quorums meet (`QuorumsMeet`) in a node that voted. This is the classic argument,
  with the difference that a promise is silent about decided slots: `FullyReported` is
  needed for exactly that: the promises a leader counted left out none of the slots it
  proposes.
- `MachineProofs`: `MInv` adds to `LInv` that no machine is ahead of its log. Every
  handler moves `open_min_slot` forward only (`NextHandled` of `GroupProofs`) and in its
  own window only (`Local`), so `try_execute_slots` brings the machine level
  (`TryExecuteCatchesUp`); the only handler that skips it has unwound. `ExecInv` adds that
  `executed` is the log of the replica up to `next_execution_slot`: the slots below that
  are resolved and stay as they are, and the slots of one range after another are listed
  as those of the whole range (`ListedConcat`, from the ranks of the slots of a set). For
  the refinement of `ReplicatedLog` the log is chosen from what the replicas have decided
  (`GroupLog`); `OneLogInv` (`ExecInv` and `SafeInv`) makes that choice agree with the log
  of each replica (`LogHolds`, before and after a step), so a step of the group extends
  the log and lets one machine go on in it (`LogStep`).

- `ElectionProofs`: that the timers leave a leader alone is a matter of which commands
  are on their way at each instant of the clock, `InFlight`: those in `pending` and those
  that the handler which runs has still to dispatch. `Call(n, m)` says what each handler
  does to the proposer of its node and what it must and may send, leaving the slots out;
  `StepIs` reduces every step to a call, a tick of the clock, a stop or nothing. Time
  passes only when nothing is in flight. `ElectionInv` consists of
  - `NInv`: `IInv`, and what is in flight travels from its author to a running node;
  - `Heard`: whoever is candidate or leader has been heard of by every running node, or
    its prepare is in flight to it; `Answered`: a candidate has the promise of each, or its
    prepare or an answer to it is in flight;
  - `Exhausted`: once the timer of a follower of a candidate has moved, the candidate has
    every promise it can get, and is not elected any more with that ballot;
  - `Beats`: a leader whose timer was cleared by its heartbeat has the `Accept` in flight
    to every running node, or an answer in flight to itself;
  - `Fresh`: if the timer of a follower of a leader has moved, it has moved by one only
    and a command of the leader is in flight to it, or the leader's own timer has moved
    too and nothing at all of its ballot is in flight (`First`): then the leader beats
    before the time passes on.

  The property speaks of the leader a node follows (their ballots are equal), and that is
  as much as the timers give. In a group of five or more, the timers of two nodes can run
  out in the same instant after a leader has stopped: one is elected by the promises of
  others before its prepare reaches the second, which then starts an election too. TLC
  finds this in ten steps from such a state.

  `TimedInv` (`NInv` and `LInv`) carries the first invariants of the group over to
  `LossySpec`: what is delivered there is in flight and not in `msgs`, so the lemmas about
  the handlers speak of any good command (`HandlerPreserves`, `HandlerHandled`).

  `TimedIsGroup` carries over the rest: with `sent` for `msgs`, every call is a handler of
  `PaxosGroup` that finds its command among those sent (`SentInv`), and everything else is a
  stutter. The operators of the instance `Group` are other symbols for the prover, so a
  lemma for each says that it is the same operator (`Same...`); the handlers then match
  part by part (`...Implements`). The theorems of `AgreementProofs` are about `Spec`, which
  the instance `Group!Spec` states of `sent`: the last step, from there to agreement in
  the timed group, is that substitution, which this prover does not do (it
  cannot cite a theorem through an instance).

The closed forms of `Handlers`, of which all of the above speaks, are justified by
`VectorProofs`, which shares only `WindowProofs` with the rest:

- the data structure: vectors are a `GoodVector` when the lengths fit and
  nothing that draining forgets, or that a proposal reads as the no-op, hides in an
  acceptor (`Settled`). Each method of `SlotWindow` does to `AsWindow(v)` what the closed
  form says: `FillOpenAs`, `DrainAs`, `SetAcceptorAs`, `SlotMutAs`;
- one loop for all: a loop has a plan, the slots `T` it opens or visits,
  the ballots `F` of its visits and the acceptors `A` it leaves. `Swept(w, T, F, A, k, x)`
  says what the window `w` has become once the slots below `k` are behind the loop. It is
  stronger than the closed form cut off at `k`: a reference that is dropped raises
  `max_promised` and may drain decisions at once, and a slot opened later must still
  get the promise `FreshPromise` names. `Follows` says that each iteration does its part
  of the plan; `LoopEnds`, by induction over the slots, that the loop then leaves
  `FillDecisions(Update(...))`, with what it collected and the early return it took;
- the second half: for each of the six loops its plan (`...Plan`), that it is followed
  (`...Follows`), and the window and answer it leaves (`...Loop`). A batch of values may
  be visited only up to the first slot that is resolved or rejects, where the slot has
  nevertheless been filled (`AcceptFilled`). `Place` is the loop over the queue of
  proposals. Then the steps, with `VecInv`: the vectors are good and hold a window that
  is `Logged` and `Bounded`; the conditions of `WindowCalls` on a call, such as the bound
  on the slots, are those of `SlotVectors` (`Fits`).

The induction over slots and values is the invariant of a counter, `CountUp`, taken over a
set and not over a predicate, which the provers cannot instantiate.

The last two stand alone. `QuorumProofs`: `SliceInv` says that the taken places are
the first ones, hold different nodes, and hold all nodes heard unless the slice is
full; inserting a new node into a slice that is not full adds one to both
cardinalities. `KvProofs`: `KvInv` says that an executed command was submitted (so its
handler has left "new" and its listener was registered before any replica could
execute it). `AtomicInv` adds that each replica stores the last `Set` it has executed
(`StoresFollow`), that listeners are at the home of their request (`ListensAtHome`), and
that an answer is what the request found where its home has executed it (`AnswersFit`). All
of this holds in whatever order replicas execute. As long as they execute in one order
(`OneOrder`, which was true before if it is true now: `OrderBefore`), the log of a replica
that has executed most is the log of all (`LogOfAll`), and an answer is what that log
determines (`AnswersAreFound`). A request takes effect when the first replica executes it:
`Execute` then extends the log, and otherwise leaves it as it is (`LogStep`). So it maps to
a step of the store itself or to a stutter, and calls and answers map to calls and returns
(`StepImplements`). From `MachinesShareOneLog` to `OneOrder` is an argument of this text
and not a theorem: the slots a machine applies, with the no-ops left out, are a prefix of
the values of one log.

Only model-checked: `LeadershipReturns`, `ProposalsAreLearnt`, `OneLeaderRemains` and
`ListenersArePruned`, all of them liveness. Every safety invariant, action property and
refinement of a passing run is a theorem.
Liveness and `ENABLED` are out of reach of the prover, and so is induction over data
with an operator parameter (which is why the extremes of sets are derived from
well-foundedness of relations).

## 6. Not modelled

Every part that changes state is modelled. Left out are serialisation and the
start of the process (`main.rs` of the example: pure I/O); of its transport
(`commands.rs`) `Elections` models that each command is posted once, in a task of its own,
and that failures are ignored. Also left out are logging and node metadata. Restarts are not
modelled, since nothing is persisted: a node that came back would have forgotten its
promises, and the protocol does not hold then. Time is modelled under the synchrony
assumption of section 2. Repeated delivery of the same `Proposal` is allowed in
`KvService`; `StoreIsAtomic` excludes it by its condition.
