----------------------------- MODULE Elections ------------------------------
(***************************************************************************)
(* A group whose replicas watch their leader: Liveness of src/liveness.rs  *)
(* over the nodes of module PaxosGroup, with a clock, nodes that stop, and *)
(* a network that delivers each command once.                              *)
(*                                                                         *)
(* `msgs`, the commands PaxosGroup has sent, is here the outbox of the     *)
(* call that runs: it is empty before the call, and after it the commands  *)
(* are handed to the network, `pending`, which reorders them.  When a node *)
(* stops, any of the commands it has not sent completely are lost.  In     *)
(* LossySpec the network also loses up to MaxLosses others.                *)
(*                                                                         *)
(* Time passes in steps of half the election timeout (one second), and     *)
(* only when all commands are delivered and all ticks that are due have    *)
(* run: delivery and the tick interval (0.1 s) are short against it.       *)
(***************************************************************************)
EXTENDS GroupProperties

CONSTANTS
  MaxLosses,  \* bound: the network loses at most this many commands
  MaxCrashes  \* bound: at most this many nodes stop

ASSUME FaultsAssumption == MaxLosses \in Nat /\ MaxCrashes \in Nat

VARIABLES
  timer,      \* half timeouts since latest_message of each node, or Cleared
  caller,     \* the node whose call filled the outbox, or Nobody
  pending,    \* commands on their way: <<sender, destination, command>>
  asked,      \* the values clients have proposed, each once
  alive,      \* the nodes that run
  losses      \* the number of commands lost

electionVars == <<proposer, window, msgs, panicked, timer, caller, pending, asked,
                  alive, losses>>

Cleared == -1   \* latest_message is None

Nobody == -1

InitElections ==
  /\ Init
  /\ timer = [n \in Node |-> Cleared]
  /\ caller = Nobody /\ pending = {} /\ asked = {} /\ alive = Node /\ losses = 0
-----------------------------------------------------------------------------
(***************************************************************************)
(* The nodes a command is sent to.                                         *)
(***************************************************************************)
Destinations(m) ==
  CASE m.type \in {"Proposal", "Catchup"} -> {m.to}
    [] m.type = "Resolution" -> m.to
    [] m.type \in {"Prepare", "Accept"} -> Peers(Owner(m.bal))
    [] m.type \in {"Promise", "Accepted"} -> {Owner(m.bal)}
    [] m.type = "Reject" -> {Owner(m.proposed)}

\* The outbox goes to the network; nobody receives for a node that stopped.
Dispatch ==
  /\ msgs # {}
  /\ pending' = pending \cup
       UNION {{caller} \X (Destinations(m) \cap alive) \X {m} : m \in msgs}
  /\ msgs' = {} /\ caller' = Nobody
  /\ UNCHANGED <<proposer, window, panicked, timer, asked, alive, losses>>

Idle == msgs = {}

Calls(n) == caller' = IF msgs' = {} THEN Nobody ELSE n
-----------------------------------------------------------------------------
\* The handlers that return at once, by the state of the proposer.
Ignores(n, m) ==
  \/ m.type = "Promise" /\ ~IsCandidate(proposer[n])
  \/ m.type = "Catchup" /\ ~IsLeader(proposer[n])

Handle(n, m) ==
  \/ HandleProposal(n, m) \/ HandlePrepare(n, m) \/ HandlePromise(n, m)
  \/ HandleAccept(n, m) \/ HandleReject(n, m) \/ HandleAccepted(n, m)
  \/ HandleResolution(n, m) \/ HandleCatchup(n, m)
  \/ Ignores(n, m) /\ UNCHANGED vars

(***************************************************************************)
(* Liveness::receive: any command but a proposal or a catchup bumps the    *)
(* timer, before its handler runs.                                         *)
(***************************************************************************)
\* Fault: only what has been decided bumps.
FaultBump(n, m) ==
  timer' = IF m.type = "Resolution" THEN [timer EXCEPT ![n] = 0] ELSE timer

Bump(n, m) ==
  timer' = IF m.type \in {"Proposal", "Catchup"} THEN timer
                                                 ELSE [timer EXCEPT ![n] = 0]

Receive(d) ==
  /\ Idle
  /\ Handle(d[2], d[3]) /\ Bump(d[2], d[3]) /\ Calls(d[2])
  /\ pending' = pending \ {d}
  /\ UNCHANGED <<asked, alive, losses>>

Deliver == \E d \in pending : Receive(d)

Ask(n, v) ==
  /\ Idle
  /\ n \in alive \cap Clients /\ v \notin asked
  /\ Propose(n, v) /\ Calls(n)
  /\ asked' = asked \cup {v}
  /\ UNCHANGED <<timer, pending, alive, losses>>
-----------------------------------------------------------------------------
(***************************************************************************)
(* Liveness::tick: a leader acts when half of the timeout has passed since *)
(* the latest command, another node after the whole of it.  Then the timer *)
(* is cleared, and only another command starts it again.                   *)
(***************************************************************************)
\* Fault: a leader waits for the whole timeout as well.
FaultDue(n) == timer[n] = 2

Due(n) == IF IsLeader(proposer[n]) THEN timer[n] >= 1 ELSE timer[n] >= 2

Tick(n) ==
  /\ Idle
  /\ n \in alive /\ Due(n)
  /\ ProposeLeadership(n) /\ Calls(n)
  /\ timer' = [timer EXCEPT ![n] = Cleared]
  /\ UNCHANGED <<pending, asked, alive, losses>>

TimePasses ==
  /\ Idle /\ pending = {}
  /\ \A n \in alive : ~Due(n)
  /\ \E n \in alive : timer[n] # Cleared
  /\ timer' = [n \in Node |-> IF n \in alive /\ timer[n] \in 0..1
                                THEN timer[n] + 1 ELSE timer[n]]
  /\ UNCHANGED <<proposer, window, msgs, panicked, caller, pending, asked, alive, losses>>
-----------------------------------------------------------------------------
(***************************************************************************)
(* A node stops for good, with what was on its way to it and some of what  *)
(* it was sending: the tasks that post commands end with their process.    *)
(***************************************************************************)
Crash(n) ==
  /\ Idle
  /\ n \in alive /\ Cardinality(Node \ alive) < MaxCrashes
  /\ alive' = alive \ {n}
  /\ \E unsent \in SUBSET {d \in pending : d[1] = n} :
       pending' = {d \in pending \ unsent : d[2] # n}
  /\ UNCHANGED <<proposer, window, msgs, panicked, timer, caller, asked, losses>>

Lose ==
  /\ Idle /\ losses < MaxLosses
  /\ \E d \in pending : pending' = pending \ {d}
  /\ losses' = losses + 1
  /\ UNCHANGED <<proposer, window, msgs, panicked, timer, caller, asked, alive>>

\* Nothing is left to do: no command on its way, and no timer started.
Rest ==
  /\ Idle /\ pending = {} /\ \A n \in alive : timer[n] = Cleared
  /\ UNCHANGED electionVars

NextElections ==
  \/ Dispatch \/ Deliver \/ TimePasses \/ Rest
  \/ \E n \in Node : Tick(n) \/ Crash(n) \/ \E v \in ClientValue : Ask(n, v)

(***************************************************************************)
(* What is on its way leaves the network, delivered or (in LossySpec, up   *)
(* to MaxLosses times) lost; ticks come every 0.1 s, and the clock goes    *)
(* on.  Clients need not ask and nodes need not stop.                      *)
(***************************************************************************)
Leaves == Idle /\ \E d \in pending : pending' = pending \ {d}

Clock == Dispatch \/ TimePasses \/ \E n \in Node : Tick(n)

Fairness == WF_electionVars(Clock) /\ WF_pending(Leaves)

ElectionSpec == InitElections /\ [][NextElections]_electionVars /\ Fairness

LossySpec == InitElections /\ [][NextElections \/ Lose]_electionVars /\ Fairness
-----------------------------------------------------------------------------
LiveLeader == \E n \in alive : IsLeader(proposer[n])

(***************************************************************************)
(* Once a group has had a leader, it is eventually never without one that  *)
(* runs, although a leader may stop.                                       *)
(***************************************************************************)
LeadershipReturns == (\E n \in Node : IsLeader(proposer[n])) ~> []LiveLeader

(***************************************************************************)
(* A timer never starts an election against the leader its node follows,   *)
(* as long as that leader runs: it shows itself before the timeout of the  *)
(* others has passed.  (A node that has not heard of it yet may still      *)
(* start one: its timer can lapse in the instant the leader is elected.)   *)
(***************************************************************************)
NoElectionAgainstLeader ==
  [][\A n, c \in alive :
       IsLeader(proposer[c]) /\ proposer[c].highest = proposer[n].highest =>
         ~(timer[n] >= 0 /\ timer'[n] = Cleared /\ IsCandidate(proposer'[n]))]_electionVars

(***************************************************************************)
(* As long as no node stops and no election has a rival, every value       *)
(* clients have proposed, at whichever replica and whether or not somebody *)
(* leads by then, is eventually decided, and every replica learns it.      *)
(* (A rival election can leave a value in a queue for ever, see            *)
(* QueueIsForwarded, or let a deposed leader drop it.)                     *)
(***************************************************************************)
Learnt(n, v) ==
  \E s \in Slot : ResolvedAt(window[n], s) /\ window[n].acc[s].val = v

Undisputed ==
  \A n, k \in Node :
    proposer[n].highest # NoBallot /\ proposer[k].highest # NoBallot =>
      proposer[n].highest = proposer[k].highest

ProposalsAreLearnt ==
  [](alive = Node /\ Undisputed) =>
    []<>(\A n \in Node : \A v \in asked : Learnt(n, v))

(***************************************************************************)
(* However elections compete, as long as no node stops they come to one    *)
(* end: once clients ask, a node is elected that leads for ever, and every *)
(* other node follows it.                                                  *)
(***************************************************************************)
Leads(c) ==
  /\ IsLeader(proposer[c])
  /\ \A n \in Node \ {c} :
       IsFollower(proposer[n]) /\ proposer[n].highest = proposer[c].highest

OneLeaderRemains ==
  <>[](alive = Node /\ asked # {} => \E c \in Node : Leads(c))

(***************************************************************************)
(* What the documentation of forward says, "Forwards pending proposals to  *)
(* the new leader": a node that is no longer a candidate does not keep     *)
(* proposals in its queue.                                                 *)
(***************************************************************************)
QueueIsForwarded ==
  []<>(\A n \in alive : IsFollower(proposer[n]) => proposer[n].queue = <<>>)
=============================================================================
