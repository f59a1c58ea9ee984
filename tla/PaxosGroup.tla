---------------------------- MODULE PaxosGroup ------------------------------
(***************************************************************************)
(* A Paxos group: the replicas of src/node.rs and the commands they        *)
(* exchange (src/commands.rs).                                             *)
(*                                                                         *)
(* Every call of a Commander or Replica method runs to its end with the    *)
(* replica borrowed exclusively, so each handler is one action.            *)
(*                                                                         *)
(* The Transport promises nothing: commands may be lost, duplicated,       *)
(* delayed and reordered.  The set of commands sent only grows, and a      *)
(* handler may run for any command of it, at any time, any number of times *)
(* or never.                                                               *)
(*                                                                         *)
(* A node that sends to itself fails the lookup `self.config[node]`,       *)
(* because it is not one of its peers, and its handler unwinds.  What the  *)
(* handler has done before stays done; the node is recorded in `panicked`. *)
(***************************************************************************)
EXTENDS Handlers, Proposers

CONSTANTS
  Clients,    \* the nodes whose embedding calls proposal(value)
  Timers,     \* the nodes whose embedding calls propose_leadership(),
  Heartbeats, \* and those of them that do it also while they lead
  MaxMsgs     \* bound: at most this many different commands are sent

ASSUME ClientsAssumption == Clients \subseteq Node

ASSUME TimersAssumption == Heartbeats \subseteq Timers /\ Timers \subseteq Node

ASSUME MaxMsgsAssumption == MaxMsgs \in Nat

VARIABLES
  proposer,   \* the Proposer of each node
  window,     \* the SlotWindow of each node
  msgs,       \* the commands sent so far
  panicked    \* the nodes a handler of which has unwound

vars == <<proposer, window, msgs, panicked>>
-----------------------------------------------------------------------------
(***************************************************************************)
(* Commands.  A ballot names the node a reply goes to, so only the other   *)
(* commands carry their destination.  Reject drops the node that sent it,  *)
(* which its handler only logs.  The `omitted` field of a Promise is not   *)
(* in the code: it is open_min_slot when the promise was made, the number  *)
(* of decided slots the promise does not report.                           *)
(***************************************************************************)
Batch == UNION {[S -> Value] : S \in SUBSET Slot}

Reports == UNION {[S -> [bal : Ballot, val : Value]] : S \in SUBSET Slot}

Message ==
       [type : {"Proposal"}, to : Node, val : ClientValue]
  \cup [type : {"Prepare"}, bal : Ballot]
  \cup [type : {"Promise"}, from : Node, bal : Ballot, report : Reports,
        omitted : WindowSlot]
  \cup [type : {"Accept"}, bal : Ballot, batch : Batch]
  \cup [type : {"Reject"}, proposed : Ballot, preempted : Ballot]
  \cup [type : {"Accepted"}, from : Node, bal : Ballot, slots : SUBSET Slot]
  \cup [type : {"Resolution"}, to : SUBSET Node, bal : Ballot, decisions : Batch]
  \cup [type : {"Catchup"}, to : Node, from : Node, slots : SUBSET WindowSlot]

TypeOK ==
  /\ proposer \in [Node -> Proposer]
  /\ window \in [Node -> Window]
  /\ msgs \subseteq Message
  /\ panicked \subseteq Node

Init ==
  /\ proposer = [n \in Node |-> NewProposer]
  /\ window = [n \in Node |-> NewWindow]
  /\ msgs = {}
  /\ panicked = {}
-----------------------------------------------------------------------------
Send(M) ==
  /\ msgs' = msgs \cup M
  /\ Cardinality(msgs') <= MaxMsgs
  /\ UNCHANGED panicked

\* Node::send, of the commands M to one node.
SendTo(n, to, M) ==
  IF to = n /\ M # {}
    THEN panicked' = panicked \cup {n} /\ UNCHANGED msgs
    ELSE Send(M)

SetProposer(n, p) == proposer' = [proposer EXCEPT ![n] = p]

SetWindow(n, w) == window' = [window EXCEPT ![n] = w]

\* prepare, when its ballot is within the bound on rounds
Campaign(n, p) ==
  LET q == Prepare(p, n)
  IN  /\ q.highest[1] <= MaxRound
      /\ SetProposer(n, q)
      /\ Send({[type |-> "Prepare", bal |-> q.highest]})

AcceptMsg(b, batch) == [type |-> "Accept", bal |-> b, batch |-> batch]
-----------------------------------------------------------------------------
(***************************************************************************)
(* proposal(val), by the state of the proposer.                            *)
(***************************************************************************)
ProposeFirst(n, v) ==       \* nobody is known to lead: start an election
  LET p == proposer[n]
  IN  /\ IsFollower(p) /\ p.highest = NoBallot
      /\ Len(p.queue) < MaxQueue
      /\ Campaign(n, PushProposal(p, v))
      /\ UNCHANGED window

ProposeRedirect(n, v) ==    \* the owner of the highest ballot should lead
  LET p == proposer[n]
      leader == Owner(p.highest)
  IN  /\ IsFollower(p) /\ p.highest # NoBallot
      /\ SendTo(n, leader, {[type |-> "Proposal", to |-> leader, val |-> v]})
      /\ UNCHANGED <<proposer, window>>

ProposeQueue(n, v) ==       \* an election is going on
  LET p == proposer[n]
  IN  /\ IsCandidate(p)
      /\ Len(p.queue) < MaxQueue
      /\ SetProposer(n, PushProposal(p, v))
      /\ UNCHANGED <<window, msgs, panicked>>

ProposeLead(n, v) ==        \* a leader sends the value in the next slot
  LET p == proposer[n]
      s == NextSlot(window[n])
  IN  /\ IsLeader(p)
      /\ s \in Slot
      /\ SetWindow(n, ProposeWindow(window[n], p.proposal, <<v>>))
      /\ Send({AcceptMsg(p.proposal, Const({s}, v))})
      /\ UNCHANGED proposer

Propose(n, v) ==
  \/ ProposeFirst(n, v) \/ ProposeRedirect(n, v)
  \/ ProposeQueue(n, v) \/ ProposeLead(n, v)

\* A client, or a follower that redirects, has a value to propose.
ClientProposal(n) == n \in Clients /\ \E v \in ClientValue : Propose(n, v)

HandleProposal(n, m) == m.type = "Proposal" /\ m.to = n /\ Propose(n, m.val)
-----------------------------------------------------------------------------
(***************************************************************************)
(* propose_leadership: start an election, or repeat the message of the     *)
(* phase the node is in, an Accept without values when it leads.           *)
(***************************************************************************)
NoValues == [s \in {} |-> Noop]

ProposeLeadership(n) ==
  LET p == proposer[n]
  IN  /\ n \in Timers
      /\ \/ IsFollower(p) /\ Campaign(n, p)
         \/ /\ IsCandidate(p)
            /\ Send({[type |-> "Prepare", bal |-> p.proposal]})
            /\ UNCHANGED proposer
         \/ /\ IsLeader(p) /\ n \in Heartbeats
            /\ Send({AcceptMsg(p.proposal, NoValues)})
            /\ UNCHANGED proposer
      /\ UNCHANGED window
-----------------------------------------------------------------------------
(***************************************************************************)
(* prepare(bal): promise, or reject at the first open slot that promised a *)
(* higher ballot.                                                          *)
(***************************************************************************)
PrepareReply(n, w, b) ==
  IF PrepareStops(w, b) = {}
    THEN LET next == PrepareWindow(w, b)
         IN  [type |-> "Promise", from |-> n, bal |-> b,
              report |-> Report(next), omitted |-> next.min]
    ELSE [type |-> "Reject", proposed |-> b, preempted |-> PreparePreempted(w, b)]

HandlePrepare(n, m) ==
  /\ m.type = "Prepare" /\ Owner(m.bal) # n
  /\ SetProposer(n, Observe(proposer[n], m.bal, n))
  /\ SetWindow(n, PrepareWindow(window[n], m.bal))
  /\ SendTo(n, Owner(m.bal), {PrepareReply(n, window[n], m.bal)})

(***************************************************************************)
(* promise(node, bal, accepted): a candidate notes what is reported, of    *)
(* whichever election, and drives the accepts once it leads.  drive_accept *)
(* proposes with the highest ballot observed.                              *)
(***************************************************************************)
DriveAccept(n, p, w) ==
  LET b == p.highest
      driven == DriveWindow(w, b, p.queue)
      batch == DriveValues(driven)
  IN  /\ FreshSlots(w, p.queue) \subseteq Slot
      /\ DOMAIN batch \subseteq Slot
      /\ SetProposer(n, TakeProposals(p))
      /\ SetWindow(n, driven)
      /\ Send({AcceptMsg(b, batch)})

HandlePromise(n, m) ==
  LET p == ReceivePromise(proposer[n], m.from, m.bal)
      w == NoticeReport(window[n], m.report)
  IN  /\ m.type = "Promise" /\ Owner(m.bal) = n
      /\ IsCandidate(proposer[n])
      /\ \/ IsLeader(p) /\ DriveAccept(n, p, w)
         \/ /\ ~IsLeader(p)
            /\ SetProposer(n, p)
            /\ SetWindow(n, w)
            /\ UNCHANGED <<msgs, panicked>>
-----------------------------------------------------------------------------
(***************************************************************************)
(* accept(bal, slot_values).  A slot that is already resolved ends the     *)
(* handler without a reply.                                                *)
(***************************************************************************)
AcceptReplies(n, w, b, batch) ==
  IF AcceptStops(w, b, batch) = {}
    THEN {[type |-> "Accepted", from |-> n, bal |-> b, slots |-> DOMAIN batch]}
    ELSE IF AcceptSilent(w, b, batch) THEN {}
    ELSE {[type |-> "Reject", proposed |-> b,
           preempted |-> AcceptPreempted(w, b, batch)]}

HandleAccept(n, m) ==
  /\ m.type = "Accept" /\ Owner(m.bal) # n
  /\ SetProposer(n, Observe(proposer[n], m.bal, n))
  /\ SetWindow(n, AcceptWindow(window[n], m.bal, m.batch))
  /\ SendTo(n, Owner(m.bal), AcceptReplies(n, window[n], m.bal, m.batch))

(***************************************************************************)
(* reject(node, proposed, promised): then forward() hands the queue of a   *)
(* follower to the owner of the highest ballot, whether or not the reject  *)
(* was used.                                                               *)
(***************************************************************************)
Forward(n, p) ==
  LET leader == Owner(p.highest)
      forwarded == {p.queue[i] : i \in DOMAIN p.queue}
  IN  IF IsFollower(p) /\ p.queue # <<>>
        THEN /\ SetProposer(n, TakeProposals(p))
             /\ IF p.highest = NoBallot
                  THEN UNCHANGED <<msgs, panicked>>
                  ELSE SendTo(n, leader,
                              {[type |-> "Proposal", to |-> leader, val |-> v] :
                                 v \in forwarded})
        ELSE SetProposer(n, p) /\ UNCHANGED <<msgs, panicked>>

HandleReject(n, m) ==
  /\ m.type = "Reject" /\ Owner(m.proposed) = n
  /\ Forward(n, ReceiveReject(proposer[n], m.proposed, m.preempted, n))
  /\ UNCHANGED window

(***************************************************************************)
(* accepted(node, bal, slots).  Resolutions are not broadcast when a slot  *)
(* of the message was resolved before.                                     *)
(***************************************************************************)
HandleAccepted(n, m) ==
  LET w == window[n]
      decisions == NewlyResolved(w, m.from, m.bal, m.slots)
  IN  /\ m.type = "Accepted" /\ Owner(m.bal) = n
      /\ SetProposer(n, Observe(proposer[n], m.bal, n))
      /\ SetWindow(n, AcceptedWindow(w, m.from, m.bal, m.slots))
      /\ IF AcceptedStops(w, m.slots) = {} /\ DOMAIN decisions # {}
           THEN Send({[type |-> "Resolution", to |-> Peers(n), bal |-> m.bal,
                       decisions |-> decisions]})
           ELSE UNCHANGED <<msgs, panicked>>
-----------------------------------------------------------------------------
(***************************************************************************)
(* resolution(bal, slot_vals): a hole in the log makes the node ask the    *)
(* owner of the highest ballot for the missing slots.                      *)
(***************************************************************************)
HandleResolution(n, m) ==
  LET p == Observe(proposer[n], m.bal, n)
      w == ResolutionWindow(window[n], m.bal, m.decisions)
      leader == Owner(p.highest)
  IN  /\ m.type = "Resolution" /\ n \in m.to
      /\ SetProposer(n, p)
      /\ SetWindow(n, w)
      /\ IF w.end > w.min + 1
           THEN SendTo(n, leader,
                       {[type |-> "Catchup", to |-> leader, from |-> n,
                         slots |-> MissingSlots(w)]})
           ELSE UNCHANGED <<msgs, panicked>>

(***************************************************************************)
(* catchup(node, slots): only a leader answers, with one Resolution for    *)
(* each run of decisions of the same ballot.                               *)
(***************************************************************************)
HandleCatchup(n, m) ==
  LET w == window[n]
  IN  /\ m.type = "Catchup" /\ m.to = n
      /\ IsLeader(proposer[n])
      /\ Send({[type |-> "Resolution", to |-> {m.from}, bal |-> w.acc[s].bal,
                decisions |-> [t \in RunOf(w, m.slots, s) |-> w.acc[t].val]] :
                 s \in Decided(w, m.slots)})
      /\ UNCHANGED <<proposer, window>>
-----------------------------------------------------------------------------
(***************************************************************************)
(* Receiver::receive dispatches on the command.                            *)
(***************************************************************************)
OnProposal(n) == \E m \in msgs : HandleProposal(n, m)
OnPrepare(n) == \E m \in msgs : HandlePrepare(n, m)
OnPromise(n) == \E m \in msgs : HandlePromise(n, m)
OnAccept(n) == \E m \in msgs : HandleAccept(n, m)
OnReject(n) == \E m \in msgs : HandleReject(n, m)
OnAccepted(n) == \E m \in msgs : HandleAccepted(n, m)
OnResolution(n) == \E m \in msgs : HandleResolution(n, m)
OnCatchup(n) == \E m \in msgs : HandleCatchup(n, m)

Next ==
  \E n \in Node :
    \/ ClientProposal(n) \/ OnProposal(n) \/ ProposeLeadership(n)
    \/ OnPrepare(n) \/ OnPromise(n)
    \/ OnAccept(n) \/ OnReject(n) \/ OnAccepted(n)
    \/ OnResolution(n) \/ OnCatchup(n)

Spec == Init /\ [][Next]_vars
=============================================================================
