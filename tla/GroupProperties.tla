-------------------------- MODULE GroupProperties ---------------------------
(***************************************************************************)
(* What a Paxos group must never do.                                       *)
(***************************************************************************)
EXTENDS PaxosGroup

Sent(type) == {m \in msgs : m.type = type}

\* The values some replica holds as the decision of slot s.
DecisionsOf(s) == {window[n].acc[s].val : n \in {k \in Node : ResolvedAt(window[k], s)}}

(***************************************************************************)
(* Two replicas never resolve a slot to different values, whatever was     *)
(* lost, duplicated or reordered and whoever led.                          *)
(***************************************************************************)
Agreement == \A s \in Slot : Cardinality(DecisionsOf(s)) <= 1

(***************************************************************************)
(* Every election a leader won heard of every slot it went on to propose:  *)
(* no promise for its ballot left out such a slot as already decided.      *)
(***************************************************************************)
FullyReported ==
  \A p \in Sent("Promise") : \A a \in Sent("Accept") :
    a.bal = p.bal => \A s \in DOMAIN a.batch : p.omitted <= s

(***************************************************************************)
(* Agreement as far as the code can keep it: a Promise does not report the *)
(* decided slots (prepare visits open_range only), but if no leader        *)
(* proposed a slot one of its promises left out, decisions agree.          *)
(***************************************************************************)
AgreementWhenReported == FullyReported => Agreement

(***************************************************************************)
(* A slot is only resolved to what its leader proposed with the ballot of  *)
(* the resolution and a phase 2 quorum, the leader included, accepted:     *)
(* the count of acceptor.receive_accepted never mixes ballots or slots.    *)
(***************************************************************************)
Accepting(b, s) ==
  {m.from : m \in {k \in Sent("Accepted") : k.bal = b /\ s \in k.slots}}

ResolvedWasChosen ==
  \A n \in Node : \A s \in Slot :
    LET a == window[n].acc[s]
    IN  IsResolved(a) =>
          /\ \E m \in Sent("Accept") :
               m.bal = a.bal /\ s \in DOMAIN m.batch /\ m.batch[s] = a.val
          /\ Cardinality(Accepting(a.bal, s) \cup {Owner(a.bal)}) >= QuorumSize

(***************************************************************************)
(* The same, as the documentation of Resolution states it: a slot is       *)
(* resolved when a majority of the acceptors has accepted it.              *)
(***************************************************************************)
ResolvedByMajority ==
  \A n \in Node : \A s \in Slot :
    LET a == window[n].acc[s]
    IN  IsResolved(a) =>
          2 * Cardinality(Accepting(a.bal, s) \cup {Owner(a.bal)}) > Cardinality(Node)

(***************************************************************************)
(* A node only proposes with a ballot that a phase 1 quorum of distinct    *)
(* nodes, itself included, has promised: promises for an earlier election  *)
(* of the node and duplicated promises do not count.                       *)
(***************************************************************************)
LeaderWasPromised ==
  \A a \in Sent("Accept") :
    Cardinality({m.from : m \in {k \in Sent("Promise") : k.bal = a.bal}}
                \cup {Owner(a.bal)}) >= QuorumSize

(***************************************************************************)
(* A ballot proposes one value for a slot, over all the Accepts its leader *)
(* sends: those of drive_accept and those of later proposals.              *)
(***************************************************************************)
OneValuePerBallot ==
  \A a \in Sent("Accept") : \A c \in Sent("Accept") :
    a.bal = c.bal =>
      \A s \in DOMAIN a.batch \cap DOMAIN c.batch : a.batch[s] = c.batch[s]

(***************************************************************************)
(* The ballot a candidate or leader uses is its own and the highest it has *)
(* observed: drive_accept asserts it.                                      *)
(***************************************************************************)
LeaderHoldsHighest ==
  \A n \in Node :
    ~IsFollower(proposer[n]) =>
      /\ proposer[n].proposal = proposer[n].highest
      /\ Owner(proposer[n].highest) = n

(***************************************************************************)
(* A follower never takes itself for the leader: the owner of the highest  *)
(* ballot, to whom proposal and forward hand the values, is another node,  *)
(* whatever stale ballots of its own elections come back to it.            *)
(***************************************************************************)
FollowsAnother ==
  \A n \in Node : IsFollower(proposer[n]) => Owner(proposer[n].highest) # n

(***************************************************************************)
(* A replica knows as decided (below open_min_slot) exactly the resolved   *)
(* slots before its first unresolved one, and that one is open: what the   *)
(* comment on SlotWindow::open guarantees, after every handler.            *)
(***************************************************************************)
OpenMinUndecided ==
  \A n \in Node :
    LET w == window[n]
    IN  /\ w.min < w.end /\ ~ResolvedAt(w, w.min)
        /\ \A s \in 0..(w.min - 1) : ResolvedAt(w, s)
        /\ \A s \in WindowSlot : EmptyAt(w, s) => w.acc[s] = Unopened

(***************************************************************************)
(* max_promised is above every ballot an acceptor of the window has        *)
(* promised, so that a slot opened later promises no less.                 *)
(***************************************************************************)
MaxPromisedCoversWindow ==
  \A n \in Node : \A s \in WindowSlot :
    AtMost(window[n].acc[s].promised, window[n].max)
-----------------------------------------------------------------------------
(***************************************************************************)
(* Once a node has promised a ballot, it accepts nothing of a lower one in *)
(* any slot, also in the slots it opens after the promise.                 *)
(***************************************************************************)
PromiseKept ==
  [][\A m \in msgs' \ msgs :
       m.type = "Accepted" /\ m.slots # {} =>
         \A p \in Sent("Promise") : p.from = m.from => AtMost(p.bal, m.bal)]_vars

(***************************************************************************)
(* What a replica has learnt it never forgets or changes, and the decided  *)
(* prefix of its log only grows.                                           *)
(***************************************************************************)
ResolvedIsFinal ==
  [][\A n \in Node :
       /\ window[n].min <= window'[n].min
       /\ \A s \in Slot :
            ResolvedAt(window[n], s) => window'[n].acc[s] = window[n].acc[s]]_vars

(***************************************************************************)
(* No handler unwinds: commands go to peers only ("Sends commands to other *)
(* replicas", Transport).                                                  *)
(***************************************************************************)
SendsOnlyToPeers == panicked = {}
=============================================================================
