---------------------------- MODULE WindowProofs ----------------------------
(***************************************************************************)
(* Facts about the orders the model takes extremes of: finite sets of      *)
(* ballots have a highest one, and sets of slots a first and a last one.   *)
(*                                                                         *)
(* Then what the handlers preserve of a window, and where its ballots come *)
(* from: a handler puts no ballot in a window but those the window held    *)
(* and those of the command.  The set B of the lemmas below stands for     *)
(* "the ballots issued so far" when they are used.  And what no handler    *)
(* takes back: what is resolved (Keeps) and what is promised (Climbs).     *)
(***************************************************************************)
EXTENDS Handlers, FiniteSetTheorems, WellFoundedInduction, TLAPS

(***************************************************************************)
(* A ballot or its absence is a pair of integers.                          *)
(***************************************************************************)
LEMMA BallotPair ==
  ASSUME NEW b \in BallotOption
  PROVE  /\ b = <<b[1], b[2]>> /\ b[1] \in Int /\ b[2] \in Int
         /\ b[1] >= -1
         /\ b # NoBallot => b \in Ballot /\ b[1] \in Nat /\ b[2] \in Node
<1>1. CASE b = NoBallot
  BY <1>1 DEF NoBallot
<1>2. CASE b \in Ballot
  <2>1. PICK r \in 0..MaxRound, n \in Node : b = <<r, n>>
    BY <1>2 DEF Ballot
  <2>. QED
    BY <2>1, <1>2, NodeAssumption, MaxRoundAssumption
<1>. QED
  BY <1>1, <1>2 DEF BallotOption

(***************************************************************************)
(* Ord for Ballot, extended to Option<Ballot>, is a total order.           *)
(***************************************************************************)
LEMMA BallotOrder ==
  ASSUME NEW a \in BallotOption, NEW b \in BallotOption, NEW c \in BallotOption
  PROVE  /\ AtMost(a, a)
         /\ AtMost(a, b) \/ Less(b, a)
         /\ AtMost(a, b) /\ AtMost(b, c) => AtMost(a, c)
         /\ ~(Less(a, b) /\ AtMost(b, a))
         /\ AtMost(NoBallot, a)
<1>1. /\ a = <<a[1], a[2]>> /\ a[1] \in Int /\ a[2] \in Int
      /\ b = <<b[1], b[2]>> /\ b[1] \in Int /\ b[2] \in Int
      /\ c = <<c[1], c[2]>> /\ c[1] \in Int /\ c[2] \in Int
  BY BallotPair
<1>2. AtMost(NoBallot, a)
  BY NodeAssumption, BallotPair DEF AtMost, Less, NoBallot
<1>3. AtMost(a, b) \/ Less(b, a)
  BY <1>1 DEF AtMost, Less
<1>4. AtMost(a, b) /\ AtMost(b, c) => AtMost(a, c)
  BY <1>1 DEF AtMost, Less
<1>5. ~(Less(a, b) /\ AtMost(b, a))
  BY <1>1 DEF AtMost, Less
<1>. QED
  BY <1>2, <1>3, <1>4, <1>5 DEF AtMost

LEMMA BallotsFinite == IsFiniteSet(BallotOption)
<1>1. IsFiniteSet(Ballot)
  <2>1. IsFiniteSet(0..MaxRound)
    BY FS_Interval, MaxRoundAssumption
  <2>. QED
    BY <2>1, FS_Product, NodeAssumption DEF Ballot
<1>. QED
  BY <1>1, FS_AddElement DEF BallotOption

(***************************************************************************)
(* Highest returns an element of its argument that none exceeds.           *)
(***************************************************************************)
LEMMA HighestIn ==
  ASSUME NEW B \in SUBSET BallotOption, B # {}
  PROVE  Highest(B) \in B /\ \A c \in B : AtMost(c, Highest(B))
<1>. DEFINE HasHighest(S) == \E b \in S : \A c \in S : AtMost(c, b)
            Bad == {S \in SUBSET BallotOption : S # {} /\ ~HasHighest(S)}
<1>1. SUFFICES Bad = {}
  BY DEF Highest
<1>2. SUFFICES ASSUME Bad # {} PROVE FALSE
  OBVIOUS
<1>3. PICK S \in Bad : \A T \in Bad : ~(<<T, S>> \in StrictSubsetOrdering(BallotOption))
  <2>1. IsWellFoundedOn(StrictSubsetOrdering(BallotOption), SUBSET BallotOption)
    BY FS_StrictSubsetOrderingWellFounded, FS_FiniteSubsetsOfFinite, BallotsFinite
  <2>. QED
    BY <2>1, <1>2, WFMin
<1>4. PICK x \in S : TRUE
  OBVIOUS
<1>5. S \ {x} \notin Bad
  BY <1>3 DEF StrictSubsetOrdering
<1>6. CASE S = {x}
  BY <1>6, BallotOrder
<1>7. CASE S # {x}
  <2>1. PICK y \in S \ {x} : \A c \in S \ {x} : AtMost(c, y)
    BY <1>5, <1>7
  <2>2. CASE AtMost(x, y)
    BY <2>1, <2>2
  <2>3. CASE Less(y, x)
    <3>1. \A c \in S : AtMost(c, x)
      BY <2>1, <2>3, BallotOrder DEF AtMost
    <3>. QED
      BY <3>1
  <2>. QED
    BY <2>2, <2>3, BallotOrder
<1>. QED
  BY <1>6, <1>7

(***************************************************************************)
(* A non-empty set of naturals has a least element.                        *)
(***************************************************************************)
LEMMA LeastNatural ==
  ASSUME NEW S \in SUBSET Nat, S # {}
  PROVE  \E x \in S : \A y \in S : x <= y
<1>1. PICK x \in S : \A y \in S : ~(<<y, x>> \in OpToRel(<, Nat))
  BY NatLessThanWellFounded, WFMin
<1>2. \A y \in S : ~(y < x)
  BY <1>1 DEF OpToRel
<1>. QED
  BY <1>2

LEMMA MinIn ==
  ASSUME NEW S \in SUBSET Nat, S # {}
  PROVE  Min(S) \in S /\ \A y \in S : Min(S) <= y
BY LeastNatural DEF Min

LEMMA MaxIn ==
  ASSUME NEW S, S # {}, NEW m \in Nat, S \subseteq 0..m
  PROVE  Max(S) \in S /\ \A y \in S : Max(S) >= y
<1>. DEFINE T == {m - x : x \in S}
<1>1. PICK t \in T : \A u \in T : t <= u
  <2>1. \A x \in S : m - x \in Nat
    OBVIOUS
  <2>2. T \in SUBSET Nat
    BY <2>1
  <2>3. T # {}
    OBVIOUS
  <2>. QED
    BY <2>2, <2>3, LeastNatural
<1>2. PICK x \in S : t = m - x
  OBVIOUS
<1>3. \A y \in S : x >= y
  BY <1>1, <1>2
<1>. QED
  BY <1>3 DEF Max
-----------------------------------------------------------------------------

Ballots(B) == B \in SUBSET BallotOption /\ NoBallot \in B

GoodAcceptor(a, B) ==
  /\ a \in Acceptor
  /\ a.promised \in B /\ a.bal \in B
  /\ HasValue(a) <=> a.bal # NoBallot

GoodWindow(w, B) ==
  /\ w \in Window
  /\ w.max \in B
  /\ \A s \in WindowSlot : GoodAcceptor(w.acc[s], B)
  /\ w.min < w.end
  /\ ~HasValue(w.acc[MaxSlot + 1])
-----------------------------------------------------------------------------
(***************************************************************************)
(* The methods of an acceptor.                                             *)
(***************************************************************************)
LEMMA AwaitValueGood ==
  ASSUME NEW B, Ballots(B), NEW b \in B
  PROVE  GoodAcceptor(AwaitValue(b), B) /\ ~HasValue(AwaitValue(b))
BY DEF GoodAcceptor, AwaitValue, Acceptor, HasValue, Ballots, Value

LEMMA ResolvedGood ==
  ASSUME NEW B, Ballots(B), NEW b \in B, b # NoBallot, NEW v \in Value
  PROVE  GoodAcceptor(Resolved(b, v), B) /\ IsResolved(Resolved(b, v))
BY DEF GoodAcceptor, Resolved, Acceptor, HasValue, IsResolved, Ballots

LEMMA HigherIn ==
  ASSUME NEW B, NEW a \in B, NEW b \in B
  PROVE  Higher(a, b) \in B
BY DEF Higher

LEMMA ReceivePrepareGood ==
  ASSUME NEW B, Ballots(B), NEW b \in B, NEW a, GoodAcceptor(a, B)
  PROVE  /\ GoodAcceptor(ReceivePrepare(a, b), B)
         /\ HasValue(ReceivePrepare(a, b)) <=> HasValue(a)
BY DEF GoodAcceptor, ReceivePrepare, Acceptor, HasValue, IsResolved, Ballots

LEMMA NoticeValueGood ==
  ASSUME NEW B, Ballots(B), NEW b \in B, b # NoBallot, NEW v \in Value,
         NEW a, GoodAcceptor(a, B)
  PROVE  /\ GoodAcceptor(NoticeValue(a, b, v), B)
         /\ IsResolved(NoticeValue(a, b, v)) <=> IsResolved(a)
<1>1. Higher(a.promised, b) \in B
  BY HigherIn DEF GoodAcceptor
<1>2. GoodAcceptor(AwaitQuorum(Higher(a.promised, b), b, v), B)
  BY <1>1 DEF GoodAcceptor, AwaitQuorum, Acceptor, HasValue, Ballots
<1>3. ~IsResolved(AwaitQuorum(Higher(a.promised, b), b, v))
  BY DEF AwaitQuorum, IsResolved
<1>. QED
  BY <1>2, <1>3 DEF NoticeValue

LEMMA ReceiveAcceptGood ==
  ASSUME NEW B, Ballots(B), NEW b \in B, b # NoBallot, NEW v \in Value,
         NEW a, GoodAcceptor(a, B)
  PROVE  GoodAcceptor(ReceiveAccept(a, b, v), B)
<1>1. GoodAcceptor([a EXCEPT !.promised = b], B)
  BY DEF GoodAcceptor, Acceptor, HasValue, Ballots
<1>. QED
  BY <1>1, NoticeValueGood DEF ReceiveAccept

LEMMA ReceiveAcceptedGood ==
  ASSUME NEW B, Ballots(B), NEW b, NEW peer \in Node, NEW a, GoodAcceptor(a, B)
  PROVE  GoodAcceptor(ReceiveAccepted(a, peer, b), B)
<1>1. CASE ReceiveAccepted(a, peer, b) = a
  BY <1>1
<1>2. CASE ReceiveAccepted(a, peer, b) = Resolved(a.bal, a.val) /\ a.st = "AwaitQuorum"
  BY <1>2, ResolvedGood DEF GoodAcceptor, HasValue, Acceptor
<1>3. CASE ReceiveAccepted(a, peer, b) = [a EXCEPT !.quorum = a.quorum \cup {peer}]
  BY <1>3 DEF GoodAcceptor, Acceptor, HasValue
<1>. QED
  BY <1>1, <1>2, <1>3 DEF ReceiveAccepted

LEMMA ResolveGood ==
  ASSUME NEW B, Ballots(B), NEW b \in B, b # NoBallot, NEW v \in Value,
         NEW a, GoodAcceptor(a, B)
  PROVE  GoodAcceptor(Resolve(a, b, v), B)
BY ResolvedGood DEF Resolve
-----------------------------------------------------------------------------
(***************************************************************************)
(* Opening slots, and changing the acceptors of slots.                     *)
(***************************************************************************)
LEMMA WindowRange ==
  ASSUME NEW B, NEW w, GoodWindow(w, B)
  PROVE  /\ OpenRange(w) \subseteq WindowSlot /\ OpenSlots(w) \subseteq OpenRange(w)
         /\ w.min \in WindowSlot /\ w.end - 1 \in WindowSlot /\ w.end \in Nat
         /\ w.max \in BallotOption
         /\ NextSlot(w) \in Nat
BY MaxSlotAssumption DEF GoodWindow, Window, OpenRange, OpenSlots, WindowSlot, NextSlot

LEMMA OpenUpToGood ==
  ASSUME NEW B, Ballots(B), NEW w, GoodWindow(w, B),
         NEW S \in SUBSET WindowSlot, NEW seen \in [S -> B],
         NEW last \in WindowSlot
  PROVE  LET o == OpenUpTo(w, seen, last)
         IN  /\ GoodWindow(o, B)
             /\ o.min = w.min /\ o.end > last /\ o.end >= w.end
<1>. DEFINE o == OpenUpTo(w, seen, last)
<1>1. \A s \in WindowSlot : FreshPromise(w, seen, s) \in B
  <2>1. TAKE s \in WindowSlot
  <2>. DEFINE Seen == {w.max} \cup {seen[p] : p \in Below(seen, s)}
  <2>2. Seen \subseteq B
    BY DEF Below, GoodWindow
  <2>3. Highest(Seen) \in Seen
    BY <2>2, HighestIn DEF Ballots
  <2>. QED
    BY <2>2, <2>3 DEF FreshPromise
<1>2. \A s \in WindowSlot : GoodAcceptor(o.acc[s], B)
  BY <1>1, AwaitValueGood DEF OpenUpTo, GoodWindow, Window
<1>3. ~HasValue(o.acc[MaxSlot + 1])
  BY <1>1, AwaitValueGood, MaxSlotAssumption DEF OpenUpTo, GoodWindow, Window, WindowSlot
<1>4. o.acc \in [WindowSlot -> Acceptor]
  BY <1>2 DEF GoodAcceptor, OpenUpTo, GoodWindow, Window
<1>5. o.end \in 1..(MaxSlot + 2) /\ o.end > last /\ o.end >= w.end
  BY MaxSlotAssumption DEF OpenUpTo, GoodWindow, Window, WindowSlot
<1>6. o.min = w.min /\ o.max = w.max
  BY DEF OpenUpTo, GoodWindow, Window
<1>7. o \in Window
  BY <1>4, <1>5, <1>6 DEF OpenUpTo, GoodWindow, Window
<1>8. o.min < o.end
  BY <1>5, <1>6, MaxSlotAssumption DEF GoodWindow, Window, WindowSlot
<1>. QED
  BY <1>2, <1>3, <1>5, <1>6, <1>7, <1>8 DEF GoodWindow

LEMMA LastOfIn ==
  ASSUME NEW B, NEW w, GoodWindow(w, B), NEW S \in SUBSET WindowSlot
  PROVE  LastOf(w, S) \in WindowSlot /\ \A s \in S : s <= LastOf(w, S)
<1>1. {w.end - 1} \cup S \subseteq 0..(MaxSlot + 1)
  BY WindowRange DEF WindowSlot
<1>. QED
  BY <1>1, MaxIn, MaxSlotAssumption DEF LastOf, WindowSlot

LEMMA OpenedGood ==
  ASSUME NEW B, Ballots(B), NEW w, GoodWindow(w, B),
         NEW S \in SUBSET WindowSlot, NEW seen \in [S -> B]
  PROVE  GoodWindow(Opened(w, seen), B)
<1>1. DOMAIN seen = S
  OBVIOUS
<1>. QED
  BY <1>1, LastOfIn, OpenUpToGood DEF Opened

LEMMA UpdateGood ==
  ASSUME NEW B, Ballots(B), NEW w, GoodWindow(w, B),
         NEW S \in SUBSET WindowSlot, NEW accs, accs = [s \in S |-> accs[s]],
         \A s \in S : GoodAcceptor(accs[s], B),
         MaxSlot + 1 \in S => ~HasValue(accs[MaxSlot + 1])
  PROVE  LET u == Update(w, accs)
         IN  /\ GoodWindow(u, B)
             /\ u.min = w.min /\ u.end = w.end
             /\ \A s \in WindowSlot : u.acc[s] = IF s \in S THEN accs[s] ELSE w.acc[s]
<1>. DEFINE u == Update(w, accs)
            Promised == {w.max} \cup {accs[s].promised : s \in DOMAIN accs}
<1>0. DOMAIN accs = S
  OBVIOUS
<1>1. Promised \subseteq B
  BY <1>0 DEF GoodAcceptor, GoodWindow
<1>2. Highest(Promised) \in B
  BY <1>1, HighestIn DEF Ballots
<1>3. \A s \in WindowSlot : u.acc[s] = IF s \in S THEN accs[s] ELSE w.acc[s]
  BY <1>0 DEF Update, GoodWindow, Window
<1>4. \A s \in WindowSlot : GoodAcceptor(u.acc[s], B)
  BY <1>3 DEF GoodWindow
<1>5. u.acc \in [WindowSlot -> Acceptor]
  BY <1>4 DEF GoodAcceptor, Update, GoodWindow, Window
<1>6. u.min = w.min /\ u.end = w.end /\ u.max \in B
  BY <1>2 DEF Update, GoodWindow, Window
<1>7. u \in Window
  BY <1>5, <1>6, <1>2 DEF Update, GoodWindow, Window, Ballots
<1>8. ~HasValue(u.acc[MaxSlot + 1])
  BY <1>3, MaxSlotAssumption DEF GoodWindow, WindowSlot
<1>. QED
  BY <1>3, <1>4, <1>6, <1>7, <1>8 DEF GoodWindow

(***************************************************************************)
(* fill_decisions moves the decided prefix and leaves a slot open.         *)
(***************************************************************************)
LEMMA FirstUnresolvedIn ==
  ASSUME NEW B, NEW w, GoodWindow(w, B)
  PROVE  LET m == FirstUnresolved(w)
         IN  /\ m \in w.min..w.end /\ m \in WindowSlot
             /\ \A s \in w.min..(m - 1) : ResolvedAt(w, s)
             /\ m < w.end => ~ResolvedAt(w, m)
<1>. DEFINE m == FirstUnresolved(w)
            Ends == {s \in w.min..w.end : s = w.end \/ ~ResolvedAt(w, s)}
<1>1. w.min \in Nat /\ w.end \in Nat /\ w.min < w.end /\ w.end <= MaxSlot + 2
  BY MaxSlotAssumption DEF GoodWindow, Window, WindowSlot
<1>2. Ends \in SUBSET Nat /\ Ends # {}
  BY <1>1
<1>3. PICK e \in Ends : \A y \in Ends : e <= y
  BY <1>2, LeastNatural
<1>4. \A s \in w.min..(e - 1) : ResolvedAt(w, s)
  BY <1>1, <1>3
<1>5. /\ m \in w.min..w.end
      /\ \A s \in w.min..(m - 1) : ResolvedAt(w, s)
      /\ m < w.end => ~ResolvedAt(w, m)
  BY <1>3, <1>4 DEF FirstUnresolved
<1>6. ~ResolvedAt(w, MaxSlot + 1)
  BY DEF GoodWindow, ResolvedAt, IsResolved, HasValue
<1>7. m \in WindowSlot
  BY <1>1, <1>5, <1>6, MaxSlotAssumption DEF WindowSlot
<1>. QED
  BY <1>5, <1>7

LEMMA FillDecisionsGood ==
  ASSUME NEW B, Ballots(B), NEW w, GoodWindow(w, B)
  PROVE  GoodWindow(FillDecisions(w), B)
<1>. DEFINE m == FirstUnresolved(w)
            o == OpenUpTo(w, <<>>, m)
<1>1. m \in WindowSlot
  BY FirstUnresolvedIn
<1>2. <<>> \in [{} -> B]
  OBVIOUS
<1>3. GoodWindow(o, B) /\ m < o.end
  BY <1>1, <1>2, OpenUpToGood, MaxSlotAssumption DEF WindowSlot
<1>4. FillDecisions(w) = [o EXCEPT !.min = m]
  BY DEF FillDecisions
<1>. QED
  BY <1>1, <1>3, <1>4 DEF GoodWindow, Window
-----------------------------------------------------------------------------
(***************************************************************************)
(* Each handler leaves a good window, and what it sends is built from the  *)
(* ballots of the window and of the command.                               *)
(***************************************************************************)
GoodReport(report, B) ==
  \E S \in SUBSET Slot : report \in [S -> [bal : B \ {NoBallot}, val : Value]]

GoodBatch(batch) == \E S \in SUBSET Slot : batch \in [S -> Value]

(***************************************************************************)
(* No slot that can be proposed is the last one of the window.             *)
(***************************************************************************)
LEMMA SlotBound ==
  /\ Slot \subseteq WindowSlot /\ MaxSlot + 1 \notin Slot
  /\ Slot \subseteq Nat /\ WindowSlot \subseteq Nat
BY MaxSlotAssumption DEF Slot, WindowSlot

LEMMA BatchSlots ==
  ASSUME NEW batch, GoodBatch(batch)
  PROVE  DOMAIN batch \subseteq Slot /\ \A s \in DOMAIN batch : batch[s] \in Value
BY DEF GoodBatch

LEMMA ReportSlots ==
  ASSUME NEW B, NEW report, GoodReport(report, B)
  PROVE  /\ DOMAIN report \subseteq Slot
         /\ \A s \in DOMAIN report : /\ report[s].bal \in B \ {NoBallot}
                                     /\ report[s].val \in Value
<1>1. PICK S \in SUBSET Slot : report \in [S -> [bal : B \ {NoBallot}, val : Value]]
  BY DEF GoodReport
<1>2. DOMAIN report = S /\ \A s \in S : report[s] \in [bal : B \ {NoBallot}, val : Value]
  BY <1>1
<1>. QED
  BY <1>2

(***************************************************************************)
(* prepare.                                                                *)
(***************************************************************************)
LEMMA PrepareWindowGood ==
  ASSUME NEW B, Ballots(B), NEW b \in B, NEW w, GoodWindow(w, B)
  PROVE  GoodWindow(PrepareWindow(w, b), B)
<1>. DEFINE P == Reached(OpenSlots(w), PrepareStops(w, b))
            accs == [s \in P |-> ReceivePrepare(w.acc[s], b)]
<1>1. P \in SUBSET WindowSlot
  BY WindowRange DEF Reached
<1>2. \A s \in P : /\ GoodAcceptor(accs[s], B)
                   /\ HasValue(accs[s]) <=> HasValue(w.acc[s])
  BY <1>1, ReceivePrepareGood DEF GoodWindow
<1>3. MaxSlot + 1 \in P => ~HasValue(accs[MaxSlot + 1])
  BY <1>2 DEF GoodWindow
<1>. HIDE DEF P
<1>4. accs = [s \in P |-> accs[s]]
  OBVIOUS
<1>. QED
  BY <1>1, <1>2, <1>3, <1>4, UpdateGood DEF PrepareWindow, P

LEMMA PreemptedGood ==
  ASSUME NEW B, Ballots(B), NEW b \in BallotOption, b # NoBallot,
         NEW c \in B, Less(b, c)
  PROVE  c \in B \ {NoBallot}
<1>1. b[1] >= 0
  BY BallotPair
<1>. QED
  BY <1>1, BallotOrder DEF Ballots, AtMost

LEMMA PreparePreemptedGood ==
  ASSUME NEW B, Ballots(B), NEW b \in BallotOption, b # NoBallot,
         NEW w, GoodWindow(w, B), PrepareStops(w, b) # {}
  PROVE  PreparePreempted(w, b) \in B \ {NoBallot} /\ Less(b, PreparePreempted(w, b))
<1>. DEFINE stops == PrepareStops(w, b)
            first == Min(stops)
<1>1. stops \in SUBSET Nat /\ stops \subseteq WindowSlot
  BY WindowRange DEF PrepareStops, WindowSlot
<1>2. first \in stops
  BY <1>1, MinIn
<1>3. Less(b, w.acc[first].promised) /\ w.acc[first].promised \in B
  BY <1>1, <1>2 DEF PrepareStops, Rejects, GoodWindow, GoodAcceptor
<1>4. w.acc[first].promised \in B \ {NoBallot}
  BY <1>3, PreemptedGood
<1>. QED
  BY <1>3, <1>4 DEF PreparePreempted

LEMMA ReportGood ==
  ASSUME NEW B, Ballots(B), NEW w, GoodWindow(w, B)
  PROVE  GoodReport(Report(w), B)
<1>. DEFINE S == {r \in OpenRange(w) : HasValue(w.acc[r])}
<1>1. S \in SUBSET Slot
  BY WindowRange, MaxSlotAssumption DEF GoodWindow, WindowSlot, Slot
<1>2. \A s \in S : /\ w.acc[s].bal \in B \ {NoBallot}
                   /\ w.acc[s].val \in Value
  BY WindowRange DEF GoodWindow, GoodAcceptor, Acceptor
<1>. QED
  BY <1>1, <1>2 DEF GoodReport, Report

(***************************************************************************)
(* promise and the handlers of a leader.                                   *)
(***************************************************************************)
LEMMA NoticeReportGood ==
  ASSUME NEW B, Ballots(B), NEW w, GoodWindow(w, B),
         NEW report, GoodReport(report, B)
  PROVE  GoodWindow(NoticeReport(w, report), B)
<1>. DEFINE N == {s \in DOMAIN report : ~ResolvedAt(w, s)}
            seen == [s \in N |-> report[s].bal]
            o == Opened(w, seen)
            accs == [s \in N |-> NoticeValue(o.acc[s], report[s].bal, report[s].val)]
<1>1. /\ N \in SUBSET WindowSlot /\ MaxSlot + 1 \notin N
      /\ \A s \in N : report[s].bal \in B \ {NoBallot} /\ report[s].val \in Value
  BY ReportSlots, SlotBound
<1>2. seen \in [N -> B]
  BY <1>1
<1>. HIDE DEF N
<1>3. GoodWindow(o, B)
  BY <1>1, <1>2, OpenedGood
<1>4. \A s \in N : GoodAcceptor(accs[s], B)
  BY <1>1, <1>3, NoticeValueGood DEF GoodWindow
<1>5. accs = [s \in N |-> accs[s]]
  OBVIOUS
<1>6. GoodWindow(Update(o, accs), B)
  BY <1>1, <1>3, <1>4, <1>5, UpdateGood
<1>. QED
  BY <1>6 DEF NoticeReport, N

LEMMA ProposeWindowGood ==
  ASSUME NEW B, Ballots(B), NEW b \in B, b # NoBallot, NEW w, GoodWindow(w, B),
         NEW values \in Seq(Value), FreshSlots(w, values) \subseteq Slot
  PROVE  GoodWindow(ProposeWindow(w, b, values), B)
<1>. DEFINE F == FreshSlots(w, values)
            o == Opened(w, Const(F, b))
            accs == [s \in F |-> NoticeValue(o.acc[s], b, values[s - NextSlot(w) + 1])]
<1>1. F \in SUBSET WindowSlot /\ MaxSlot + 1 \notin F
  BY MaxSlotAssumption DEF Slot, WindowSlot
<1>2. \A s \in F : values[s - NextSlot(w) + 1] \in Value
  BY WindowRange DEF FreshSlots
<1>. HIDE DEF F
<1>3. GoodWindow(o, B)
  BY <1>1, OpenedGood DEF Const
<1>4. \A s \in F : GoodAcceptor(accs[s], B)
  BY <1>1, <1>2, <1>3, NoticeValueGood DEF GoodWindow
<1>5. accs = [s \in F |-> accs[s]]
  OBVIOUS
<1>6. GoodWindow(Update(o, accs), B)
  BY <1>1, <1>3, <1>4, <1>5, UpdateGood
<1>. QED
  BY <1>6 DEF ProposeWindow, F

(***************************************************************************)
(* The batch of drive_accept names every slot it has proposed, so that the *)
(* bound on the batch keeps the last slot of the window without a value.   *)
(***************************************************************************)
LEMMA DriveWindowGood ==
  ASSUME NEW B, Ballots(B), NEW b \in B, b # NoBallot, NEW w, GoodWindow(w, B),
         NEW queue \in Seq(Value), FreshSlots(w, queue) \subseteq Slot,
         DOMAIN DriveValues(DriveWindow(w, b, queue)) \subseteq Slot
  PROVE  /\ GoodWindow(DriveWindow(w, b, queue), B)
         /\ GoodBatch(DriveValues(DriveWindow(w, b, queue)))
<1>. DEFINE p == ProposeWindow(w, b, queue)
            O == OpenSlots(p)
            accs == [s \in O |-> NoticeValue(p.acc[s], b, p.acc[s].val)]
            d == Update(p, accs)
<1>1. GoodWindow(p, B)
  BY ProposeWindowGood
<1>2. O \in SUBSET WindowSlot
  BY <1>1, WindowRange
<1>3. \A s \in O : /\ GoodAcceptor(accs[s], B)
                   /\ IsResolved(accs[s]) <=> IsResolved(p.acc[s])
  BY <1>1, <1>2, NoticeValueGood DEF GoodWindow, GoodAcceptor, Acceptor
<1>4. d = DriveWindow(w, b, queue)
  BY DEF DriveWindow
<1>5. O = OpenSlots(d)
  <2>1. d.min = p.min /\ d.end = p.end
    BY <1>1 DEF Update, GoodWindow, Window
  <2>2. OpenRange(p) \subseteq WindowSlot
    BY <1>1, WindowRange
  <2>3. \A s \in WindowSlot : d.acc[s] = IF s \in O THEN accs[s] ELSE p.acc[s]
    BY <1>1 DEF Update, GoodWindow, Window
  <2>. QED
    BY <1>3, <2>1, <2>2, <2>3 DEF OpenSlots, OpenRange, ResolvedAt
<1>6. MaxSlot + 1 \notin O
  BY <1>4, <1>5, MaxSlotAssumption DEF DriveValues, Slot
<1>. HIDE DEF O
<1>7. accs = [s \in O |-> accs[s]]
  OBVIOUS
<1>8. GoodWindow(d, B)
  BY <1>1, <1>2, <1>3, <1>6, <1>7, UpdateGood
<1>9. GoodBatch(DriveValues(d))
  <2>1. OpenSlots(d) \in SUBSET Slot /\ OpenSlots(d) \subseteq WindowSlot
    BY <1>2, <1>4, <1>5 DEF DriveValues
  <2>2. \A s \in OpenSlots(d) : d.acc[s].val \in Value
    BY <1>8, <2>1 DEF GoodWindow, GoodAcceptor, Acceptor
  <2>. QED
    BY <2>1, <2>2 DEF GoodBatch, DriveValues
<1>. QED
  BY <1>4, <1>8, <1>9

(***************************************************************************)
(* accept.                                                                 *)
(***************************************************************************)
LEMMA AcceptWindowGood ==
  ASSUME NEW B, Ballots(B), NEW b \in B, b # NoBallot, NEW w, GoodWindow(w, B),
         NEW batch, GoodBatch(batch)
  PROVE  GoodWindow(AcceptWindow(w, b, batch), B)
<1>. DEFINE stops == AcceptStops(w, b, batch)
            D == Reached(DOMAIN batch, stops)
            filled == {s \in stops : EmptyAt(w, s) /\ \A t \in stops : s <= t}
            o == OpenUpTo(w, Const(D, b), LastOf(w, D \cup filled))
            accs == [s \in D |-> ReceiveAccept(o.acc[s], b, batch[s])]
<1>1. DOMAIN batch \subseteq Slot /\ \A s \in DOMAIN batch : batch[s] \in Value
  BY BatchSlots
<1>2. /\ D \in SUBSET WindowSlot /\ MaxSlot + 1 \notin D /\ D \subseteq DOMAIN batch
      /\ D \cup filled \in SUBSET WindowSlot
  BY <1>1, SlotBound DEF Reached, AcceptStops
<1>3. LastOf(w, D \cup filled) \in WindowSlot
  BY <1>2, LastOfIn
<1>. HIDE DEF D, filled
<1>4. GoodWindow(o, B)
  BY <1>2, <1>3, OpenUpToGood DEF Const
<1>5. \A s \in D : GoodAcceptor(accs[s], B)
  BY <1>1, <1>2, <1>4, ReceiveAcceptGood DEF GoodWindow
<1>6. accs = [s \in D |-> accs[s]]
  OBVIOUS
<1>7. D \in SUBSET WindowSlot /\ (MaxSlot + 1 \in D => ~HasValue(accs[MaxSlot + 1]))
  BY <1>2
<1>8. GoodWindow(Update(o, accs), B)
  <2>. HIDE DEF o, accs
  <2>. QED
    BY <1>4, <1>5, <1>6, <1>7, UpdateGood
<1>. QED
  BY <1>8 DEF AcceptWindow, D, filled

LEMMA AcceptPreemptedGood ==
  ASSUME NEW B, Ballots(B), NEW b \in BallotOption, b # NoBallot,
         NEW w, GoodWindow(w, B), NEW batch, GoodBatch(batch),
         AcceptStops(w, b, batch) # {}, ~AcceptSilent(w, b, batch)
  PROVE  AcceptPreempted(w, b, batch) \in B \ {NoBallot}
<1>. DEFINE stops == AcceptStops(w, b, batch)
            first == Min(stops)
<1>1. stops \in SUBSET Nat /\ stops \subseteq WindowSlot
  BY BatchSlots, SlotBound DEF AcceptStops
<1>2. first \in stops
  BY <1>1, MinIn
<1>3. ~ResolvedAt(w, first) /\ AcceptPreempted(w, b, batch) = PromisedAt(w, first)
  BY DEF AcceptSilent, AcceptPreempted
<1>4. Less(b, PromisedAt(w, first))
  BY <1>2, <1>3 DEF AcceptStops
<1>5. PromisedAt(w, first) \in B
  BY <1>1, <1>2 DEF PromisedAt, GoodWindow, GoodAcceptor
<1>. QED
  BY <1>3, <1>4, <1>5, PreemptedGood

(***************************************************************************)
(* accepted.                                                               *)
(***************************************************************************)
LEMMA AcceptedWindowGood ==
  ASSUME NEW B, Ballots(B), NEW b, NEW peer \in Node, NEW w, GoodWindow(w, B),
         NEW slots \in SUBSET Slot
  PROVE  GoodWindow(AcceptedWindow(w, peer, b, slots), B)
<1>. DEFINE C == CountedSlots(w, slots)
            accs == [s \in C |-> ReceiveAccepted(w.acc[s], peer, b)]
<1>1. C \in SUBSET WindowSlot /\ MaxSlot + 1 \notin C
  <2>1. C \subseteq slots
    BY DEF CountedSlots, Reached
  <2>. QED
    BY <2>1, SlotBound
<1>. HIDE DEF C
<1>2. \A s \in C : GoodAcceptor(accs[s], B)
  BY <1>1, ReceiveAcceptedGood DEF GoodWindow
<1>3. accs = [s \in C |-> accs[s]]
  OBVIOUS
<1>4. GoodWindow(Update(w, accs), B)
  BY <1>1, <1>2, <1>3, UpdateGood
<1>. QED
  BY <1>4, FillDecisionsGood DEF AcceptedWindow, C

LEMMA NewlyResolvedGood ==
  ASSUME NEW B, NEW b, NEW peer, NEW w, GoodWindow(w, B), NEW slots \in SUBSET Slot
  PROVE  GoodBatch(NewlyResolved(w, peer, b, slots))
<1>. DEFINE S == {r \in CountedSlots(w, slots) :
                    IsResolved(ReceiveAccepted(w.acc[r], peer, b))}
<1>1. S \in SUBSET Slot /\ S \subseteq WindowSlot
  <2>1. CountedSlots(w, slots) \subseteq slots
    BY DEF CountedSlots, Reached
  <2>. QED
    BY <2>1, SlotBound
<1>2. \A s \in S : w.acc[s].val \in Value
  BY <1>1 DEF GoodWindow, GoodAcceptor, Acceptor
<1>. QED
  BY <1>1, <1>2 DEF NewlyResolved, GoodBatch

(***************************************************************************)
(* resolution and catchup.                                                 *)
(***************************************************************************)
LEMMA ResolutionWindowGood ==
  ASSUME NEW B, Ballots(B), NEW b \in B, b # NoBallot, NEW w, GoodWindow(w, B),
         NEW decisions, GoodBatch(decisions)
  PROVE  GoodWindow(ResolutionWindow(w, b, decisions), B)
<1>. DEFINE L == {s \in DOMAIN decisions : ~ResolvedAt(w, s)}
            o == Opened(w, Const(L, b))
            accs == [s \in L |-> Resolve(o.acc[s], b, decisions[s])]
<1>1. /\ L \in SUBSET WindowSlot /\ MaxSlot + 1 \notin L
      /\ \A s \in L : decisions[s] \in Value
  BY BatchSlots, SlotBound
<1>. HIDE DEF L
<1>2. GoodWindow(o, B)
  BY <1>1, OpenedGood DEF Const
<1>3. \A s \in L : GoodAcceptor(accs[s], B)
  BY <1>1, <1>2, ResolveGood DEF GoodWindow
<1>4. accs = [s \in L |-> accs[s]]
  OBVIOUS
<1>5. GoodWindow(Update(o, accs), B)
  BY <1>1, <1>2, <1>3, <1>4, UpdateGood
<1>. QED
  BY <1>5, FillDecisionsGood DEF ResolutionWindow, L

LEMMA DecidedGood ==
  ASSUME NEW B, NEW w, GoodWindow(w, B), NEW slots \in SUBSET WindowSlot,
         NEW s \in Decided(w, slots)
  PROVE  /\ w.acc[s].bal \in B \ {NoBallot}
         /\ GoodBatch([t \in RunOf(w, slots, s) |-> w.acc[t].val])
<1>1. Decided(w, slots) \subseteq Slot /\ Decided(w, slots) \subseteq WindowSlot
  BY MaxSlotAssumption
  DEF Decided, ResolvedAt, IsResolved, GoodWindow, HasValue, Slot, WindowSlot
<1>2. \A t \in Decided(w, slots) : w.acc[t].bal \in B \ {NoBallot} /\ w.acc[t].val \in Value
  BY <1>1 DEF Decided, ResolvedAt, IsResolved, GoodWindow, GoodAcceptor, HasValue, Acceptor
<1>3. RunOf(w, slots, s) \in SUBSET Slot /\ RunOf(w, slots, s) \subseteq Decided(w, slots)
  BY <1>1 DEF RunOf
<1>. QED
  BY <1>2, <1>3 DEF GoodBatch
-----------------------------------------------------------------------------
(***************************************************************************)
(* Shape is what holds of a window in the middle of a handler, before      *)
(* fill_decisions has looked for resolved slots at open_min_slot.          *)
(***************************************************************************)
Shape(w) ==
  /\ \A s \in WindowSlot : s < w.min => ResolvedAt(w, s)
  /\ \A s \in WindowSlot : EmptyAt(w, s) => w.acc[s] = Unopened

Logged(w) == Shape(w) /\ ~ResolvedAt(w, w.min)

\* u comes after w: nothing w has resolved is lost or changed.
Keeps(w, u) ==
  /\ w.min <= u.min
  /\ \A s \in WindowSlot : ResolvedAt(w, s) => u.acc[s] = w.acc[s]

LEMMA WindowFields ==
  ASSUME NEW w \in Window
  PROVE  w.min \in WindowSlot /\ w.min \in Nat /\ w.end \in Nat
<1>1. w.min \in WindowSlot /\ w.end \in 1..(MaxSlot + 2)
  BY DEF Window
<1>2. w.min \in Nat
  BY <1>1, MaxSlotAssumption DEF WindowSlot
<1>3. w.end \in Nat
  BY <1>1, MaxSlotAssumption
<1>. QED
  BY <1>1, <1>2, <1>3

LEMMA KeepsTransitive ==
  ASSUME NEW w, NEW u, NEW x, w.min \in Nat, u.min \in Nat, x.min \in Nat,
         Keeps(w, u), Keeps(u, x)
  PROVE  Keeps(w, x)
<1>1. w.min <= x.min
  BY DEF Keeps
<1>2. ASSUME NEW s \in WindowSlot, ResolvedAt(w, s)
      PROVE  x.acc[s] = w.acc[s]
  <2>1. u.acc[s] = w.acc[s]
    BY <1>2 DEF Keeps
  <2>2. ResolvedAt(u, s)
    BY <1>2, <2>1 DEF ResolvedAt
  <2>. QED
    BY <2>1, <2>2 DEF Keeps
<1>. QED
  BY <1>1, <1>2 DEF Keeps

LEMMA KeepsSelf ==
  ASSUME NEW w \in Window
  PROVE  Keeps(w, w)
BY WindowFields DEF Keeps
-----------------------------------------------------------------------------
(***************************************************************************)
(* The three steps handlers are made of.                                   *)
(***************************************************************************)
LEMMA OpenUpToLogged ==
  ASSUME NEW w \in Window, Shape(w), NEW seen, NEW last \in WindowSlot
  PROVE  LET o == OpenUpTo(w, seen, last)
         IN  /\ Shape(o) /\ Keeps(w, o)
             /\ o.min = w.min /\ last < o.end /\ w.end <= o.end
             /\ \A s \in WindowSlot : ResolvedAt(o, s) <=> ResolvedAt(w, s)
             /\ Logged(w) => Logged(o)
<1>. DEFINE o == OpenUpTo(w, seen, last)
<1>1. /\ w.min \in WindowSlot /\ w.end \in Nat /\ last \in Nat /\ w.min \in Nat
      /\ WindowSlot \subseteq Nat
  BY SlotBound, WindowFields
<1>2. /\ o.min = w.min /\ o.end = IF w.end <= last THEN last + 1 ELSE w.end
      /\ \A s \in WindowSlot : o.acc[s] = IF w.end <= s /\ s <= last
                                            THEN AwaitValue(FreshPromise(w, seen, s))
                                            ELSE w.acc[s]
  BY DEF OpenUpTo, Window
<1>3. \A s \in WindowSlot : ResolvedAt(o, s) <=> ResolvedAt(w, s)
  <2>1. \A p : ~IsResolved(AwaitValue(p))
    BY DEF AwaitValue, IsResolved
  <2>. QED
    BY <1>1, <1>2, <2>1 DEF ResolvedAt, Shape, EmptyAt, Unopened
<1>4. last < o.end /\ w.end <= o.end
  BY <1>1, <1>2
<1>5. Shape(o)
  BY <1>1, <1>2, <1>3 DEF Shape, EmptyAt
<1>6. Keeps(w, o)
  <2>1. \A s \in WindowSlot : ResolvedAt(w, s) => ~EmptyAt(w, s)
    BY DEF Shape, Unopened, AwaitValue, ResolvedAt, IsResolved
  <2>. QED
    BY <1>1, <1>2, <2>1 DEF Keeps, EmptyAt
<1>. QED
  BY <1>1, <1>2, <1>3, <1>4, <1>5, <1>6 DEF Logged

LEMMA UpdateLogged ==
  ASSUME NEW w \in Window, Shape(w), NEW S \in SUBSET WindowSlot,
         NEW accs, accs = [s \in S |-> accs[s]],
         \A s \in S : s < w.end /\ ~ResolvedAt(w, s)
  PROVE  LET u == Update(w, accs)
         IN  /\ Shape(u) /\ Keeps(w, u)
             /\ u.min = w.min /\ u.end = w.end
             /\ Logged(w) /\ (\A s \in S : ~IsResolved(accs[s])) => Logged(u)
<1>. DEFINE u == Update(w, accs)
<1>1. w.min \in WindowSlot /\ w.min \in Nat /\ w.end \in Nat /\ WindowSlot \subseteq Nat
  BY SlotBound, WindowFields
<1>2. DOMAIN accs = S
  OBVIOUS
<1>3. /\ u.min = w.min /\ u.end = w.end
      /\ \A s \in WindowSlot : u.acc[s] = IF s \in S THEN accs[s] ELSE w.acc[s]
  BY <1>2 DEF Update, Window
<1>4. Shape(u) /\ Keeps(w, u)
  BY <1>1, <1>3 DEF Shape, Keeps, EmptyAt, ResolvedAt
<1>. QED
  BY <1>1, <1>3, <1>4 DEF Logged, ResolvedAt

LEMMA FillDecisionsLogged ==
  ASSUME NEW B, NEW w, GoodWindow(w, B), Shape(w)
  PROVE  Logged(FillDecisions(w)) /\ Keeps(w, FillDecisions(w))
<1>. DEFINE m == FirstUnresolved(w)
            o == OpenUpTo(w, <<>>, m)
            u == FillDecisions(w)
<1>1. /\ m \in WindowSlot /\ m \in w.min..w.end
      /\ \A s \in w.min..(m - 1) : ResolvedAt(w, s)
      /\ m < w.end => ~ResolvedAt(w, m)
  BY FirstUnresolvedIn
<1>2. /\ w \in Window /\ w.min \in Nat /\ w.end \in Nat /\ m \in Nat
      /\ WindowSlot \subseteq Nat
  BY <1>1, SlotBound, WindowFields DEF GoodWindow
<1>3. /\ Shape(o) /\ Keeps(w, o) /\ o.min = w.min
      /\ \A s \in WindowSlot : ResolvedAt(o, s) <=> ResolvedAt(w, s)
  <2>. HIDE DEF m
  <2>. QED
    BY <1>1, <1>2, OpenUpToLogged
<1>4. u.acc = o.acc /\ u.min = m /\ u.end = o.end
  BY <1>2 DEF FillDecisions, OpenUpTo, Window
<1>5. \A s \in WindowSlot : s < m => ResolvedAt(w, s)
  <2>. HIDE DEF m
  <2>. QED
    BY <1>1, <1>2 DEF Shape
<1>6. ~ResolvedAt(w, m)
  <2>. HIDE DEF m
  <2>1. CASE m < w.end
    BY <1>1, <2>1
  <2>2. CASE m = w.end
    <3>1. w.acc[m] = Unopened
      BY <1>1, <1>2, <2>2 DEF Shape, EmptyAt
    <3>. QED
      BY <3>1 DEF Unopened, AwaitValue, ResolvedAt, IsResolved
  <2>. QED
    BY <1>1, <1>2, <2>1, <2>2
<1>7. Logged(u)
  <2>. HIDE DEF m, o, u
  <2>1. \A s \in WindowSlot : ResolvedAt(u, s) <=> ResolvedAt(w, s)
    BY <1>3, <1>4 DEF ResolvedAt
  <2>2. \A s \in WindowSlot : EmptyAt(u, s) => u.acc[s] = Unopened
    BY <1>3, <1>4 DEF Shape, EmptyAt
  <2>. QED
    BY <1>1, <1>4, <1>5, <1>6, <2>1, <2>2 DEF Logged, Shape
<1>8. Keeps(w, u)
  <2>. HIDE DEF m, o, u
  <2>. QED
    BY <1>1, <1>2, <1>3, <1>4 DEF Keeps
<1>. QED
  BY <1>7, <1>8
-----------------------------------------------------------------------------
(***************************************************************************)
(* The handlers.                                                           *)
(***************************************************************************)
LEMMA Unresolved ==
  ASSUME NEW B, NEW a, GoodAcceptor(a, B), ~IsResolved(a), NEW b, NEW v
  PROVE  /\ ~IsResolved(ReceivePrepare(a, b))
         /\ ~IsResolved(NoticeValue(a, b, v))
         /\ ~IsResolved(ReceiveAccept(a, b, v))
<1>. DEFINE promising == [a EXCEPT !.promised = b]
<1>1. ~IsResolved(promising)
  BY DEF GoodAcceptor, Acceptor, IsResolved
<1>2. \A c : ~IsResolved(AwaitQuorum(c, b, v))
  BY DEF AwaitQuorum, IsResolved
<1>3. \A c : ~IsResolved(c) => ~IsResolved(NoticeValue(c, b, v))
  BY <1>2 DEF NoticeValue
<1>. HIDE DEF promising
<1>. QED
  BY <1>1, <1>3 DEF ReceivePrepare, ReceiveAccept, promising

LEMMA OpenedUnresolved ==
  ASSUME NEW B, Ballots(B), NEW w, GoodWindow(w, B), Shape(w),
         NEW S \in SUBSET WindowSlot, NEW seen \in [S -> B],
         NEW last \in WindowSlot, \A s \in S : ~ResolvedAt(w, s)
  PROVE  \A s \in S : LET a == OpenUpTo(w, seen, last).acc[s]
                      IN  GoodAcceptor(a, B) /\ ~IsResolved(a)
<1>1. w \in Window
  BY DEF GoodWindow
<1>2. GoodWindow(OpenUpTo(w, seen, last), B)
  BY OpenUpToGood
<1>. QED
  BY <1>1, <1>2, OpenUpToLogged DEF GoodWindow, ResolvedAt

\* Visiting unresolved slots, some of which the visit opens.
LEMMA VisitLogged ==
  ASSUME NEW B, Ballots(B), NEW w, GoodWindow(w, B), Shape(w),
         NEW S \in SUBSET WindowSlot, NEW seen \in [S -> B],
         NEW last \in WindowSlot,
         \A s \in S : s <= last /\ ~ResolvedAt(w, s),
         NEW accs, accs = [s \in S |-> accs[s]]
  PROVE  LET o == OpenUpTo(w, seen, last)
             u == Update(o, accs)
         IN  /\ Shape(u) /\ Keeps(w, u) /\ u.min = w.min
             /\ Logged(w) /\ (\A s \in S : ~IsResolved(accs[s])) => Logged(u)
<1>. DEFINE o == OpenUpTo(w, seen, last)
            u == Update(o, accs)
<1>1. w \in Window /\ w.min \in Nat
  BY WindowFields DEF GoodWindow
<1>2. GoodWindow(o, B) /\ o \in Window /\ o.end \in Nat
  <2>1. GoodWindow(o, B)
    BY OpenUpToGood
  <2>. QED
    BY <2>1, WindowFields DEF GoodWindow
<1>3. /\ Shape(o) /\ Keeps(w, o) /\ o.min = w.min /\ last < o.end
      /\ \A s \in WindowSlot : ResolvedAt(o, s) <=> ResolvedAt(w, s)
      /\ Logged(w) => Logged(o)
  BY <1>1, OpenUpToLogged
<1>. HIDE DEF o
<1>4. \A s \in S : s < o.end /\ ~ResolvedAt(o, s)
  BY <1>2, <1>3, SlotBound
<1>5. /\ Shape(u) /\ Keeps(o, u) /\ u.min = o.min
      /\ Logged(o) /\ (\A s \in S : ~IsResolved(accs[s])) => Logged(u)
  BY <1>2, <1>3, <1>4, UpdateLogged
<1>6. Keeps(w, u)
  BY <1>1, <1>3, <1>5, KeepsTransitive
<1>. QED
  BY <1>3, <1>5, <1>6 DEF o

LEMMA PrepareLogged ==
  ASSUME NEW B, NEW b, NEW w, GoodWindow(w, B), Logged(w)
  PROVE  LET u == PrepareWindow(w, b) IN Logged(u) /\ Keeps(w, u)
<1>. DEFINE P == Reached(OpenSlots(w), PrepareStops(w, b))
            accs == [s \in P |-> ReceivePrepare(w.acc[s], b)]
<1>1. w \in Window /\ w.end \in Nat
  BY WindowFields DEF GoodWindow
<1>2. P \in SUBSET WindowSlot /\ \A s \in P : s < w.end /\ ~ResolvedAt(w, s)
  <2>1. P \subseteq OpenSlots(w) /\ OpenSlots(w) \subseteq WindowSlot
    BY WindowRange DEF Reached
  <2>2. \A s \in OpenSlots(w) : s < w.end /\ ~ResolvedAt(w, s)
    BY <1>1, WindowFields DEF OpenSlots, OpenRange
  <2>. QED
    BY <2>1, <2>2
<1>. HIDE DEF P
<1>3. accs = [s \in P |-> accs[s]] /\ \A s \in P : ~IsResolved(accs[s])
  BY <1>2, Unresolved DEF ResolvedAt, GoodWindow
<1>. HIDE DEF accs
<1>4. LET u == Update(w, accs) IN Logged(u) /\ Keeps(w, u)
  BY <1>1, <1>2, <1>3, UpdateLogged DEF Logged
<1>. QED
  BY <1>4 DEF PrepareWindow, P, accs

LEMMA NoticeReportLogged ==
  ASSUME NEW B, Ballots(B), NEW w, GoodWindow(w, B), Logged(w),
         NEW report, GoodReport(report, B)
  PROVE  LET u == NoticeReport(w, report) IN Logged(u) /\ Keeps(w, u)
<1>. DEFINE N == {s \in DOMAIN report : ~ResolvedAt(w, s)}
            seen == [s \in N |-> report[s].bal]
            last == LastOf(w, N)
            o == OpenUpTo(w, seen, last)
            accs == [s \in N |-> NoticeValue(o.acc[s], report[s].bal, report[s].val)]
<1>1. N \in SUBSET WindowSlot /\ \A s \in N : report[s].bal \in B /\ ~ResolvedAt(w, s)
  BY ReportSlots, SlotBound
<1>2. NoticeReport(w, report) = Update(o, accs)
  BY DEF NoticeReport, Opened
<1>. HIDE DEF N
<1>3. last \in WindowSlot /\ \A s \in N : s <= last
  BY <1>1, LastOfIn
<1>4. seen \in [N -> B]
  BY <1>1
<1>. HIDE DEF seen, last
<1>5. \A s \in N : GoodAcceptor(o.acc[s], B) /\ ~IsResolved(o.acc[s])
  BY <1>1, <1>3, <1>4, OpenedUnresolved DEF Logged
<1>6. accs = [s \in N |-> accs[s]] /\ \A s \in N : ~IsResolved(accs[s])
  BY <1>5, Unresolved
<1>. HIDE DEF accs
<1>7. LET u == Update(o, accs) IN Logged(u) /\ Keeps(w, u)
  BY <1>1, <1>3, <1>4, <1>6, VisitLogged DEF Logged
<1>. QED
  BY <1>2, <1>7

LEMMA FreshUnresolved ==
  ASSUME NEW B, NEW w, GoodWindow(w, B), Shape(w),
         NEW s \in WindowSlot, s >= NextSlot(w)
  PROVE  ~ResolvedAt(w, s)
<1>1. w.end \in Nat /\ s \in Nat
  BY WindowFields, SlotBound DEF GoodWindow
<1>2. CASE s >= w.end
  BY <1>2 DEF Shape, EmptyAt, Unopened, AwaitValue, ResolvedAt, IsResolved
<1>3. CASE s = w.end - 1 /\ ~HasValue(w.acc[s])
  BY <1>3 DEF HasValue, ResolvedAt, IsResolved
<1>. QED
  BY <1>1, <1>2, <1>3 DEF NextSlot

LEMMA ProposeLogged ==
  ASSUME NEW B, Ballots(B), NEW b \in B, NEW w, GoodWindow(w, B), Logged(w),
         NEW values \in Seq(Value), FreshSlots(w, values) \subseteq Slot
  PROVE  LET u == ProposeWindow(w, b, values) IN Logged(u) /\ Keeps(w, u)
<1>. DEFINE F == FreshSlots(w, values)
            last == LastOf(w, F)
            o == OpenUpTo(w, Const(F, b), last)
            accs == [s \in F |-> NoticeValue(o.acc[s], b, values[s - NextSlot(w) + 1])]
<1>1. F \in SUBSET WindowSlot /\ \A s \in F : ~ResolvedAt(w, s)
  <2>1. F \in SUBSET WindowSlot
    BY SlotBound
  <2>2. \A s \in F : s >= NextSlot(w)
    BY WindowRange DEF FreshSlots
  <2>. QED
    BY <2>1, <2>2, FreshUnresolved DEF Logged
<1>2. ProposeWindow(w, b, values) = Update(o, accs)
  BY DEF ProposeWindow, Opened, Const
<1>. HIDE DEF F
<1>3. last \in WindowSlot /\ \A s \in F : s <= last
  BY <1>1, LastOfIn
<1>4. Const(F, b) \in [F -> B]
  BY DEF Const
<1>. HIDE DEF last
<1>5. \A s \in F : GoodAcceptor(o.acc[s], B) /\ ~IsResolved(o.acc[s])
  BY <1>1, <1>3, <1>4, OpenedUnresolved DEF Logged
<1>6. accs = [s \in F |-> accs[s]] /\ \A s \in F : ~IsResolved(accs[s])
  BY <1>5, Unresolved
<1>. HIDE DEF accs
<1>7. LET u == Update(o, accs) IN Logged(u) /\ Keeps(w, u)
  BY <1>1, <1>3, <1>4, <1>6, VisitLogged DEF Logged
<1>. QED
  BY <1>2, <1>7

LEMMA DriveLogged ==
  ASSUME NEW B, Ballots(B), NEW b \in B, b # NoBallot, NEW w, GoodWindow(w, B),
         Logged(w), NEW queue \in Seq(Value), FreshSlots(w, queue) \subseteq Slot
  PROVE  LET u == DriveWindow(w, b, queue) IN Logged(u) /\ Keeps(w, u)
<1>. DEFINE p == ProposeWindow(w, b, queue)
            O == OpenSlots(p)
            accs == [s \in O |-> NoticeValue(p.acc[s], b, p.acc[s].val)]
            u == Update(p, accs)
<1>1. GoodWindow(p, B) /\ Logged(p) /\ Keeps(w, p)
  BY ProposeWindowGood, ProposeLogged
<1>2. u = DriveWindow(w, b, queue)
  BY DEF DriveWindow
<1>. HIDE DEF p
<1>3. /\ w \in Window /\ w.min \in Nat
      /\ p \in Window /\ p.min \in Nat /\ p.end \in Nat
  BY <1>1, WindowFields DEF GoodWindow
<1>4. O \in SUBSET WindowSlot /\ \A s \in O : s < p.end /\ ~ResolvedAt(p, s)
  <2>1. O \in SUBSET WindowSlot
    BY <1>1, WindowRange
  <2>2. \A s \in O : s < p.end /\ ~ResolvedAt(p, s)
    BY <1>3 DEF OpenSlots, OpenRange
  <2>. QED
    BY <2>1, <2>2
<1>. HIDE DEF O
<1>5. accs = [s \in O |-> accs[s]] /\ \A s \in O : ~IsResolved(accs[s])
  BY <1>1, <1>4, Unresolved DEF GoodWindow, ResolvedAt
<1>. HIDE DEF accs
<1>6. Logged(u) /\ Keeps(p, u) /\ u.min = p.min
  BY <1>1, <1>3, <1>4, <1>5, UpdateLogged DEF Logged
<1>7. Keeps(w, u)
  BY <1>1, <1>3, <1>6, KeepsTransitive
<1>. QED
  BY <1>2, <1>6, <1>7

LEMMA AcceptLogged ==
  ASSUME NEW B, Ballots(B), NEW b \in B, b # NoBallot, NEW w, GoodWindow(w, B),
         Logged(w), NEW batch, GoodBatch(batch)
  PROVE  LET u == AcceptWindow(w, b, batch) IN Logged(u) /\ Keeps(w, u)
<1>. DEFINE stops == AcceptStops(w, b, batch)
            D == Reached(DOMAIN batch, stops)
            filled == {s \in stops : EmptyAt(w, s) /\ \A t \in stops : s <= t}
            last == LastOf(w, D \cup filled)
            o == OpenUpTo(w, Const(D, b), last)
            accs == [s \in D |-> ReceiveAccept(o.acc[s], b, batch[s])]
<1>1. AcceptWindow(w, b, batch) = Update(o, accs)
  BY DEF AcceptWindow
<1>2. D \in SUBSET WindowSlot /\ D \cup filled \in SUBSET WindowSlot
  BY BatchSlots, SlotBound DEF Reached, AcceptStops
<1>3. \A s \in D : ~ResolvedAt(w, s)
  <2>1. \A s \in D : s \in Nat /\ s \in DOMAIN batch /\ \A t \in stops : s < t
    BY <1>2, SlotBound DEF Reached
  <2>2. \A s \in D : s \notin stops
    BY <2>1
  <2>. QED
    BY <2>1, <2>2 DEF AcceptStops
<1>. HIDE DEF D, filled
<1>4. last \in WindowSlot /\ \A s \in D : s <= last
  BY <1>2, LastOfIn
<1>5. Const(D, b) \in [D -> B]
  BY DEF Const
<1>. HIDE DEF last
<1>6. \A s \in D : GoodAcceptor(o.acc[s], B) /\ ~IsResolved(o.acc[s])
  BY <1>2, <1>3, <1>4, <1>5, OpenedUnresolved DEF Logged
<1>7. accs = [s \in D |-> accs[s]] /\ \A s \in D : ~IsResolved(accs[s])
  BY <1>6, Unresolved
<1>. HIDE DEF accs
<1>8. LET u == Update(o, accs) IN Logged(u) /\ Keeps(w, u)
  BY <1>2, <1>3, <1>4, <1>5, <1>7, VisitLogged DEF Logged
<1>. QED
  BY <1>1, <1>8

LEMMA FilledAfter ==
  ASSUME NEW B, Ballots(B), NEW w, GoodWindow(w, B), NEW u, GoodWindow(u, B),
         Shape(u), Keeps(w, u)
  PROVE  LET f == FillDecisions(u) IN Logged(f) /\ Keeps(w, f)
<1>. DEFINE f == FillDecisions(u)
<1>1. Logged(f) /\ Keeps(u, f)
  BY FillDecisionsLogged
<1>2. w.min \in Nat /\ u.min \in Nat /\ f.min \in Nat
  BY FillDecisionsGood, WindowFields DEF GoodWindow
<1>. HIDE DEF f
<1>3. Keeps(w, f)
  BY <1>1, <1>2, KeepsTransitive
<1>. QED
  BY <1>1, <1>3 DEF f

LEMMA AcceptedLogged ==
  ASSUME NEW B, Ballots(B), NEW b, NEW peer \in Node, NEW w, GoodWindow(w, B),
         Logged(w), NEW slots \in SUBSET Slot
  PROVE  LET u == AcceptedWindow(w, peer, b, slots) IN Logged(u) /\ Keeps(w, u)
<1>. DEFINE C == CountedSlots(w, slots)
            accs == [s \in C |-> ReceiveAccepted(w.acc[s], peer, b)]
            u == Update(w, accs)
<1>1. AcceptedWindow(w, peer, b, slots) = FillDecisions(u)
  BY DEF AcceptedWindow
<1>2. /\ w \in Window /\ w.min \in Nat /\ w.end \in Nat
  BY WindowFields DEF GoodWindow
<1>3. /\ C \in SUBSET WindowSlot /\ MaxSlot + 1 \notin C
      /\ \A s \in C : s < w.end /\ ~ResolvedAt(w, s)
  <2>1. C \subseteq slots /\ C \subseteq OpenSlots(w)
    BY DEF CountedSlots, Reached
  <2>2. \A s \in OpenSlots(w) : s < w.end /\ ~ResolvedAt(w, s)
    BY <1>2 DEF OpenSlots, OpenRange
  <2>. QED
    BY <2>1, <2>2, SlotBound
<1>. HIDE DEF C
<1>4. \A s \in C : GoodAcceptor(accs[s], B)
  BY <1>3, ReceiveAcceptedGood DEF GoodWindow
<1>5. accs = [s \in C |-> accs[s]]
  OBVIOUS
<1>. HIDE DEF accs
<1>6. GoodWindow(u, B)
  BY <1>3, <1>4, <1>5, UpdateGood
<1>7. Shape(u) /\ Keeps(w, u)
  BY <1>2, <1>3, <1>5, UpdateLogged DEF Logged
<1>8. LET f == FillDecisions(u) IN Logged(f) /\ Keeps(w, f)
  BY <1>2, <1>6, <1>7, FilledAfter
<1>. QED
  BY <1>1, <1>8

LEMMA ResolutionLogged ==
  ASSUME NEW B, Ballots(B), NEW b \in B, b # NoBallot, NEW w, GoodWindow(w, B),
         Logged(w), NEW decisions, GoodBatch(decisions)
  PROVE  LET u == ResolutionWindow(w, b, decisions) IN Logged(u) /\ Keeps(w, u)
<1>. DEFINE L == {s \in DOMAIN decisions : ~ResolvedAt(w, s)}
            last == LastOf(w, L)
            o == OpenUpTo(w, Const(L, b), last)
            accs == [s \in L |-> Resolve(o.acc[s], b, decisions[s])]
            u == Update(o, accs)
<1>1. /\ L \in SUBSET WindowSlot /\ MaxSlot + 1 \notin L
      /\ \A s \in L : decisions[s] \in Value /\ ~ResolvedAt(w, s)
  BY BatchSlots, SlotBound
<1>2. ResolutionWindow(w, b, decisions) = FillDecisions(u)
  BY DEF ResolutionWindow, Opened, Const
<1>. HIDE DEF L
<1>3. last \in WindowSlot /\ \A s \in L : s <= last
  BY <1>1, LastOfIn
<1>4. Const(L, b) \in [L -> B]
  BY DEF Const
<1>. HIDE DEF last
<1>5. GoodWindow(o, B)
  BY <1>1, <1>3, <1>4, OpenUpToGood
<1>6. \A s \in L : GoodAcceptor(accs[s], B)
  BY <1>1, <1>5, ResolveGood DEF GoodWindow
<1>7. accs = [s \in L |-> accs[s]]
  OBVIOUS
<1>. HIDE DEF accs, o
<1>8. GoodWindow(u, B)
  BY <1>1, <1>5, <1>6, <1>7, UpdateGood
<1>9. Shape(u) /\ Keeps(w, u)
  BY <1>1, <1>3, <1>4, <1>7, VisitLogged DEF Logged, o
<1>10. LET f == FillDecisions(u) IN Logged(f) /\ Keeps(w, f)
  BY <1>8, <1>9, FilledAfter
<1>. QED
  BY <1>2, <1>10
-----------------------------------------------------------------------------
(***************************************************************************)
(* An acceptor has promised the ballot of the value it holds, and          *)
(* max_promised is above every promise.                                    *)
(***************************************************************************)
Bounded(w) ==
  \A s \in WindowSlot : /\ AtMost(w.acc[s].bal, w.acc[s].promised)
                        /\ AtMost(w.acc[s].promised, w.max)

\* u comes after w: what an unresolved slot has promised, opened or not, grows.
Climbs(w, u) ==
  /\ AtMost(w.max, u.max)
  /\ \A s \in WindowSlot :
       ~ResolvedAt(u, s) => AtMost(PromisedAt(w, s), PromisedAt(u, s))

LEMMA WindowBallots ==
  ASSUME NEW B, Ballots(B), NEW w, GoodWindow(w, B)
  PROVE  /\ w.max \in BallotOption
         /\ \A s \in WindowSlot : /\ w.acc[s].promised \in BallotOption
                                  /\ w.acc[s].bal \in BallotOption
                                  /\ PromisedAt(w, s) \in BallotOption
BY DEF Ballots, GoodWindow, GoodAcceptor, PromisedAt

LEMMA ClimbsTransitive ==
  ASSUME NEW B, Ballots(B), NEW w, NEW u, NEW x,
         GoodWindow(w, B), GoodWindow(u, B), GoodWindow(x, B),
         Climbs(w, u), Climbs(u, x), Keeps(u, x)
  PROVE  Climbs(w, x)
<1>1. AtMost(w.max, x.max)
  BY WindowBallots, BallotOrder DEF Climbs
<1>2. ASSUME NEW s \in WindowSlot, ~ResolvedAt(x, s)
      PROVE  AtMost(PromisedAt(w, s), PromisedAt(x, s))
  <2>1. ~ResolvedAt(u, s)
    BY <1>2 DEF Keeps, ResolvedAt
  <2>2. AtMost(PromisedAt(w, s), PromisedAt(u, s)) /\ AtMost(PromisedAt(u, s), PromisedAt(x, s))
    BY <1>2, <2>1 DEF Climbs
  <2>. QED
    BY <2>2, WindowBallots, BallotOrder
<1>. QED
  BY <1>1, <1>2 DEF Climbs
-----------------------------------------------------------------------------
(***************************************************************************)
(* The steps handlers are made of.                                         *)
(***************************************************************************)
LEMMA UpdateRaises ==
  ASSUME NEW B, Ballots(B), NEW w, GoodWindow(w, B),
         NEW S \in SUBSET WindowSlot, NEW accs, accs = [s \in S |-> accs[s]],
         \A s \in S : accs[s].promised \in B
  PROVE  LET u == Update(w, accs)
         IN  /\ u.max \in BallotOption /\ AtMost(w.max, u.max)
             /\ u.max = w.max \/ \E s \in S : u.max = accs[s].promised
             /\ \A s \in S : AtMost(accs[s].promised, u.max)
             /\ u.end = w.end
             /\ \A s \in WindowSlot : u.acc[s] = IF s \in S THEN accs[s] ELSE w.acc[s]
<1>. DEFINE u == Update(w, accs)
            P == {w.max} \cup {accs[s].promised : s \in S}
<1>1. DOMAIN accs = S
  OBVIOUS
<1>2. P \in SUBSET BallotOption /\ P # {}
  BY DEF Ballots, GoodWindow
<1>3. u.max = Highest(P)
  BY <1>1 DEF Update, GoodWindow, Window
<1>4. u.max \in P /\ \A b \in P : AtMost(b, u.max)
  BY <1>2, <1>3, HighestIn
<1>5. u.end = w.end /\ \A s \in WindowSlot : u.acc[s] = IF s \in S THEN accs[s] ELSE w.acc[s]
  BY <1>1 DEF Update, GoodWindow, Window
<1>. HIDE DEF u
<1>. QED
  BY <1>2, <1>4, <1>5 DEF u

\* A fresh promise is max_promised or a ballot seen before, whichever is higher.
LEMMA FreshPromiseIn ==
  ASSUME NEW B, Ballots(B), NEW w, GoodWindow(w, B),
         NEW S \in SUBSET WindowSlot, NEW seen \in [S -> B], NEW s \in WindowSlot
  PROVE  LET f == FreshPromise(w, seen, s)
         IN  /\ f \in BallotOption /\ AtMost(w.max, f)
             /\ f = w.max \/ \E p \in S : f = seen[p]
<1>. DEFINE P == {w.max} \cup {seen[p] : p \in Below(seen, s)}
<1>1. Below(seen, s) \subseteq S
  BY DEF Below
<1>2. P \in SUBSET BallotOption /\ P # {}
  BY <1>1 DEF Ballots, GoodWindow
<1>3. Highest(P) \in P /\ AtMost(w.max, Highest(P))
  BY <1>2, HighestIn
<1>4. FreshPromise(w, seen, s) = Highest(P)
  BY DEF FreshPromise
<1>. HIDE DEF P
<1>5. FreshPromise(w, seen, s) \in P
  BY <1>3, <1>4
<1>. QED
  BY <1>1, <1>2, <1>3, <1>4, <1>5 DEF P

LEMMA OpenUpToClimbs ==
  ASSUME NEW B, Ballots(B), NEW w, GoodWindow(w, B),
         NEW last \in WindowSlot,
         NEW seen, \A s \in WindowSlot : AtMost(w.max, FreshPromise(w, seen, s))
  PROVE  LET o == OpenUpTo(w, seen, last)
         IN  /\ Climbs(w, o) /\ o.max = w.max
             /\ \A s \in WindowSlot :
                  \/ o.acc[s] = w.acc[s]
                  \/ /\ o.acc[s] = AwaitValue(FreshPromise(w, seen, s))
                     /\ EmptyAt(w, s)
<1>. DEFINE o == OpenUpTo(w, seen, last)
<1>1. /\ o.max = w.max /\ o.end = IF w.end <= last THEN last + 1 ELSE w.end
      /\ \A s \in WindowSlot : o.acc[s] = IF w.end <= s /\ s <= last
                                            THEN AwaitValue(FreshPromise(w, seen, s))
                                            ELSE w.acc[s]
  BY DEF OpenUpTo, GoodWindow, Window
<1>2. /\ w.end \in Nat /\ last \in Nat /\ WindowSlot \subseteq Nat
      /\ o.end \in Nat /\ w.end <= o.end
  <2>1. w.end \in Nat /\ last \in Nat /\ WindowSlot \subseteq Nat
    BY WindowFields, SlotBound DEF GoodWindow
  <2>. QED
    BY <1>1, <2>1
<1>. HIDE DEF o
<1>3. \A s \in WindowSlot : \/ o.acc[s] = w.acc[s]
                            \/ /\ o.acc[s] = AwaitValue(FreshPromise(w, seen, s))
                               /\ EmptyAt(w, s)
  BY <1>1, <1>2 DEF EmptyAt
<1>4. ASSUME NEW s \in WindowSlot
      PROVE  AtMost(PromisedAt(w, s), PromisedAt(o, s))
  <2>1. w.max \in BallotOption /\ PromisedAt(w, s) \in BallotOption
    BY WindowBallots
  <2>2. CASE EmptyAt(w, s) /\ EmptyAt(o, s)
    BY <1>1, <2>1, <2>2, BallotOrder DEF PromisedAt
  <2>3. CASE EmptyAt(w, s) /\ ~EmptyAt(o, s)
    <3>1. w.end <= s /\ s <= last
      BY <1>1, <1>2, <2>3 DEF EmptyAt
    <3>2. o.acc[s] = AwaitValue(FreshPromise(w, seen, s))
      BY <1>1, <3>1
    <3>3. o.acc[s].promised = FreshPromise(w, seen, s)
      BY <3>2 DEF AwaitValue
    <3>. QED
      BY <2>3, <3>3 DEF PromisedAt
  <2>4. CASE ~EmptyAt(w, s)
    <3>1. s \in Nat /\ s < w.end
      BY <1>2, <2>4 DEF EmptyAt
    <3>2. ~EmptyAt(o, s)
      BY <1>2, <3>1 DEF EmptyAt
    <3>3. o.acc[s] = w.acc[s]
      BY <1>1, <1>2, <3>1
    <3>. QED
      BY <2>1, <2>4, <3>2, <3>3, BallotOrder DEF PromisedAt
  <2>. QED
    BY <2>2, <2>3, <2>4
<1>5. Climbs(w, o)
  BY <1>1, <1>4, WindowBallots, BallotOrder DEF Climbs
<1>. QED
  BY <1>1, <1>3, <1>5 DEF o

LEMMA ClimbsSelf ==
  ASSUME NEW B, Ballots(B), NEW w, GoodWindow(w, B)
  PROVE  Climbs(w, w)
BY WindowBallots, BallotOrder DEF Climbs

LEMMA UpdateClimbs ==
  ASSUME NEW B, Ballots(B), NEW w, GoodWindow(w, B), NEW o, GoodWindow(o, B),
         Climbs(w, o), NEW S \in SUBSET WindowSlot, NEW accs, accs = [s \in S |-> accs[s]],
         \A s \in S : accs[s].promised \in B /\ ~EmptyAt(o, s),
         \A s \in S : ~IsResolved(accs[s]) => AtMost(PromisedAt(w, s), accs[s].promised)
  PROVE  Climbs(w, Update(o, accs))
<1>. DEFINE u == Update(o, accs)
<1>1. /\ u.max \in BallotOption /\ AtMost(o.max, u.max) /\ u.end = o.end
      /\ \A s \in WindowSlot : u.acc[s] = IF s \in S THEN accs[s] ELSE o.acc[s]
  BY UpdateRaises
<1>2. \A s \in WindowSlot : EmptyAt(u, s) <=> EmptyAt(o, s)
  BY <1>1 DEF EmptyAt
<1>. HIDE DEF u
<1>3. AtMost(w.max, u.max)
  BY <1>1, WindowBallots, BallotOrder DEF Climbs
<1>4. ASSUME NEW s \in WindowSlot, ~ResolvedAt(u, s)
      PROVE  AtMost(PromisedAt(w, s), PromisedAt(u, s))
  <2>1. CASE s \in S
    <3>1. u.acc[s] = accs[s] /\ ~EmptyAt(u, s)
      BY <1>1, <1>2, <2>1
    <3>. QED
      BY <1>4, <2>1, <3>1 DEF ResolvedAt, PromisedAt
  <2>2. CASE s \notin S
    <3>1. u.acc[s] = o.acc[s]
      BY <1>1, <2>2
    <3>2. AtMost(PromisedAt(w, s), PromisedAt(o, s))
      BY <1>4, <3>1 DEF Climbs, ResolvedAt
    <3>3. CASE EmptyAt(o, s)
      <4>1. PromisedAt(o, s) = o.max /\ PromisedAt(u, s) = u.max
        BY <1>2, <3>3 DEF PromisedAt
      <4>. QED
        BY <1>1, <3>2, <4>1, WindowBallots, BallotOrder
    <3>4. CASE ~EmptyAt(o, s)
      BY <1>2, <3>1, <3>2, <3>4 DEF PromisedAt
    <3>. QED
      BY <3>3, <3>4
  <2>. QED
    BY <2>1, <2>2
<1>. QED
  BY <1>3, <1>4 DEF Climbs, u

LEMMA UpdateBounded ==
  ASSUME NEW B, Ballots(B), NEW w, GoodWindow(w, B), Bounded(w),
         NEW S \in SUBSET WindowSlot, NEW accs, accs = [s \in S |-> accs[s]],
         \A s \in S : GoodAcceptor(accs[s], B) /\ AtMost(accs[s].bal, accs[s].promised)
  PROVE  Bounded(Update(w, accs))
<1>. DEFINE u == Update(w, accs)
<1>1. /\ u.max \in BallotOption /\ AtMost(w.max, u.max)
      /\ \A s \in S : AtMost(accs[s].promised, u.max)
      /\ \A s \in WindowSlot : u.acc[s] = IF s \in S THEN accs[s] ELSE w.acc[s]
  BY UpdateRaises DEF GoodAcceptor
<1>. HIDE DEF u
<1>2. ASSUME NEW s \in WindowSlot, s \notin S
      PROVE  AtMost(u.acc[s].bal, u.acc[s].promised) /\ AtMost(u.acc[s].promised, u.max)
  BY <1>1, <1>2, WindowBallots, BallotOrder DEF Bounded
<1>. QED
  BY <1>1, <1>2 DEF Bounded, u

\* What a visit opens is bounded once the visited slots are updated.
LEMMA VisitBounded ==
  ASSUME NEW B, Ballots(B), NEW w, GoodWindow(w, B), Bounded(w),
         NEW S \in SUBSET WindowSlot, NEW seen \in [S -> B], NEW last \in WindowSlot,
         NEW accs, accs = [s \in S |-> accs[s]],
         \A s \in S : /\ GoodAcceptor(accs[s], B)
                      /\ AtMost(accs[s].bal, accs[s].promised)
                      /\ AtMost(seen[s], accs[s].promised)
  PROVE  Bounded(Update(OpenUpTo(w, seen, last), accs))
<1>. DEFINE o == OpenUpTo(w, seen, last)
            u == Update(o, accs)
<1>1. /\ GoodWindow(o, B) /\ o.max = w.max
      /\ \A s \in WindowSlot : \/ o.acc[s] = w.acc[s]
                              \/ o.acc[s] = AwaitValue(FreshPromise(w, seen, s))
  BY OpenUpToGood, FreshPromiseIn, OpenUpToClimbs
<1>. HIDE DEF o
<1>2. /\ u.max \in BallotOption /\ AtMost(w.max, u.max)
      /\ \A s \in S : AtMost(accs[s].promised, u.max)
      /\ \A s \in WindowSlot : u.acc[s] = IF s \in S THEN accs[s] ELSE o.acc[s]
  BY <1>1, UpdateRaises DEF GoodAcceptor
<1>. HIDE DEF u
<1>3. \A s \in S : /\ accs[s].promised \in BallotOption /\ seen[s] \in BallotOption
                   /\ AtMost(seen[s], u.max)
  <2>1. \A s \in S : accs[s].promised \in BallotOption /\ seen[s] \in BallotOption
    BY DEF GoodAcceptor, Ballots
  <2>. QED
    BY <1>2, <2>1, BallotOrder
<1>4. ASSUME NEW s \in WindowSlot, s \notin S
      PROVE  AtMost(u.acc[s].bal, u.acc[s].promised) /\ AtMost(u.acc[s].promised, u.max)
  <2>1. CASE o.acc[s] = w.acc[s]
    BY <1>2, <1>4, <2>1, WindowBallots, BallotOrder DEF Bounded
  <2>2. CASE o.acc[s] = AwaitValue(FreshPromise(w, seen, s))
    <3>. DEFINE f == FreshPromise(w, seen, s)
    <3>1. f \in BallotOption /\ (f = w.max \/ \E p \in S : f = seen[p])
      BY FreshPromiseIn
    <3>2. u.acc[s].promised = f /\ u.acc[s].bal = NoBallot
      BY <1>2, <1>4, <2>2 DEF AwaitValue
    <3>. HIDE DEF f
    <3>3. AtMost(f, u.max)
      BY <1>2, <1>3, <3>1
    <3>. QED
      BY <3>1, <3>2, <3>3, BallotOrder
  <2>. QED
    BY <1>1, <2>1, <2>2
<1>. QED
  BY <1>2, <1>4 DEF Bounded, u, o

\* fill_decisions opens its slot when no ballot has been seen.
LEMMA NothingSeen ==
  ASSUME NEW B, Ballots(B), NEW w, GoodWindow(w, B), NEW s
  PROVE  FreshPromise(w, <<>>, s) = w.max
<1>1. {w.max} \cup {<<>>[p] : p \in Below(<<>>, s)} = {w.max}
  BY DEF Below
<1>2. Highest({w.max}) \in {w.max}
  BY HighestIn DEF Ballots, GoodWindow
<1>. QED
  BY <1>1, <1>2 DEF FreshPromise

LEMMA FillDecisionsRaises ==
  ASSUME NEW B, Ballots(B), NEW w, GoodWindow(w, B), Bounded(w)
  PROVE  Bounded(FillDecisions(w)) /\ Climbs(w, FillDecisions(w))
<1>. DEFINE m == FirstUnresolved(w)
            o == OpenUpTo(w, <<>>, m)
            f == FillDecisions(w)
<1>1. m \in WindowSlot
  BY FirstUnresolvedIn
<1>2. f.acc = o.acc /\ f.end = o.end /\ f.max = o.max
  BY DEF FillDecisions, OpenUpTo, GoodWindow, Window
<1>3. /\ Climbs(w, o) /\ o.max = w.max
      /\ \A s \in WindowSlot : o.acc[s] = w.acc[s] \/ o.acc[s] = AwaitValue(w.max)
  <2>. HIDE DEF m
  <2>1. \A s : FreshPromise(w, <<>>, s) = w.max /\ AtMost(w.max, w.max)
    BY NothingSeen, WindowBallots, BallotOrder
  <2>. QED
    BY <1>1, <2>1, OpenUpToClimbs
<1>. HIDE DEF o, f
<1>4. Bounded(f)
  <2>1. ASSUME NEW s \in WindowSlot
        PROVE  AtMost(f.acc[s].bal, f.acc[s].promised) /\ AtMost(f.acc[s].promised, f.max)
    <3>1. CASE o.acc[s] = w.acc[s]
      BY <1>2, <1>3, <3>1 DEF Bounded
    <3>2. CASE o.acc[s] = AwaitValue(w.max)
      <4>1. f.acc[s].promised = w.max /\ f.acc[s].bal = NoBallot
        BY <1>2, <3>2 DEF AwaitValue
      <4>. QED
        BY <1>2, <1>3, <4>1, WindowBallots, BallotOrder
    <3>. QED
      BY <1>3, <3>1, <3>2
  <2>. QED
    BY <2>1 DEF Bounded
<1>5. Climbs(w, f)
  BY <1>2, <1>3 DEF Climbs, ResolvedAt, PromisedAt, EmptyAt
<1>. QED
  BY <1>4, <1>5 DEF f
-----------------------------------------------------------------------------
(***************************************************************************)
(* The handlers.                                                           *)
(***************************************************************************)
LEMMA VisitRaises ==
  ASSUME NEW B, Ballots(B), NEW w, GoodWindow(w, B), Bounded(w),
         NEW S \in SUBSET WindowSlot, NEW seen \in [S -> B], NEW last \in WindowSlot,
         NEW accs, accs = [s \in S |-> accs[s]],
         \A s \in S :
           /\ GoodAcceptor(accs[s], B) /\ s <= last
           /\ AtMost(accs[s].bal, accs[s].promised)
           /\ AtMost(seen[s], accs[s].promised)
           /\ ~IsResolved(accs[s]) => AtMost(PromisedAt(w, s), accs[s].promised)
  PROVE  LET u == Update(OpenUpTo(w, seen, last), accs)
         IN  Bounded(u) /\ Climbs(w, u)
<1>. DEFINE o == OpenUpTo(w, seen, last)
<1>1. Bounded(Update(o, accs))
  BY VisitBounded
<1>2. GoodWindow(o, B) /\ o.end > last /\ Climbs(w, o)
  BY OpenUpToGood, FreshPromiseIn, OpenUpToClimbs
<1>. HIDE DEF o
<1>3. \A s \in S : accs[s].promised \in B /\ ~EmptyAt(o, s)
  <2>1. o.end \in Nat /\ last \in Nat /\ WindowSlot \subseteq Nat
    BY <1>2, WindowFields, SlotBound DEF GoodWindow
  <2>. QED
    BY <1>2, <2>1 DEF GoodAcceptor, EmptyAt
<1>4. Climbs(w, Update(o, accs))
  BY <1>2, <1>3, UpdateClimbs
<1>. QED
  BY <1>1, <1>4 DEF o

LEMMA UpdateOpen ==
  ASSUME NEW B, Ballots(B), NEW w, GoodWindow(w, B), Bounded(w),
         NEW S, S \subseteq OpenSlots(w), NEW accs, accs = [s \in S |-> accs[s]],
         \A s \in S :
           /\ GoodAcceptor(accs[s], B)
           /\ AtMost(accs[s].bal, accs[s].promised)
           /\ ~IsResolved(accs[s]) => AtMost(w.acc[s].promised, accs[s].promised)
  PROVE  Bounded(Update(w, accs)) /\ Climbs(w, Update(w, accs))
<1>1. S \in SUBSET WindowSlot
  BY WindowRange
<1>2. \A s \in S : ~EmptyAt(w, s)
  <2>1. w.end \in Nat /\ w.min \in Nat
    BY WindowFields DEF GoodWindow
  <2>. QED
    BY <2>1 DEF OpenSlots, OpenRange, EmptyAt
<1>3. \A s \in S : accs[s].promised \in B
  BY DEF GoodAcceptor
<1>4. Bounded(Update(w, accs))
  BY <1>1, UpdateBounded
<1>5. \A s \in S : ~IsResolved(accs[s]) => AtMost(PromisedAt(w, s), accs[s].promised)
  BY <1>2 DEF PromisedAt
<1>6. Climbs(w, Update(w, accs))
  BY <1>1, <1>2, <1>3, <1>5, ClimbsSelf, UpdateClimbs
<1>. QED
  BY <1>4, <1>6

LEMMA NoticeBounds ==
  ASSUME NEW B, Ballots(B), NEW a, GoodAcceptor(a, B), ~IsResolved(a),
         AtMost(a.bal, a.promised), NEW b \in B, NEW v
  PROVE  LET n == NoticeValue(a, b, v)
         IN  /\ AtMost(n.bal, n.promised) /\ AtMost(b, n.promised)
             /\ AtMost(a.promised, n.promised)
<1>. DEFINE n == NoticeValue(a, b, v)
            h == Higher(a.promised, b)
<1>1. a.promised \in BallotOption /\ a.bal \in BallotOption /\ b \in BallotOption
  BY DEF GoodAcceptor, Ballots
<1>2. h \in BallotOption /\ AtMost(b, h) /\ AtMost(a.promised, h)
  <2>1. CASE Less(a.promised, b)
    BY <1>1, <2>1, BallotOrder DEF Higher, AtMost
  <2>2. CASE ~Less(a.promised, b)
    BY <1>1, <2>2, BallotOrder DEF Higher
  <2>. QED
    BY <2>1, <2>2
<1>3. CASE Less(a.bal, b)
  <2>1. n.bal = b /\ n.promised = h
    BY <1>3 DEF NoticeValue, AwaitQuorum
  <2>. QED
    BY <1>2, <2>1
<1>4. CASE ~Less(a.bal, b)
  <2>1. n = a
    BY <1>4 DEF NoticeValue
  <2>2. AtMost(b, a.bal)
    BY <1>1, <1>4, BallotOrder
  <2>. QED
    BY <1>1, <2>1, <2>2, BallotOrder
<1>. QED
  BY <1>3, <1>4

LEMMA AcceptBounds ==
  ASSUME NEW B, Ballots(B), NEW a, GoodAcceptor(a, B), ~IsResolved(a),
         NEW b \in B, AtMost(a.bal, b), NEW v
  PROVE  LET r == ReceiveAccept(a, b, v)
         IN  r.promised = b /\ AtMost(r.bal, r.promised)
<1>. DEFINE p == [a EXCEPT !.promised = b]
<1>1. p.promised = b /\ p.bal = a.bal
  BY DEF GoodAcceptor, Acceptor
<1>2. ReceiveAccept(a, b, v) = NoticeValue(p, b, v)
  BY DEF ReceiveAccept
<1>. HIDE DEF p
<1>3. b \in BallotOption /\ ~Less(b, b) /\ AtMost(b, b)
  <2>1. b \in BallotOption
    BY DEF Ballots
  <2>. QED
    BY <2>1, BallotOrder
<1>4. CASE NoticeValue(p, b, v) = p
  BY <1>1, <1>2, <1>4
<1>5. CASE NoticeValue(p, b, v) = AwaitQuorum(Higher(b, b), b, v)
  BY <1>2, <1>3, <1>5 DEF AwaitQuorum, Higher
<1>. QED
  BY <1>1, <1>4, <1>5 DEF NoticeValue

LEMMA PrepareRaises ==
  ASSUME NEW B, Ballots(B), NEW b \in B, NEW w, GoodWindow(w, B), Bounded(w)
  PROVE  LET u == PrepareWindow(w, b)
         IN  /\ Bounded(u) /\ Climbs(w, u)
             /\ OpenSlots(w) # {} /\ PrepareStops(w, b) = {} =>
                  /\ AtMost(b, u.max)
                  /\ \A s \in OpenSlots(w) : u.acc[s].promised = b
<1>. DEFINE P == Reached(OpenSlots(w), PrepareStops(w, b))
            accs == [s \in P |-> ReceivePrepare(w.acc[s], b)]
            u == PrepareWindow(w, b)
<1>1. P \subseteq OpenSlots(w) /\ P \in SUBSET WindowSlot
  BY WindowRange DEF Reached
<1>2. ASSUME NEW s \in P
      PROVE  /\ GoodAcceptor(accs[s], B) /\ accs[s].promised = b
             /\ AtMost(accs[s].bal, b) /\ AtMost(w.acc[s].promised, b)
  <2>1. /\ s \in WindowSlot /\ GoodAcceptor(w.acc[s], B) /\ ~IsResolved(w.acc[s])
        /\ s \in OpenRange(w) /\ s \in Nat
    BY <1>1, SlotBound DEF GoodWindow, OpenSlots, ResolvedAt
  <2>2. /\ accs[s].promised = b /\ accs[s].bal = w.acc[s].bal
        /\ GoodAcceptor(accs[s], B)
    BY <2>1, ReceivePrepareGood DEF ReceivePrepare, GoodAcceptor, Acceptor
  <2>3. ~Less(b, w.acc[s].promised)
    <3>1. s \notin PrepareStops(w, b)
      BY <2>1 DEF Reached
    <3>. QED
      BY <2>1, <3>1 DEF PrepareStops, Rejects
  <2>4. AtMost(w.acc[s].promised, b) /\ AtMost(w.acc[s].bal, b)
    <3>1. b \in BallotOption
      BY DEF Ballots
    <3>. QED
      BY <2>1, <2>3, <3>1, WindowBallots, BallotOrder DEF Bounded
  <2>. QED
    BY <2>2, <2>4
<1>3. u = Update(w, accs)
  BY DEF PrepareWindow
<1>. HIDE DEF P
<1>4. accs = [s \in P |-> accs[s]]
  OBVIOUS
<1>. HIDE DEF accs, u
<1>5. Bounded(u) /\ Climbs(w, u)
  BY <1>1, <1>2, <1>3, <1>4, UpdateOpen
<1>6. ASSUME OpenSlots(w) # {}, PrepareStops(w, b) = {}
      PROVE  AtMost(b, u.max) /\ \A s \in OpenSlots(w) : u.acc[s].promised = b
  <2>1. P = OpenSlots(w)
    BY <1>6 DEF P, Reached
  <2>2. /\ \A s \in P : AtMost(accs[s].promised, u.max)
        /\ \A s \in WindowSlot : u.acc[s] = IF s \in P THEN accs[s] ELSE w.acc[s]
    BY <1>1, <1>2, <1>3, <1>4, UpdateRaises
  <2>. QED
    BY <1>1, <1>2, <1>6, <2>1, <2>2
<1>. QED
  BY <1>5, <1>6 DEF u

\* What a visit finds in the slots it notes a proposal in.
LEMMA OpenedBounds ==
  ASSUME NEW B, Ballots(B), NEW w, GoodWindow(w, B), Shape(w), Bounded(w),
         NEW S \in SUBSET WindowSlot, NEW seen \in [S -> B], NEW last \in WindowSlot,
         \A s \in S : s <= last /\ ~ResolvedAt(w, s)
  PROVE  \A s \in S :
           LET a == OpenUpTo(w, seen, last).acc[s]
           IN  /\ GoodAcceptor(a, B) /\ ~IsResolved(a)
               /\ AtMost(a.bal, a.promised) /\ AtMost(a.bal, PromisedAt(w, s))
               /\ AtMost(PromisedAt(w, s), a.promised)
<1>. DEFINE o == OpenUpTo(w, seen, last)
<1>1. /\ Climbs(w, o)
      /\ \A s \in WindowSlot :
           \/ o.acc[s] = w.acc[s]
           \/ o.acc[s] = AwaitValue(FreshPromise(w, seen, s)) /\ EmptyAt(w, s)
  BY FreshPromiseIn, OpenUpToClimbs
<1>2. /\ GoodWindow(o, B) /\ o.end > last
      /\ \A s \in S : GoodAcceptor(o.acc[s], B) /\ ~IsResolved(o.acc[s])
  BY OpenUpToGood, OpenedUnresolved
<1>. HIDE DEF o
<1>3. \A s \in S : ~EmptyAt(o, s)
  <2>1. o.end \in Nat /\ last \in Nat /\ WindowSlot \subseteq Nat
    BY <1>2, WindowFields, SlotBound DEF GoodWindow
  <2>. QED
    BY <1>2, <2>1 DEF EmptyAt
<1>4. \A s \in S : AtMost(PromisedAt(w, s), o.acc[s].promised)
  BY <1>1, <1>2, <1>3 DEF Climbs, ResolvedAt, PromisedAt
<1>5. ASSUME NEW s \in S
      PROVE  AtMost(o.acc[s].bal, o.acc[s].promised) /\ AtMost(o.acc[s].bal, PromisedAt(w, s))
  <2>1. /\ w.max \in BallotOption /\ PromisedAt(w, s) \in BallotOption
        /\ o.acc[s].promised \in BallotOption
    BY <1>2, WindowBallots
  <2>2. CASE o.acc[s].bal = NoBallot
    BY <2>1, <2>2, BallotOrder
  <2>3. CASE o.acc[s] = w.acc[s]
    <3>1. AtMost(w.acc[s].bal, w.acc[s].promised) /\ AtMost(w.acc[s].promised, w.max)
      BY DEF Bounded
    <3>2. AtMost(w.acc[s].bal, w.max)
      BY <3>1, WindowBallots, BallotOrder
    <3>. QED
      BY <2>3, <3>1, <3>2 DEF PromisedAt
  <2>4. o.acc[s] = w.acc[s] \/ o.acc[s].bal = NoBallot
    <3>1. \A b : AwaitValue(b).bal = NoBallot
      BY DEF AwaitValue
    <3>2. s \in WindowSlot
      OBVIOUS
    <3>. QED
      BY <1>1, <3>1, <3>2
  <2>. QED
    BY <2>2, <2>3, <2>4
<1>. QED
  BY <1>2, <1>4, <1>5 DEF o

LEMMA NoticeReportRaises ==
  ASSUME NEW B, Ballots(B), NEW w, GoodWindow(w, B), Logged(w), Bounded(w),
         NEW report, GoodReport(report, B)
  PROVE  LET u == NoticeReport(w, report) IN Bounded(u) /\ Climbs(w, u)
<1>. DEFINE N == {s \in DOMAIN report : ~ResolvedAt(w, s)}
            seen == [s \in N |-> report[s].bal]
            last == LastOf(w, N)
            o == OpenUpTo(w, seen, last)
            accs == [s \in N |-> NoticeValue(o.acc[s], report[s].bal, report[s].val)]
<1>1. /\ N \in SUBSET WindowSlot
      /\ \A s \in N : /\ report[s].bal \in B \ {NoBallot} /\ report[s].val \in Value
                       /\ ~ResolvedAt(w, s)
  BY ReportSlots, SlotBound
<1>2. NoticeReport(w, report) = Update(o, accs)
  BY DEF NoticeReport, Opened
<1>. HIDE DEF N
<1>3. last \in WindowSlot /\ \A s \in N : s <= last
  BY <1>1, LastOfIn
<1>4. seen \in [N -> B] /\ \A s \in N : seen[s] = report[s].bal
  BY <1>1
<1>. HIDE DEF seen, last
<1>5. \A s \in N : /\ GoodAcceptor(o.acc[s], B) /\ ~IsResolved(o.acc[s])
                   /\ AtMost(o.acc[s].bal, o.acc[s].promised)
                   /\ AtMost(PromisedAt(w, s), o.acc[s].promised)
  BY <1>1, <1>3, <1>4, OpenedBounds DEF Logged
<1>6. ASSUME NEW s \in N
      PROVE  /\ GoodAcceptor(accs[s], B) /\ AtMost(accs[s].bal, accs[s].promised)
             /\ AtMost(seen[s], accs[s].promised)
             /\ AtMost(PromisedAt(w, s), accs[s].promised)
  <2>1. /\ GoodAcceptor(accs[s], B) /\ AtMost(accs[s].bal, accs[s].promised)
        /\ AtMost(seen[s], accs[s].promised) /\ AtMost(o.acc[s].promised, accs[s].promised)
    BY <1>1, <1>4, <1>5, NoticeValueGood, NoticeBounds
  <2>2. /\ accs[s].promised \in BallotOption /\ o.acc[s].promised \in BallotOption
        /\ PromisedAt(w, s) \in BallotOption
    BY <1>1, <1>5, <2>1, WindowBallots DEF GoodAcceptor, Ballots
  <2>3. AtMost(PromisedAt(w, s), o.acc[s].promised)
    BY <1>5
  <2>. HIDE DEF accs, o
  <2>. QED
    BY <2>1, <2>2, <2>3, BallotOrder
<1>7. accs = [s \in N |-> accs[s]]
  OBVIOUS
<1>. HIDE DEF accs
<1>8. LET u == Update(o, accs) IN Bounded(u) /\ Climbs(w, u)
  BY <1>1, <1>3, <1>4, <1>6, <1>7, VisitRaises
<1>. QED
  BY <1>2, <1>8

LEMMA ProposeRaises ==
  ASSUME NEW B, Ballots(B), NEW b \in B, b # NoBallot, NEW w, GoodWindow(w, B),
         Logged(w), Bounded(w),
         NEW values \in Seq(Value), FreshSlots(w, values) \subseteq Slot
  PROVE  LET u == ProposeWindow(w, b, values) IN Bounded(u) /\ Climbs(w, u)
<1>. DEFINE F == FreshSlots(w, values)
            seen == Const(F, b)
            last == LastOf(w, F)
            o == OpenUpTo(w, seen, last)
            accs == [s \in F |-> NoticeValue(o.acc[s], b, values[s - NextSlot(w) + 1])]
<1>1. F \in SUBSET WindowSlot /\ \A s \in F : ~ResolvedAt(w, s)
  <2>1. F \in SUBSET WindowSlot
    BY SlotBound
  <2>2. \A s \in F : s >= NextSlot(w)
    BY WindowRange DEF FreshSlots
  <2>. QED
    BY <2>1, <2>2, FreshUnresolved DEF Logged
<1>2. ProposeWindow(w, b, values) = Update(o, accs)
  BY DEF ProposeWindow, Opened, Const
<1>3. \A s \in F : values[s - NextSlot(w) + 1] \in Value
  BY WindowRange DEF FreshSlots
<1>. HIDE DEF F
<1>4. last \in WindowSlot /\ \A s \in F : s <= last
  BY <1>1, LastOfIn
<1>5. seen \in [F -> B] /\ \A s \in F : seen[s] = b
  BY DEF Const
<1>. HIDE DEF seen, last
<1>6. \A s \in F : /\ GoodAcceptor(o.acc[s], B) /\ ~IsResolved(o.acc[s])
                   /\ AtMost(o.acc[s].bal, o.acc[s].promised)
                   /\ AtMost(PromisedAt(w, s), o.acc[s].promised)
  BY <1>1, <1>4, <1>5, OpenedBounds DEF Logged
<1>7. ASSUME NEW s \in F
      PROVE  /\ GoodAcceptor(accs[s], B) /\ AtMost(accs[s].bal, accs[s].promised)
             /\ AtMost(seen[s], accs[s].promised)
             /\ AtMost(PromisedAt(w, s), accs[s].promised)
  <2>1. /\ GoodAcceptor(accs[s], B) /\ AtMost(accs[s].bal, accs[s].promised)
        /\ AtMost(seen[s], accs[s].promised) /\ AtMost(o.acc[s].promised, accs[s].promised)
    BY <1>3, <1>5, <1>6, NoticeValueGood, NoticeBounds
  <2>2. /\ accs[s].promised \in BallotOption /\ o.acc[s].promised \in BallotOption
        /\ PromisedAt(w, s) \in BallotOption
    BY <1>1, <1>6, <2>1, WindowBallots DEF GoodAcceptor, Ballots
  <2>3. AtMost(PromisedAt(w, s), o.acc[s].promised)
    BY <1>6
  <2>. HIDE DEF accs, o
  <2>. QED
    BY <2>1, <2>2, <2>3, BallotOrder
<1>8. accs = [s \in F |-> accs[s]]
  OBVIOUS
<1>. HIDE DEF accs
<1>9. LET u == Update(o, accs) IN Bounded(u) /\ Climbs(w, u)
  BY <1>1, <1>4, <1>5, <1>7, <1>8, VisitRaises
<1>. QED
  BY <1>2, <1>9

LEMMA DriveRaises ==
  ASSUME NEW B, Ballots(B), NEW b \in B, b # NoBallot, NEW w, GoodWindow(w, B),
         Logged(w), Bounded(w), NEW queue \in Seq(Value),
         FreshSlots(w, queue) \subseteq Slot,
         DOMAIN DriveValues(DriveWindow(w, b, queue)) \subseteq Slot
  PROVE  LET u == DriveWindow(w, b, queue) IN Bounded(u) /\ Climbs(w, u)
<1>. DEFINE p == ProposeWindow(w, b, queue)
            O == OpenSlots(p)
            accs == [s \in O |-> NoticeValue(p.acc[s], b, p.acc[s].val)]
            u == DriveWindow(w, b, queue)
<1>1. GoodWindow(p, B) /\ Logged(p) /\ Bounded(p) /\ Climbs(w, p)
  BY ProposeWindowGood, ProposeLogged, ProposeRaises
<1>2. GoodWindow(u, B)
  BY DriveWindowGood
<1>3. u = Update(p, accs)
  BY DEF DriveWindow
<1>. HIDE DEF p, u
<1>4. \A s \in O : /\ GoodAcceptor(p.acc[s], B) /\ ~IsResolved(p.acc[s])
                   /\ AtMost(p.acc[s].bal, p.acc[s].promised) /\ p.acc[s].val \in Value
  BY <1>1, WindowRange DEF GoodWindow, GoodAcceptor, Acceptor, OpenSlots, ResolvedAt, Bounded
<1>5. O \in SUBSET WindowSlot /\ O \subseteq OpenSlots(p)
  BY <1>1, WindowRange
<1>. HIDE DEF O
<1>6. \A s \in O : /\ GoodAcceptor(accs[s], B) /\ ~IsResolved(accs[s])
                   /\ AtMost(accs[s].bal, accs[s].promised)
                   /\ AtMost(p.acc[s].promised, accs[s].promised)
  BY <1>4, NoticeValueGood, NoticeBounds
<1>7. accs = [s \in O |-> accs[s]]
  OBVIOUS
<1>. HIDE DEF accs
<1>8. Bounded(u) /\ Climbs(p, u)
  BY <1>1, <1>3, <1>5, <1>6, <1>7, UpdateOpen
<1>9. Keeps(p, u)
  <2>1. p \in Window /\ Shape(p) /\ p.end \in Nat /\ p.min \in Nat
    BY <1>1, WindowFields DEF GoodWindow, Logged
  <2>2. \A s \in O : s < p.end /\ ~ResolvedAt(p, s)
    BY <1>5, <2>1 DEF OpenSlots, OpenRange
  <2>. QED
    BY <1>3, <1>5, <1>7, <2>1, <2>2, UpdateLogged
<1>. QED
  BY <1>1, <1>2, <1>8, <1>9, ClimbsTransitive DEF u

LEMMA AcceptRaises ==
  ASSUME NEW B, Ballots(B), NEW b \in B, b # NoBallot, NEW w, GoodWindow(w, B),
         Logged(w), Bounded(w), NEW batch, GoodBatch(batch)
  PROVE  LET u == AcceptWindow(w, b, batch) IN Bounded(u) /\ Climbs(w, u)
<1>. DEFINE stops == AcceptStops(w, b, batch)
            D == Reached(DOMAIN batch, stops)
            filled == {s \in stops : EmptyAt(w, s) /\ \A t \in stops : s <= t}
            last == LastOf(w, D \cup filled)
            seen == Const(D, b)
            o == OpenUpTo(w, seen, last)
            accs == [s \in D |-> ReceiveAccept(o.acc[s], b, batch[s])]
<1>1. AcceptWindow(w, b, batch) = Update(o, accs)
  BY DEF AcceptWindow
<1>2. D \in SUBSET WindowSlot /\ D \cup filled \in SUBSET WindowSlot
      /\ \A s \in D : batch[s] \in Value
  BY BatchSlots, SlotBound DEF Reached, AcceptStops
<1>3. \A s \in D : ~ResolvedAt(w, s) /\ ~Less(b, PromisedAt(w, s))
  <2>1. \A s \in D : s \in Nat /\ s \in DOMAIN batch /\ \A t \in stops : s < t
    BY <1>2, SlotBound DEF Reached
  <2>2. \A s \in D : s \notin stops
    BY <2>1
  <2>. QED
    BY <2>1, <2>2 DEF AcceptStops
<1>. HIDE DEF D, filled
<1>4. last \in WindowSlot /\ \A s \in D : s <= last
  BY <1>2, LastOfIn
<1>5. seen \in [D -> B] /\ \A s \in D : seen[s] = b
  BY DEF Const
<1>. HIDE DEF last, seen
<1>6. \A s \in D : /\ GoodAcceptor(o.acc[s], B) /\ ~IsResolved(o.acc[s])
                   /\ AtMost(o.acc[s].bal, PromisedAt(w, s))
  BY <1>2, <1>3, <1>4, <1>5, OpenedBounds DEF Logged
<1>7. ASSUME NEW s \in D
      PROVE  /\ GoodAcceptor(accs[s], B) /\ AtMost(accs[s].bal, accs[s].promised)
             /\ AtMost(seen[s], accs[s].promised)
             /\ AtMost(PromisedAt(w, s), accs[s].promised)
  <2>1. /\ b \in BallotOption /\ PromisedAt(w, s) \in BallotOption
        /\ o.acc[s].bal \in BallotOption
    BY <1>2, <1>6, WindowBallots DEF GoodAcceptor, Ballots
  <2>2. AtMost(PromisedAt(w, s), b) /\ AtMost(o.acc[s].bal, b) /\ AtMost(b, b)
    <3>1. AtMost(o.acc[s].bal, PromisedAt(w, s))
      BY <1>6
    <3>. HIDE DEF o
    <3>. QED
      BY <1>3, <2>1, <3>1, BallotOrder
  <2>3. GoodAcceptor(accs[s], B)
    BY <1>2, <1>6, ReceiveAcceptGood
  <2>4. accs[s].promised = b /\ AtMost(accs[s].bal, accs[s].promised)
    BY <1>6, <2>2, AcceptBounds
  <2>. QED
    BY <1>5, <2>2, <2>3, <2>4
<1>8. accs = [s \in D |-> accs[s]]
  OBVIOUS
<1>. HIDE DEF accs
<1>9. LET u == Update(o, accs) IN Bounded(u) /\ Climbs(w, u)
  BY <1>2, <1>4, <1>5, <1>7, <1>8, VisitRaises
<1>. QED
  BY <1>1, <1>9

LEMMA FilledRaises ==
  ASSUME NEW B, Ballots(B), NEW w, GoodWindow(w, B), NEW u, GoodWindow(u, B),
         Shape(u), Bounded(u), Climbs(w, u)
  PROVE  LET f == FillDecisions(u) IN Bounded(f) /\ Climbs(w, f)
<1>. DEFINE f == FillDecisions(u)
<1>1. GoodWindow(f, B) /\ Keeps(u, f) /\ Bounded(f) /\ Climbs(u, f)
  BY FillDecisionsGood, FillDecisionsLogged, FillDecisionsRaises
<1>. HIDE DEF f
<1>2. Climbs(w, f)
  BY <1>1, ClimbsTransitive
<1>. QED
  BY <1>1, <1>2 DEF f

LEMMA AcceptedRaises ==
  ASSUME NEW B, Ballots(B), NEW b, NEW peer \in Node, NEW w, GoodWindow(w, B),
         Logged(w), Bounded(w), NEW slots \in SUBSET Slot
  PROVE  LET u == AcceptedWindow(w, peer, b, slots) IN Bounded(u) /\ Climbs(w, u)
<1>. DEFINE C == CountedSlots(w, slots)
            accs == [s \in C |-> ReceiveAccepted(w.acc[s], peer, b)]
            u == Update(w, accs)
<1>1. AcceptedWindow(w, peer, b, slots) = FillDecisions(u)
  BY DEF AcceptedWindow
<1>2. w \in Window /\ w.min \in Nat /\ w.end \in Nat
  BY WindowFields DEF GoodWindow
<1>3. /\ C \in SUBSET WindowSlot /\ MaxSlot + 1 \notin C /\ C \subseteq OpenSlots(w)
      /\ \A s \in C : s < w.end /\ ~ResolvedAt(w, s)
  <2>1. C \subseteq slots /\ C \subseteq OpenSlots(w)
    BY DEF CountedSlots, Reached
  <2>2. \A s \in OpenSlots(w) : s < w.end /\ ~ResolvedAt(w, s)
    BY <1>2 DEF OpenSlots, OpenRange
  <2>. QED
    BY <2>1, <2>2, SlotBound
<1>. HIDE DEF C
<1>4. ASSUME NEW s \in C
      PROVE  /\ GoodAcceptor(accs[s], B) /\ AtMost(accs[s].bal, accs[s].promised)
             /\ ~IsResolved(accs[s]) => AtMost(w.acc[s].promised, accs[s].promised)
  <2>. DEFINE a == w.acc[s]
              r == ReceiveAccepted(a, peer, b)
  <2>1. GoodAcceptor(a, B) /\ AtMost(a.bal, a.promised)
    BY <1>3 DEF GoodWindow, Bounded
  <2>2. a.bal \in BallotOption /\ a.promised \in BallotOption
    BY <2>1 DEF GoodAcceptor, Ballots
  <2>. HIDE DEF a
  <2>3. GoodAcceptor(r, B)
    BY <2>1, ReceiveAcceptedGood
  <2>4. \/ r.promised = a.promised /\ r.bal = a.bal
        \/ IsResolved(r) /\ r.promised = a.bal /\ r.bal = a.bal
    <3>1. CASE r = a
      BY <3>1
    <3>2. CASE r = Resolved(a.bal, a.val)
      BY <3>2 DEF Resolved, IsResolved
    <3>3. CASE r = [a EXCEPT !.quorum = a.quorum \cup {peer}]
      BY <2>1, <3>3 DEF GoodAcceptor, Acceptor
    <3>. QED
      BY <3>1, <3>2, <3>3 DEF ReceiveAccepted
  <2>. HIDE DEF r
  <2>5. AtMost(r.bal, r.promised) /\ (~IsResolved(r) => AtMost(a.promised, r.promised))
    BY <2>1, <2>2, <2>4, BallotOrder
  <2>. QED
    BY <2>3, <2>5 DEF r, a
<1>5. accs = [s \in C |-> accs[s]]
  OBVIOUS
<1>. HIDE DEF accs
<1>6. GoodWindow(u, B)
  BY <1>3, <1>4, <1>5, UpdateGood
<1>7. Shape(u)
  BY <1>2, <1>3, <1>5, UpdateLogged DEF Logged
<1>8. Bounded(u) /\ Climbs(w, u)
  BY <1>3, <1>4, <1>5, UpdateOpen
<1>9. LET f == FillDecisions(u) IN Bounded(f) /\ Climbs(w, f)
  BY <1>6, <1>7, <1>8, FilledRaises
<1>. QED
  BY <1>1, <1>9

LEMMA ResolutionRaises ==
  ASSUME NEW B, Ballots(B), NEW b \in B, b # NoBallot, NEW w, GoodWindow(w, B),
         Logged(w), Bounded(w), NEW decisions, GoodBatch(decisions)
  PROVE  LET u == ResolutionWindow(w, b, decisions) IN Bounded(u) /\ Climbs(w, u)
<1>. DEFINE L == {s \in DOMAIN decisions : ~ResolvedAt(w, s)}
            seen == Const(L, b)
            last == LastOf(w, L)
            o == OpenUpTo(w, seen, last)
            accs == [s \in L |-> Resolve(o.acc[s], b, decisions[s])]
            u == Update(o, accs)
<1>1. /\ L \in SUBSET WindowSlot /\ MaxSlot + 1 \notin L
      /\ \A s \in L : decisions[s] \in Value /\ ~ResolvedAt(w, s)
  BY BatchSlots, SlotBound
<1>2. ResolutionWindow(w, b, decisions) = FillDecisions(u)
  BY DEF ResolutionWindow, Opened, Const
<1>. HIDE DEF L
<1>3. last \in WindowSlot /\ \A s \in L : s <= last
  BY <1>1, LastOfIn
<1>4. seen \in [L -> B] /\ \A s \in L : seen[s] = b
  BY DEF Const
<1>. HIDE DEF last, seen
<1>5. GoodWindow(o, B)
  BY <1>1, <1>3, <1>4, OpenUpToGood
<1>6. \A s \in L : ~IsResolved(o.acc[s])
  BY <1>1, <1>3, <1>4, OpenedUnresolved DEF Logged
<1>7. \A s \in L : /\ GoodAcceptor(accs[s], B) /\ IsResolved(accs[s])
                   /\ AtMost(accs[s].bal, accs[s].promised)
                   /\ AtMost(seen[s], accs[s].promised)
  <2>1. \A s \in L : accs[s] = Resolved(b, decisions[s])
    BY <1>6 DEF Resolve
  <2>2. AtMost(b, b)
    BY BallotOrder DEF Ballots
  <2>3. \A v : Resolved(b, v).bal = b /\ Resolved(b, v).promised = b
    BY DEF Resolved
  <2>. HIDE DEF accs
  <2>. QED
    BY <1>1, <1>4, <2>1, <2>2, <2>3, ResolvedGood
<1>8. accs = [s \in L |-> accs[s]]
  OBVIOUS
<1>. HIDE DEF accs
<1>9. Bounded(u) /\ Climbs(w, u)
  BY <1>1, <1>3, <1>4, <1>7, <1>8, VisitRaises
<1>10. Shape(u)
  BY <1>1, <1>3, <1>4, <1>8, VisitLogged DEF Logged
<1>11. GoodWindow(u, B)
  <2>. HIDE DEF o
  <2>. QED
    BY <1>1, <1>5, <1>7, <1>8, UpdateGood
<1>. HIDE DEF u
<1>12. LET f == FillDecisions(u) IN Bounded(f) /\ Climbs(w, f)
  BY <1>9, <1>10, <1>11, FilledRaises
<1>. QED
  BY <1>2, <1>12
=============================================================================
