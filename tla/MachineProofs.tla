--------------------------- MODULE MachineProofs ----------------------------
(***************************************************************************)
(* The state machines of the group: each keeps up with the log of its      *)
(* replica (from the window invariant of GroupProofs) and has executed that*)
(* log once and in order; and as long as promises leave nothing out, the   *)
(* machines implement ReplicatedLog (from the invariant of AgreementProofs *)
(* and, as agreement itself, for groups of an odd size).                   *)
(***************************************************************************)
EXTENDS Machines, AgreementProofs

(***************************************************************************)
(* Slots of a set in order.  A slot has its rank in the set, the ranks are *)
(* 1, 2, ... without a gap, so Nth finds one slot for each.                *)
(***************************************************************************)
LEMMA SlotSet == WindowSlot \in SUBSET Nat /\ IsFiniteSet(WindowSlot)
<1>1. MaxSlot + 1 \in Int /\ 0 \in Int
  BY MaxSlotAssumption
<1>2. IsFiniteSet(0..(MaxSlot + 1))
  BY <1>1, FS_Interval
<1>. QED
  BY <1>1, <1>2 DEF WindowSlot

LEMMA SlotMax ==
  ASSUME NEW S \in SUBSET WindowSlot, S # {}
  PROVE  Max(S) \in S /\ \A y \in S : Max(S) >= y
<1>1. MaxSlot + 1 \in Nat /\ S \subseteq 0..(MaxSlot + 1)
  BY MaxSlotAssumption DEF WindowSlot
<1>. QED
  BY <1>1, MaxIn

\* The number of slots of a set up to s.
Rank(S, s) == Cardinality({t \in S : t <= s})

LEMMA RankType ==
  ASSUME NEW S \in SUBSET WindowSlot
  PROVE  /\ IsFiniteSet(S) /\ Cardinality(S) \in Nat
         /\ \A s : /\ IsFiniteSet({t \in S : t <= s})
                   /\ Rank(S, s) \in Nat /\ Rank(S, s) <= Cardinality(S)
<1>1. IsFiniteSet(S)
  BY SlotSet, FS_Subset
<1>2. \A s : {t \in S : t <= s} \in SUBSET S
  OBVIOUS
<1>. QED
  BY <1>1, <1>2, FS_Subset, FS_CardinalityType DEF Rank

\* A higher slot of a set has a higher rank.
LEMMA RankGrows ==
  ASSUME NEW S \in SUBSET WindowSlot, NEW s \in S, NEW t \in S, s < t
  PROVE  Rank(S, s) < Rank(S, t)
<1>. S \in SUBSET Nat
  BY SlotSet
<1>. DEFINE Upto(x) == {y \in S : y <= x}
<1>1. IsFiniteSet(Upto(t)) /\ Rank(S, s) \in Nat /\ Rank(S, t) \in Nat
  BY RankType
<1>2. Upto(s) \in SUBSET Upto(t) /\ t \in Upto(t) /\ t \notin Upto(s)
  <2>1. \A y \in S : y <= s => y <= t
    OBVIOUS
  <2>2. t <= t /\ ~(t <= s)
    OBVIOUS
  <2>. QED
    BY <2>1, <2>2
<1>3. Rank(S, s) <= Rank(S, t) /\ Rank(S, s) # Rank(S, t)
  BY <1>1, <1>2, FS_Subset DEF Rank
<1>. QED
  BY <1>1, <1>3

\* The slots of a set have the ranks from one on.
LEMMA RankTaken ==
  ASSUME NEW S \in SUBSET WindowSlot, NEW i \in 1..Cardinality(S)
  PROVE  \E s \in S : Rank(S, s) = i
<1>. S \in SUBSET Nat
  BY SlotSet
<1>. DEFINE U == {s \in S : Rank(S, s) >= i}
            s == Min(U)
            L == {t \in S : t < s}
<1>1. IsFiniteSet(S) /\ Cardinality(S) \in Nat /\ S # {}
  BY RankType, FS_EmptySet
<1>2. U # {}
  <2>1. Max(S) \in S /\ \A y \in S : Max(S) >= y
    BY <1>1, SlotMax
  <2>2. {t \in S : t <= Max(S)} = S
    BY <2>1
  <2>. QED
    BY <1>1, <2>1, <2>2 DEF Rank
<1>3. s \in U /\ \A y \in U : s <= y
  <2>1. U \in SUBSET Nat
    OBVIOUS
  <2>. QED
    BY <1>2, <2>1, MinIn
<1>. HIDE DEF s
<1>4. s \in S /\ s \in Nat /\ Rank(S, s) >= i /\ Rank(S, s) \in Nat
  BY <1>3, RankType
<1>5. CASE L = {}
  <2>1. {t \in S : t <= s} = {s}
    <3>1. \A t \in S : t <= s <=> t = s
      BY <1>4, <1>5
    <3>. QED
      BY <1>4, <3>1
  <2>2. Rank(S, s) = 1
    BY <2>1, FS_Singleton DEF Rank
  <2>. QED
    BY <1>4, <2>2
<1>6. CASE L # {}
  <2>. DEFINE p == Max(L)
  <2>1. p \in L /\ \A y \in L : p >= y
    BY <1>6, SlotMax
  <2>. HIDE DEF p
  <2>2. p \in S /\ p < s /\ p \in Nat
    BY <2>1
  <2>3. Rank(S, p) < i /\ Rank(S, p) \in Nat
    <3>1. Rank(S, p) \in Nat
      BY RankType
    <3>2. p \notin U
      BY <1>3, <1>4, <2>2
    <3>. QED
      BY <2>2, <3>1, <3>2
  <2>4. {t \in S : t <= s} = {t \in S : t <= p} \cup {s} /\ s \notin {t \in S : t <= p}
    <3>1. \A t \in S : t <= s <=> t <= p \/ t = s
      BY <1>4, <2>1, <2>2
    <3>2. ~(s <= p)
      BY <1>4, <2>2
    <3>. QED
      BY <1>4, <3>1, <3>2
  <2>5. IsFiniteSet({t \in S : t <= p})
    BY RankType
  <2>6. Rank(S, s) = Rank(S, p) + 1
    BY <2>4, <2>5, FS_AddElement DEF Rank
  <2>. QED
    BY <1>4, <2>3, <2>6
<1>. QED
  BY <1>5, <1>6

LEMMA NthSlot ==
  ASSUME NEW S \in SUBSET WindowSlot, NEW i \in 1..Cardinality(S)
  PROVE  /\ Nth(S, i) \in S /\ Rank(S, Nth(S, i)) = i
         /\ \A s \in S : Rank(S, s) = i => s = Nth(S, i)
<1>1. Nth(S, i) \in S /\ Rank(S, Nth(S, i)) = i
  BY RankTaken DEF Nth, Rank
<1>2. ASSUME NEW s \in S, Rank(S, s) = i PROVE s = Nth(S, i)
  <2>. DEFINE n == Nth(S, i)
  <2>1. n \in S /\ Rank(S, n) = i
    BY <1>1
  <2>. HIDE DEF n
  <2>2. ~(s < n) /\ ~(n < s)
    BY <1>2, <2>1, RankGrows
  <2>3. s = n
    BY <2>1, <2>2, SlotSet
  <2>. QED
    BY <2>3 DEF n
<1>. QED
  BY <1>1, <1>2

\* The slots of a set, from the lowest on, with the values of a function.
Listed(S, f) == [i \in 1..Cardinality(S) |-> <<Nth(S, i), f[Nth(S, i)]>>]

LEMMA ListedSame ==
  ASSUME NEW S \in SUBSET WindowSlot, NEW f, NEW g, \A s \in S : f[s] = g[s]
  PROVE  Listed(S, f) = Listed(S, g)
<1>1. \A i \in 1..Cardinality(S) : f[Nth(S, i)] = g[Nth(S, i)]
  BY NthSlot
<1>. QED
  BY <1>1, Zenon DEF Listed

LEMMA DisjointUnion ==
  ASSUME NEW A, NEW B, IsFiniteSet(A), IsFiniteSet(B), A \cap B = {}
  PROVE  Cardinality(A \cup B) = Cardinality(A) + Cardinality(B)
<1>1. Cardinality(A) \in Nat /\ Cardinality(B) \in Nat /\ Cardinality(A \cap B) = 0
  BY FS_CardinalityType, FS_EmptySet
<1>2. Cardinality(A \cup B) = Cardinality(A) + Cardinality(B) - Cardinality(A \cap B)
  BY FS_Union
<1>. QED
  BY <1>1, <1>2

LEMMA ListedConcat ==
  ASSUME NEW A \in SUBSET WindowSlot, NEW B \in SUBSET WindowSlot, NEW f,
         \A a \in A : \A b \in B : a < b
  PROVE  Listed(A \cup B, f) = Listed(A, f) \o Listed(B, f)
<1>. DEFINE C == A \cup B
            j == Cardinality(A)
            k == Cardinality(B)
<1>. A \in SUBSET Nat /\ B \in SUBSET Nat /\ C \in SUBSET WindowSlot
  BY SlotSet
<1>0. \A a \in A : \A b \in B : a <= b /\ ~(b <= a)
  OBVIOUS
<1>1. j \in Nat /\ k \in Nat /\ IsFiniteSet(A) /\ IsFiniteSet(B) /\ A \cap B = {}
  <2>1. A \cap B = {}
    OBVIOUS
  <2>. QED
    BY <2>1, RankType
<1>2. Cardinality(C) = j + k
  BY <1>1, DisjointUnion
<1>3. \A a \in A : Rank(C, a) = Rank(A, a)
  <2>1. ASSUME NEW a \in A PROVE {t \in C : t <= a} = {t \in A : t <= a}
    <3>1. \A t \in B : ~(t <= a)
      BY <1>0
    <3>. QED
      BY <3>1
  <2>. QED
    BY <2>1 DEF Rank
<1>4. ASSUME NEW b \in B PROVE Rank(C, b) = j + Rank(B, b)
  <2>. DEFINE D == {t \in B : t <= b}
  <2>1. {t \in C : t <= b} = A \cup D /\ A \cap D = {}
    <3>1. \A t \in A : t <= b
      BY <1>0
    <3>. QED
      BY <1>1, <3>1
  <2>2. IsFiniteSet(D) /\ Cardinality(D) \in Nat
    BY RankType, FS_CardinalityType
  <2>3. Cardinality(A \cup D) = j + Cardinality(D)
    BY <1>1, <2>1, <2>2, DisjointUnion
  <2>. QED
    BY <2>1, <2>3 DEF Rank
<1>5. ASSUME NEW i \in 1..j PROVE Nth(C, i) = Nth(A, i)
  <2>1. Nth(A, i) \in A /\ Rank(A, Nth(A, i)) = i
    BY <1>5, NthSlot
  <2>2. i \in 1..Cardinality(C)
    BY <1>1, <1>2
  <2>3. Nth(A, i) \in C /\ Rank(C, Nth(A, i)) = i
    BY <1>3, <2>1
  <2>4. C \in SUBSET WindowSlot
    OBVIOUS
  <2>. HIDE DEF C
  <2>5. \A s \in C : Rank(C, s) = i => s = Nth(C, i)
    BY <2>2, <2>4, NthSlot
  <2>. QED
    BY <2>3, <2>5
<1>6. ASSUME NEW i \in 1..k PROVE Nth(C, j + i) = Nth(B, i)
  <2>1. Nth(B, i) \in B /\ Rank(B, Nth(B, i)) = i
    BY <1>6, NthSlot
  <2>2. j + i \in 1..Cardinality(C)
    BY <1>1, <1>2
  <2>3. Nth(B, i) \in C /\ Rank(C, Nth(B, i)) = j + i
    BY <1>4, <2>1
  <2>4. C \in SUBSET WindowSlot
    OBVIOUS
  <2>. HIDE DEF C
  <2>5. \A s \in C : Rank(C, s) = j + i => s = Nth(C, j + i)
    BY <2>2, <2>4, NthSlot
  <2>. QED
    BY <2>3, <2>5
<1>. DEFINE e(i) == <<Nth(C, i), f[Nth(C, i)]>>
            E == {e(i) : i \in 1..(j + k)}
            x == [i \in 1..j |-> e(i)]
            y == [i \in 1..k |-> e(j + i)]
            z == [i \in 1..(j + k) |-> e(i)]
<1>7. Listed(A, f) = x /\ Listed(B, f) = y /\ Listed(C, f) = z
  <2>1. Listed(A, f) = x
    BY <1>5, Zenon DEF Listed
  <2>2. Listed(B, f) = y
    BY <1>6, Zenon DEF Listed
  <2>3. Listed(C, f) = z
    BY <1>2, Zenon DEF Listed
  <2>. QED
    BY <2>1, <2>2, <2>3
<1>8. x \in Seq(E) /\ y \in Seq(E) /\ z \in Seq(E)
  <2>1. \A i \in 1..(j + k) : e(i) \in E
    OBVIOUS
  <2>. HIDE DEF e, E, j, k
  <2>2. \A i \in 1..j : i \in 1..(j + k)
    BY <1>1
  <2>3. \A i \in 1..k : j + i \in 1..(j + k)
    BY <1>1
  <2>. QED
    BY <1>1, <2>1, <2>2, <2>3
<1>9. z = x \o y
  <2>. HIDE DEF e, E, j, k
  <2>1. Len(x) = j /\ Len(y) = k /\ Len(z) = j + k
    BY <1>1
  <2>2. \A i \in 1..(j + k) : z[i] = IF i <= j THEN x[i] ELSE y[i - j]
    BY <1>1
  <2>. QED
    BY <1>1, <1>8, <2>1, <2>2
<1>. QED
  BY <1>7, <1>9
-----------------------------------------------------------------------------
(***************************************************************************)
(* What a replica executes depends on the values in the slots only, and    *)
(* two ranges, one after the other, are executed as one.                   *)
(***************************************************************************)
Commands(slots, f) == {s \in slots : f[s] # Noop}

LEMMA ExecutionsListed ==
  ASSUME NEW w, NEW slots \in SUBSET WindowSlot, NEW f,
         \A s \in slots : f[s] = w.acc[s].val
  PROVE  Executions(w, slots) = Listed(Commands(slots, f), f)
<1>. DEFINE S == {s \in slots : w.acc[s].val # Noop}
            g == [s \in S |-> w.acc[s].val]
<1>1. S = Commands(slots, f)
  BY DEF Commands
<1>2. S \in SUBSET WindowSlot /\ \A s \in S : g[s] = f[s]
  OBVIOUS
<1>3. Listed(S, g) = Listed(S, f)
  BY <1>2, ListedSame
<1>4. \A i \in 1..Cardinality(S) : g[Nth(S, i)] = w.acc[Nth(S, i)].val
  BY <1>2, NthSlot
<1>5. Executions(w, slots) = [i \in 1..Cardinality(S) |-> <<Nth(S, i), w.acc[Nth(S, i)].val>>]
  BY DEF Executions
<1>6. Executions(w, slots) = Listed(S, g)
  BY <1>4, <1>5, Zenon DEF Listed
<1>. QED
  BY <1>1, <1>3, <1>6

LEMMA ExecutionsSame ==
  ASSUME NEW w, NEW u, NEW slots \in SUBSET WindowSlot,
         \A s \in slots : u.acc[s] = w.acc[s]
  PROVE  Executions(u, slots) = Executions(w, slots)
<1>. DEFINE f == [s \in slots |-> w.acc[s].val]
<1>1. \A s \in slots : f[s] = w.acc[s].val /\ f[s] = u.acc[s].val
  OBVIOUS
<1>. HIDE DEF f
<1>. QED
  BY <1>1, ExecutionsListed

LEMMA ExecutionsConcat ==
  ASSUME NEW w, NEW i \in Nat, NEW j \in WindowSlot, i <= j
  PROVE  Executions(w, 0..(j - 1))
           = Executions(w, 0..(i - 1)) \o Executions(w, i..(j - 1))
<1>. DEFINE f == [s \in WindowSlot |-> w.acc[s].val]
            A == Commands(0..(i - 1), f)
            B == Commands(i..(j - 1), f)
<1>1. j \in Nat
  BY SlotSet
<1>2. 0..(j - 1) \in SUBSET WindowSlot /\ 0..(i - 1) \in SUBSET WindowSlot
      /\ i..(j - 1) \in SUBSET WindowSlot
  BY <1>1, MaxSlotAssumption DEF WindowSlot
<1>3. \A s \in WindowSlot : f[s] = w.acc[s].val
  OBVIOUS
<1>4. Commands(0..(j - 1), f) = A \cup B
  <2>1. 0..(j - 1) = 0..(i - 1) \cup i..(j - 1)
    BY <1>1
  <2>. QED
    BY <2>1 DEF Commands
<1>5. A \in SUBSET WindowSlot /\ B \in SUBSET WindowSlot
  BY <1>2 DEF Commands
<1>6. \A a \in A : \A b \in B : a < b
  BY <1>1 DEF Commands
<1>. HIDE DEF f
<1>7. Executions(w, 0..(j - 1)) = Listed(Commands(0..(j - 1), f), f)
  BY <1>2, <1>3, ExecutionsListed
<1>8. Executions(w, 0..(i - 1)) = Listed(A, f) /\ Executions(w, i..(j - 1)) = Listed(B, f)
  BY <1>2, <1>3, ExecutionsListed
<1>. HIDE DEF A, B
<1>9. Listed(A \cup B, f) = Listed(A, f) \o Listed(B, f)
  BY <1>5, <1>6, ListedConcat
<1>. QED
  BY <1>4, <1>7, <1>8, <1>9
-----------------------------------------------------------------------------
MInv == LInv /\ next \in [Node -> Nat] /\ ExecutesDecided

\* The actions of a node that run try_execute_slots, with a handler of a
\* command other than a resolution.
Commanded(n) ==
  \/ ClientProposal(n) \/ OnProposal(n) \/ OnPrepare(n) \/ OnPromise(n)
  \/ OnAccept(n) \/ OnReject(n) \/ OnAccepted(n) \/ OnCatchup(n)

LEMMA MaxOfRange ==
  ASSUME NEW i \in Int, NEW j \in Int, i <= j
  PROVE  Max(i..j) = j
<1>1. j \in i..j /\ \A y \in i..j : j >= y
  OBVIOUS
<1>2. \A x \in i..j : (\A y \in i..j : x >= y) => x = j
  OBVIOUS
<1>. QED
  BY <1>1, <1>2 DEF Max

(***************************************************************************)
(* try_execute_slots catches up with the decided prefix, if it was not     *)
(* ahead of it.                                                            *)
(***************************************************************************)
LEMMA TryExecuteCatchesUp ==
  ASSUME NEW n \in Node, next \in [Node -> Nat], TryExecute(n),
         window'[n].min \in Nat, next[n] <= window'[n].min
  PROVE  /\ next' = [next EXCEPT ![n] = window'[n].min]
         /\ executed' = [executed EXCEPT
                           ![n] = @ \o Executions(window'[n], next[n]..(window'[n].min - 1))]
<1>. DEFINE i == next[n]
            j == window'[n].min
            slots == Yielded(Included(i), Unbounded, j)
<1>1. i \in Nat /\ j \in Nat
  OBVIOUS
<1>2. slots = i..(j - 1)
  BY DEF Yielded, Included, Unbounded, StartIndex, EndIndex
<1>3. next' = [next EXCEPT ![n] = IF slots = {} THEN i ELSE Max(slots) + 1]
  BY DEF TryExecute
<1>4. ASSUME i = j PROVE next' = [next EXCEPT ![n] = j]
  <2>1. slots = {}
    BY <1>1, <1>2, <1>4
  <2>. QED
    BY <1>3, <1>4, <2>1
<1>5. ASSUME i < j PROVE next' = [next EXCEPT ![n] = j]
  <2>1. slots # {} /\ Max(slots) = j - 1
    <3>1. i <= j - 1 /\ i \in i..(j - 1)
      BY <1>1, <1>5
    <3>. QED
      BY <1>1, <1>2, <3>1, MaxOfRange
  <2>2. Max(slots) + 1 = j
    BY <1>1, <2>1
  <2>. QED
    BY <1>3, <2>1, <2>2
<1>6. next' = [next EXCEPT ![n] = j]
  BY <1>1, <1>4, <1>5
<1>7. executed' = [executed EXCEPT ![n] = @ \o Executions(window'[n], slots)]
  BY DEF TryExecute
<1>. QED
  BY <1>2, <1>6, <1>7
-----------------------------------------------------------------------------
(***************************************************************************)
(* A node touches no window but its own, and an unwinding is not undone.   *)
(***************************************************************************)
Local(n) ==
  /\ \A k \in Node \ {n} : window'[k] = window[k]
  /\ panicked \subseteq panicked'

LEMMA SetWindowLocal ==
  ASSUME LInv, NEW n \in Node, NEW w, SetWindow(n, w)
  PROVE  \A k \in Node \ {n} : window'[k] = window[k]
BY DEF SetWindow, LInv, IInv

LEMMA HandlersAreLocal ==
  ASSUME LInv, NEW n \in Node, Commanded(n) \/ OnResolution(n) \/ ProposeLeadership(n)
  PROVE  Local(n)
<1>1. ASSUME NEW v, Propose(n, v) PROVE Local(n)
  BY <1>1, SetWindowLocal
  DEF Propose, ProposeFirst, ProposeRedirect, ProposeQueue, ProposeLead, Campaign,
      Send, SendTo, Local
<1>2. CASE ClientProposal(n) \/ OnProposal(n)
  BY <1>1, <1>2 DEF ClientProposal, OnProposal, HandleProposal
<1>3. CASE OnPrepare(n)
  BY <1>3, SetWindowLocal DEF OnPrepare, HandlePrepare, Send, SendTo, Local
<1>4. CASE OnPromise(n)
  BY <1>4, SetWindowLocal DEF OnPromise, HandlePromise, DriveAccept, Send, Local
<1>5. CASE OnAccept(n)
  BY <1>5, SetWindowLocal DEF OnAccept, HandleAccept, Send, SendTo, Local
<1>6. CASE OnReject(n)
  BY <1>6 DEF OnReject, HandleReject, Forward, Send, SendTo, Local
<1>7. CASE OnAccepted(n)
  BY <1>7, SetWindowLocal DEF OnAccepted, HandleAccepted, Send, Local
<1>8. CASE OnResolution(n)
  BY <1>8, SetWindowLocal DEF OnResolution, HandleResolution, Send, SendTo, Local
<1>9. CASE OnCatchup(n) \/ ProposeLeadership(n)
  BY <1>9 DEF OnCatchup, HandleCatchup, ProposeLeadership, Campaign, Send, Local
<1>. QED
  BY <1>2, <1>3, <1>4, <1>5, <1>6, <1>7, <1>8, <1>9 DEF Commanded

\* A resolution that makes the node ask itself unwinds.
LEMMA AskingItselfUnwinds ==
  ASSUME NEW n \in Node, NEW m \in msgs, HandleResolution(n, m), AsksItself(n, m)
  PROVE  n \in panicked'
BY DEF HandleResolution, AsksItself, SendTo
-----------------------------------------------------------------------------
LEMMA InitMInv == MachineInit => MInv
<1>. SUFFICES ASSUME MachineInit PROVE MInv
  OBVIOUS
<1>1. LInv
  BY InitLInv DEF MachineInit
<1>2. \A n \in Node : next[n] = 0 /\ window[n].min = 0
  BY DEF MachineInit, Init, NewWindow
<1>. QED
  BY <1>1, <1>2 DEF MInv, MachineInit, ExecutesDecided

LEMMA MachineNextIsNext == MachineNext => Next
BY DEF MachineNext, Receive, Tick, Next, OnResolution

LEMMA NextMInv == MInv /\ [MachineNext]_groupVars => MInv'
<1>. SUFFICES ASSUME MInv, [MachineNext]_groupVars PROVE MInv'
  OBVIOUS
<1>1. CASE UNCHANGED groupVars
  <2>1. LInv'
    BY <1>1, NextLInv DEF groupVars, vars, MInv
  <2>. QED
    BY <1>1, <2>1 DEF groupVars, MInv, ExecutesDecided
<1>2. CASE MachineNext
  <2>1. LInv' /\ \A k \in Node : Handled(k)
    BY <1>2, MachineNextIsNext, NextLInv, NextHandled DEF MInv
  <2>2. \A k \in Node : window[k].min \in Nat /\ window'[k].min \in Nat
    BY <2>1, WindowFields DEF MInv, LInv, IInv, GoodWindow
  <2>3. \A k \in Node : next[k] <= window[k].min /\ window[k].min <= window'[k].min
    BY <2>1 DEF MInv, ExecutesDecided, Handled, Keeps
  <2>4. \A k \in Node : next[k] \in Nat /\ next[k] <= window'[k].min
    BY <2>2, <2>3 DEF MInv
  <2>5. PICK n \in Node : Receive(n) \/ Tick(n)
    BY <1>2 DEF MachineNext
  <2>6. Local(n)
    BY <2>5, HandlersAreLocal DEF MInv, Receive, Tick, Commanded, OnResolution
  <2>7. CASE TryExecute(n)
    <3>1. next' = [next EXCEPT ![n] = window'[n].min]
      BY <2>2, <2>4, <2>7, TryExecuteCatchesUp DEF MInv
    <3>2. next' \in [Node -> Nat]
      BY <2>2, <3>1 DEF MInv
    <3>3. next'[n] = window'[n].min
      BY <3>1 DEF MInv
    <3>4. \A k \in Node \ {n} : next'[k] = next[k] /\ window'[k] = window[k]
      BY <2>6, <3>1 DEF Local, MInv
    <3>5. ExecutesDecided'
      BY <2>2, <2>6, <3>3, <3>4 DEF MInv, ExecutesDecided, Local
    <3>. QED
      BY <2>1, <3>2, <3>5 DEF MInv
  <2>8. ASSUME NEW m \in msgs, HandleResolution(n, m), AsksItself(n, m), next' = next
        PROVE  MInv'
    <3>1. n \in panicked'
      BY <2>8, AskingItselfUnwinds
    <3>2. ExecutesDecided'
      BY <2>4, <2>6, <2>8, <3>1 DEF MInv, ExecutesDecided, Local
    <3>. QED
      BY <2>1, <2>8, <3>2 DEF MInv
  <2>9. CASE Tick(n)
    <3>1. next' = next /\ window' = window /\ panicked' = panicked
      BY <2>9 DEF Tick, machineVars, ProposeLeadership, Campaign, Send
    <3>. QED
      BY <2>1, <3>1 DEF MInv, ExecutesDecided
  <2>. QED
    BY <2>5, <2>7, <2>8, <2>9 DEF Receive, machineVars
<1>. QED
  BY <1>1, <1>2

(***************************************************************************)
(* A replica has executed exactly what it has decided after every command  *)
(* whose handler did not unwind, and never runs ahead of its log; without  *)
(* any assumption on what promises report.                                 *)
(***************************************************************************)
THEOREM MachinesKeepUp == MachineSpec => []ExecutesDecided
<1>1. MInv => ExecutesDecided
  BY DEF MInv
<1>. QED
  BY <1>1, InitMInv, NextMInv, PTL DEF MachineSpec
-----------------------------------------------------------------------------
(***************************************************************************)
(* What a replica has executed is the decided prefix of its own log up to  *)
(* next_execution_slot.                                                    *)
(***************************************************************************)
ExecInv ==
  /\ MInv
  /\ executed = [n \in Node |-> Executions(window[n], 0..(next[n] - 1))]

\* The machine of n goes on from where it is, up to next'[n].
Advances(n) ==
  /\ next[n] <= next'[n]
  /\ next' = [next EXCEPT ![n] = next'[n]]
  /\ executed' = [executed EXCEPT
                   ![n] = @ \o Executions(window'[n], next[n]..(next'[n] - 1))]

LEMMA NothingExecuted ==
  ASSUME NEW w, NEW v, NEW i \in Nat
  PROVE  Executions(w, 0..(i - 1)) \o Executions(v, i..(i - 1)) = Executions(w, 0..(i - 1))
<1>. DEFINE S == {s \in 0..(i - 1) : w.acc[s].val # Noop}
            e(k) == <<Nth(S, k), w.acc[Nth(S, k)].val>>
            E == {e(k) : k \in 1..Cardinality(S)}
<1>1. Executions(v, i..(i - 1)) = <<>>
  <2>1. {s \in i..(i - 1) : v.acc[s].val # Noop} = {}
    OBVIOUS
  <2>2. Executions(v, i..(i - 1)) = [k \in 1..0 |-> <<Nth({}, k), v.acc[Nth({}, k)].val>>]
    BY <2>1, FS_EmptySet, Zenon DEF Executions
  <2>. QED
    BY <2>2
<1>2. Cardinality(S) \in Nat
  <2>1. 0 \in Int /\ i - 1 \in Int /\ S \in SUBSET (0..(i - 1))
    OBVIOUS
  <2>2. IsFiniteSet(0..(i - 1))
    BY <2>1, FS_Interval
  <2>. HIDE DEF S
  <2>. QED
    BY <2>1, <2>2, FS_Subset, FS_CardinalityType
<1>3. Executions(w, 0..(i - 1)) = [k \in 1..Cardinality(S) |-> e(k)]
  BY DEF Executions
<1>4. Executions(w, 0..(i - 1)) \in Seq(E)
  <2>1. \A k \in 1..Cardinality(S) : e(k) \in E
    OBVIOUS
  <2>. HIDE DEF S, e, E
  <2>. QED
    BY <1>2, <1>3, <2>1
<1>. HIDE DEF E
<1>. QED
  BY <1>1, <1>4

LEMMA MachineStep ==
  ASSUME ExecInv, MachineNext
  PROVE  \E n \in Node : Advances(n)
<1>1. LInv' /\ \A k \in Node : Handled(k)
  BY MachineNextIsNext, NextLInv, NextHandled DEF ExecInv, MInv
<1>2. PICK n \in Node : Receive(n) \/ Tick(n)
  BY DEF MachineNext
<1>3. window[n].min \in Nat /\ window'[n].min \in Nat
  BY <1>1, WindowFields DEF ExecInv, MInv, LInv, IInv, GoodWindow
<1>4. next[n] \in Nat /\ next[n] <= window'[n].min
  BY <1>1, <1>3 DEF ExecInv, MInv, ExecutesDecided, Handled, Keeps
<1>5. CASE TryExecute(n)
  <2>1. /\ next' = [next EXCEPT ![n] = window'[n].min]
        /\ executed' = [executed EXCEPT
                         ![n] = @ \o Executions(window'[n], next[n]..(window'[n].min - 1))]
    BY <1>3, <1>4, <1>5, TryExecuteCatchesUp DEF ExecInv, MInv
  <2>2. next'[n] = window'[n].min
    BY <2>1 DEF ExecInv, MInv
  <2>. QED
    BY <1>4, <2>1, <2>2 DEF Advances
<1>6. CASE UNCHANGED machineVars
  <2>1. next' = next /\ executed' = executed
    BY <1>6 DEF machineVars
  <2>2. executed[n] = Executions(window[n], 0..(next[n] - 1))
    BY DEF ExecInv
  <2>3. executed[n] \o Executions(window'[n], next[n]..(next[n] - 1)) = executed[n]
    BY <1>4, <2>2, NothingExecuted
  <2>4. executed = [executed EXCEPT ![n] = executed[n]] /\ next = [next EXCEPT ![n] = next[n]]
    BY DEF ExecInv, MInv
  <2>5. next'[n] = next[n]
    BY <2>1
  <2>6. executed'
          = [executed EXCEPT
              ![n] = executed[n] \o Executions(window'[n], next[n]..(next'[n] - 1))]
    BY <2>1, <2>3, <2>4, <2>5
  <2>7. next' = [next EXCEPT ![n] = next'[n]]
    BY <2>1, <2>4, Zenon
  <2>8. next[n] <= next'[n]
    BY <1>4, <2>5
  <2>. QED
    BY <2>6, <2>7, <2>8, Zenon DEF Advances
<1>. QED
  BY <1>2, <1>5, <1>6 DEF Receive, Tick

LEMMA InitExecInv == MachineInit => ExecInv
<1>. SUFFICES ASSUME MachineInit PROVE ExecInv
  OBVIOUS
<1>1. \A n \in Node : Executions(window[n], 0..(0 - 1)) = <<>>
  <2>1. \A n \in Node : {s \in 0..(0 - 1) : window[n].acc[s].val # Noop} = {}
    OBVIOUS
  <2>2. ASSUME NEW n \in Node
        PROVE  Executions(window[n], 0..(0 - 1))
                 = [k \in 1..0 |-> <<Nth({}, k), window[n].acc[Nth({}, k)].val>>]
    BY <2>1, FS_EmptySet, Zenon DEF Executions
  <2>. QED
    BY <2>2
<1>. QED
  BY <1>1, InitMInv DEF ExecInv, MachineInit

LEMMA NextExecInv == ExecInv /\ [MachineNext]_groupVars => ExecInv'
<1>. SUFFICES ASSUME ExecInv, [MachineNext]_groupVars PROVE ExecInv'
  OBVIOUS
<1>1. MInv'
  BY NextMInv DEF ExecInv
<1>2. CASE UNCHANGED groupVars
  BY <1>1, <1>2 DEF groupVars, ExecInv
<1>3. CASE MachineNext
  <2>1. PICK n \in Node : Advances(n)
    BY <1>3, MachineStep
  <2>2. \A k \in Node : Handled(k)
    BY <1>3, MachineNextIsNext, NextHandled DEF ExecInv, MInv
  <2>3. ASSUME NEW k \in Node
        PROVE  /\ next[k] \in Nat /\ next'[k] \in WindowSlot
               /\ Executions(window'[k], 0..(next[k] - 1))
                    = Executions(window[k], 0..(next[k] - 1))
    <3>1. next[k] \in Nat /\ next'[k] \in Nat /\ next[k] <= window[k].min
          /\ next'[k] <= window'[k].min
      BY <1>1 DEF ExecInv, MInv, ExecutesDecided
    <3>2. window[k].min \in WindowSlot /\ window'[k].min \in WindowSlot
      BY <1>1, WindowFields DEF ExecInv, MInv, LInv, IInv, GoodWindow
    <3>3. 0..(next[k] - 1) \in SUBSET WindowSlot /\ next'[k] \in WindowSlot
      BY <3>1, <3>2, MaxSlotAssumption DEF WindowSlot
    <3>4. \A s \in 0..(next[k] - 1) : ResolvedAt(window[k], s)
      <4>1. window[k].min \in Nat
        BY <3>2, SlotSet
      <4>2. \A s \in 0..(next[k] - 1) : s \in WindowSlot /\ s < window[k].min
        BY <3>1, <3>3, <4>1
      <4>. QED
        BY <4>2 DEF ExecInv, MInv, LInv, Logged, Shape
    <3>5. \A s \in 0..(next[k] - 1) : window'[k].acc[s] = window[k].acc[s]
      BY <2>2, <3>3, <3>4 DEF Handled, Keeps
    <3>. QED
      BY <3>1, <3>3, <3>5, ExecutionsSame
  <2>4. ASSUME NEW k \in Node
        PROVE  executed'[k] = Executions(window'[k], 0..(next'[k] - 1))
    <3>1. executed[k] = Executions(window'[k], 0..(next[k] - 1))
      BY <2>3 DEF ExecInv
    <3>2. CASE k = n
      <4>1. executed'[k] = executed[k] \o Executions(window'[k], next[k]..(next'[k] - 1))
        BY <2>1, <3>2 DEF Advances, ExecInv
      <4>2. next[k] <= next'[k]
        BY <2>1, <3>2 DEF Advances
      <4>3. Executions(window'[k], 0..(next'[k] - 1))
              = Executions(window'[k], 0..(next[k] - 1))
                  \o Executions(window'[k], next[k]..(next'[k] - 1))
        BY <2>3, <4>2, ExecutionsConcat
      <4>. QED
        BY <3>1, <4>1, <4>3
    <3>3. CASE k # n
      <4>1. executed'[k] = executed[k] /\ next'[k] = next[k]
        BY <2>1, <3>3 DEF Advances, ExecInv, MInv
      <4>. QED
        BY <3>1, <4>1
    <3>. QED
      BY <3>2, <3>3
  <2>5. executed' = [k \in Node |-> executed'[k]]
    BY <2>1 DEF Advances, ExecInv
  <2>6. executed' = [k \in Node |-> Executions(window'[k], 0..(next'[k] - 1))]
    BY <2>4, <2>5, Zenon
  <2>. QED
    BY <1>1, <2>6 DEF ExecInv
<1>. QED
  BY <1>2, <1>3

(***************************************************************************)
(* Whatever the order in which decisions come, however many slots one      *)
(* command completes and however often a handler unwinds before the        *)
(* execution: a replica has executed the decided slots of its log below    *)
(* next_execution_slot, in slot order, each once, without the no-ops.      *)
(***************************************************************************)
THEOREM ExecutionsFollowLog == MachineSpec => []ExecutesOnceInOrder
<1>1. ExecInv => ExecutesOnceInOrder
  BY DEF ExecInv, ExecutesOnceInOrder
<1>. QED
  BY <1>1, InitExecInv, NextExecInv, PTL DEF MachineSpec
-----------------------------------------------------------------------------
(***************************************************************************)
(* The log of the group, which the refinement mapping chooses from what    *)
(* the replicas have decided, is the log of each of them while no promise  *)
(* has left out a slot its leader proposes.                                *)
(***************************************************************************)
LogHolds ==
  /\ \A s \in DOMAIN GroupLog : s \in Slot /\ \E k \in Node : ResolvedAt(window[k], s)
  /\ \A k \in Node : \A s \in Slot :
       ResolvedAt(window[k], s) => s \in DOMAIN GroupLog /\ GroupLog[s] = window[k].acc[s].val

OneLogInv == ExecInv /\ SafeInv

LEMMA GroupLogHolds == Majorities /\ SafeInv /\ FullyReported => LogHolds
<1>. SUFFICES ASSUME Majorities, SafeInv, FullyReported PROVE LogHolds
  OBVIOUS
<1>1. ASSUME NEW s \in Slot, NEW k \in Node, ResolvedAt(window[k], s),
             NEW v \in DecisionsOf(s)
      PROVE  v = window[k].acc[s].val
  <2>1. PICK n \in Node : ResolvedAt(window[n], s) /\ v = window[n].acc[s].val
    BY DEF DecisionsOf
  <2>. QED
    BY <1>1, <2>1, SameDecision
<1>2. ASSUME NEW s \in Slot, NEW k \in Node, ResolvedAt(window[k], s)
      PROVE  s \in DOMAIN GroupLog /\ GroupLog[s] = window[k].acc[s].val
  <2>1. window[k].acc[s].val \in DecisionsOf(s)
    BY <1>2 DEF DecisionsOf
  <2>2. DecisionsOf(s) = {window[k].acc[s].val}
    BY <1>1, <1>2, <2>1
  <2>3. s \in {t \in Slot : DecisionsOf(t) # {}}
    BY <2>1
  <2>4. GroupLog[s] = CHOOSE v \in DecisionsOf(s) : TRUE
    BY <2>3 DEF GroupLog
  <2>. QED
    BY <2>2, <2>3, <2>4 DEF GroupLog
<1>3. ASSUME NEW s \in DOMAIN GroupLog
      PROVE  s \in Slot /\ \E k \in Node : ResolvedAt(window[k], s)
  BY <1>3 DEF GroupLog, DecisionsOf
<1>. QED
  BY <1>2, <1>3 DEF LogHolds

LEMMA GroupLogHoldsNext == (Majorities /\ SafeInv /\ FullyReported)' => LogHolds'
BY GroupLogHolds, PTL

\* What the machine of n executes next are calls for the log of the group.
LEMMA LogCalls ==
  ASSUME NEW w, NEW l, NEW i \in Nat, NEW j \in WindowSlot,
         \A s \in 0..(j - 1) : l[s] = w.acc[s].val
  PROVE  Log!Calls(l, i, j) = Executions(w, i..(j - 1))
<1>. DEFINE slots == i..(j - 1)
<1>1. slots \in SUBSET WindowSlot /\ \A s \in slots : s \in 0..(j - 1)
  BY MaxSlotAssumption DEF WindowSlot
<1>2. Executions(w, slots) = Listed(Commands(slots, l), l)
  BY <1>1, ExecutionsListed
<1>3. Log!Calls(l, i, j) = Listed(Commands(slots, l), l)
  BY Zenon DEF Log!Calls, Listed, Commands, Nth, Log!Cardinality, Cardinality
<1>. QED
  BY <1>2, <1>3

LEMMA LogStep ==
  ASSUME OneLogInv, OneLogInv', LogHolds, LogHolds', MachineNext
  PROVE  Log!NextLog
<1>1. PICK n \in Node : Advances(n)
  BY MachineStep DEF OneLogInv
<1>2. \A k \in Node : Handled(k)
  BY MachineNextIsNext, NextHandled DEF OneLogInv, ExecInv, MInv
<1>3. ASSUME NEW s \in DOMAIN GroupLog
      PROVE  s \in DOMAIN GroupLog' /\ GroupLog'[s] = GroupLog[s]
  <2>1. s \in Slot /\ s \in WindowSlot
    BY <1>3, MaxSlotAssumption DEF LogHolds, Slot, WindowSlot
  <2>2. PICK k \in Node : ResolvedAt(window[k], s)
    BY <1>3 DEF LogHolds
  <2>3. window'[k].acc[s] = window[k].acc[s]
    BY <1>2, <2>1, <2>2 DEF Handled, Keeps
  <2>4. ResolvedAt(window'[k], s)
    BY <2>2, <2>3 DEF ResolvedAt
  <2>. QED
    BY <2>1, <2>2, <2>3, <2>4 DEF LogHolds
<1>4. Log!Decide
  BY <1>3, Zenon DEF Log!Decide
<1>5. next[n] \in Nat /\ next'[n] \in WindowSlot /\ next'[n] \in Nat
      /\ next'[n] <= window'[n].min /\ window'[n].min \in WindowSlot
  <2>1. next[n] \in Nat /\ next'[n] \in Nat /\ next'[n] <= window'[n].min
    BY DEF OneLogInv, ExecInv, MInv, ExecutesDecided
  <2>2. window'[n].min \in WindowSlot
    BY WindowFields DEF OneLogInv, ExecInv, MInv, LInv, IInv, GoodWindow
  <2>. QED
    BY <2>1, <2>2, MaxSlotAssumption DEF WindowSlot
<1>6. ASSUME NEW s \in 0..(next'[n] - 1)
      PROVE  s \in DOMAIN GroupLog' /\ GroupLog'[s] = window'[n].acc[s].val
  <2>1. s \in Slot /\ s \in WindowSlot /\ s < window'[n].min
    BY <1>5, MaxSlotAssumption DEF Slot, WindowSlot
  <2>2. ResolvedAt(window'[n], s)
    BY <2>1 DEF OneLogInv, ExecInv, MInv, LInv, Logged, Shape
  <2>. QED
    BY <2>1, <2>2 DEF LogHolds
<1>7. Log!Calls(GroupLog', next[n], next'[n])
        = Executions(window'[n], next[n]..(next'[n] - 1))
  <2>1. \A s \in 0..(next'[n] - 1) : GroupLog'[s] = window'[n].acc[s].val
    BY <1>6
  <2>. DEFINE i == next[n]
              j == next'[n]
  <2>2. i \in Nat /\ j \in WindowSlot
    BY <1>5
  <2>. HIDE DEF i, j
  <2>3. \A w, l : (\A s \in 0..(j - 1) : l[s] = w.acc[s].val)
          => Log!Calls(l, i, j) = Executions(w, i..(j - 1))
    BY <2>2, LogCalls
  <2>. QED
    BY <2>1, <2>3 DEF i, j
<1>8. Log!Apply(n)
  <2>1. next[n] <= next'[n] /\ next' = [next EXCEPT ![n] = next'[n]]
    BY <1>1 DEF Advances
  <2>2. executed'[n] = executed[n] \o Log!Calls(GroupLog', next[n], next'[n])
    BY <1>1, <1>7 DEF Advances, OneLogInv, ExecInv
  <2>3. executed' = [executed EXCEPT ![n] = executed'[n]]
    BY <1>1 DEF Advances, OneLogInv, ExecInv
  <2>. QED
    BY <1>6, <2>1, <2>2, <2>3 DEF Log!Apply
<1>. QED
  BY <1>4, <1>8 DEF Log!NextLog

LEMMA GroupStep ==
  ASSUME Majorities, OneLogInv, OneLogInv', [MachineNext]_groupVars, FullyReported'
  PROVE  [Log!NextLog]_(Log!logVars)
<1>1. CASE MachineNext
  <2>1. msgs \subseteq msgs'
    BY <1>1, MachineNextIsNext, NextGrows DEF OneLogInv
  <2>2. FullyReported
    BY <2>1, ReportedBefore
  <2>3. LogHolds /\ LogHolds'
    BY <2>2, GroupLogHolds, GroupLogHoldsNext DEF OneLogInv, Majorities
  <2>. QED
    BY <1>1, <2>3, LogStep
<1>2. CASE UNCHANGED groupVars
  <2>1. window' = window /\ next' = next /\ executed' = executed
    BY <1>2 DEF groupVars
  <2>2. GroupLog' = GroupLog
    BY <2>1 DEF GroupLog, DecisionsOf
  <2>. QED
    BY <2>1, <2>2 DEF Log!logVars
<1>. QED
  BY <1>1, <1>2

LEMMA InitLogHolds == MachineInit => Log!InitLog
<1>. SUFFICES ASSUME MachineInit PROVE Log!InitLog
  OBVIOUS
<1>1. \A s \in Slot : DecisionsOf(s) = {}
  BY MaxSlotAssumption
  DEF MachineInit, Init, DecisionsOf, NewWindow, ResolvedAt, Unopened, AwaitValue, IsResolved,
      Slot, WindowSlot
<1>2. {t \in Slot : DecisionsOf(t) # {}} = {}
  BY <1>1
<1>3. GroupLog = [s \in {} |-> CHOOSE v \in DecisionsOf(s) : TRUE]
  BY <1>2, Zenon DEF GroupLog
<1>4. GroupLog = <<>>
  BY <1>3
<1>. QED
  BY <1>4 DEF Log!InitLog, MachineInit

(***************************************************************************)
(* The group of state machines is one replicated log: in groups of an odd  *)
(* number of nodes (see AgreementHolds), the machines of MachineSpec apply *)
(* growing prefixes of one log as long as no promise has left out a slot   *)
(* that its leader proposes.                                               *)
(***************************************************************************)
THEOREM MachinesShareOneLog ==
  ASSUME Cardinality(Node) % 2 = 1
  PROVE  MachineSpec => OneLogWhenReported
<1>1. Majorities
  BY OddMajorities
<1>2. MachineInit => OneLogInv /\ Log!InitLog
  BY InitExecInv, InitSafeInv, InitLogHolds DEF OneLogInv, MachineInit
<1>3. OneLogInv /\ [MachineNext]_groupVars => OneLogInv'
  <2>1. ASSUME OneLogInv, [MachineNext]_groupVars PROVE [Next]_vars
    BY <2>1, MachineNextIsNext DEF groupVars, vars
  <2>. QED
    BY <1>1, <2>1, NextExecInv, NextSafeInv DEF OneLogInv
<1>4. OneLogInv /\ OneLogInv' /\ [MachineNext]_groupVars
        => (FullyReported' => [Log!NextLog]_(Log!logVars))
  BY <1>1, GroupStep
<1>. QED
  BY <1>2, <1>3, <1>4, PTL DEF MachineSpec, OneLogWhenReported
=============================================================================
