------------------------------ MODULE KvProofs ------------------------------
(***************************************************************************)
(* For every number of replicas and requests, and however often and in     *)
(* whatever order commands are executed, no request handler of the         *)
(* key-value service waits in vain; and as long as the replicas execute in *)
(* one order, the service is an atomic store.                              *)
(*                                                                         *)
(* KvInv adds to NoLostAnswer that a command is only executed after its    *)
(* handler has submitted it, hence after it has registered.  AtomicInv     *)
(* adds that the store of a replica holds the last Set of what it has      *)
(* executed, and that an answer is the one of the position at which the    *)
(* home of the request has executed it.                                    *)
(***************************************************************************)
EXTENDS KvService, SequenceTheorems, WellFoundedInduction, TLAPS

ExecutedWasSubmitted ==
  /\ \A n \in Replica : \A i \in DOMAIN executed[n] : executed[n][i] \in proposed
  /\ \A r \in proposed : phase[r] \notin {"new", "registered"}
  /\ \A r \in Request : phase[r] # "new" => home[r] \in Replica

KvInv == TypeOK /\ ExecutedWasSubmitted /\ NoLostAnswer

LEMMA KvInit == InitKv => KvInv
<1>. SUFFICES ASSUME InitKv PROVE KvInv
  OBVIOUS
<1>1. TypeOK
  BY DEF InitKv, TypeOK, NoAnswer
<1>2. ExecutedWasSubmitted
  BY DEF InitKv, ExecutedWasSubmitted
<1>3. NoLostAnswer
  BY DEF InitKv, NoLostAnswer
<1>. QED
  BY <1>1, <1>2, <1>3 DEF KvInv

(***************************************************************************)
(* Types.                                                                  *)
(***************************************************************************)
LEMMA KvTypes == TypeOK /\ [NextKv]_kvVars => TypeOK'
<1>. SUFFICES ASSUME TypeOK, [NextKv]_kvVars PROVE TypeOK'
  OBVIOUS
<1>. USE DEF TypeOK
<1>1. CASE UNCHANGED kvVars
  BY <1>1 DEF kvVars
<1>2. ASSUME NEW r \in Request, Submit(r) \/ Respond(r) \/ HangUp(r) PROVE TypeOK'
  BY <1>2 DEF Submit, Respond, HangUp, Enter
<1>4. ASSUME NEW n \in Replica, NEW r \in Request, Register(n, r) PROVE TypeOK'
  BY <1>4 DEF Register, Enter
<1>5. ASSUME NEW n \in Replica, Prune(n) PROVE TypeOK'
  BY <1>5 DEF Prune
<1>6. ASSUME NEW n \in Replica, NEW r \in Request, Execute(n, r) PROVE TypeOK'
  <2>1. executed' \in [Replica -> Seq(Request)]
    <3>1. Append(executed[n], r) \in Seq(Request)
      OBVIOUS
    <3>. QED
      BY <1>6, <3>1 DEF Execute
  <2>2. values' \in [Replica -> Request \cup {Nothing}]
    BY <1>6 DEF Execute, StoredBy
  <2>3. answer' \in [Request -> [slot : Nat, val : Request \cup {Nothing}]]
    <3>. DEFINE v == IF r \in Gets THEN values[n] ELSE Nothing
                a == [slot |-> Len(executed[n]) + 1, val |-> v]
    <3>1. a \in [slot : Nat, val : Request \cup {Nothing}]
      <4>1. Len(executed[n]) + 1 \in Nat
        OBVIOUS
      <4>. QED
        BY <4>1
    <3>2. answer' = [answer EXCEPT ![r] = a] \/ answer' = answer
      BY <1>6 DEF Execute, Reply
    <3>. HIDE DEF a
    <3>. QED
      BY <3>1, <3>2
  <2>4. listeners' \in [Replica -> SUBSET Request]
    BY <1>6 DEF Execute
  <2>. QED
    BY <1>6, <2>1, <2>2, <2>3, <2>4 DEF Execute
<1>. QED
  BY <1>1, <1>2, <1>4, <1>5, <1>6 DEF NextKv

(***************************************************************************)
(* What a replica has executed grows by the command it executes.           *)
(***************************************************************************)
LEMMA ExecutedStep ==
  ASSUME TypeOK, NEW n \in Replica, NEW r \in Request, Execute(n, r)
  PROVE  /\ \A k \in Replica \ {n} : executed'[k] = executed[k]
         /\ executed'[n] = Append(executed[n], r)
         /\ Len(executed[n]) \in Nat /\ Len(executed'[n]) = Len(executed[n]) + 1
         /\ executed'[n][Len(executed[n]) + 1] = r
         /\ \A i \in DOMAIN executed[n] : executed'[n][i] = executed[n][i]
         /\ DOMAIN executed'[n] = DOMAIN executed[n] \cup {Len(executed[n]) + 1}
<1>1. executed \in [Replica -> Seq(Request)]
  BY DEF TypeOK
<1>2. executed' = [executed EXCEPT ![n] = Append(executed[n], r)]
  BY DEF Execute
<1>. QED
  BY <1>1, <1>2

LEMMA ExecutedByStep ==
  ASSUME TypeOK, NEW n \in Replica, NEW r \in Request, Execute(n, r)
  PROVE  \A k \in Replica :
           ExecutedBy(k)' = IF k = n THEN ExecutedBy(n) \cup {r} ELSE ExecutedBy(k)
<1>1. ExecutedBy(n)' = ExecutedBy(n) \cup {r}
  BY ExecutedStep DEF ExecutedBy
<1>2. \A k \in Replica \ {n} : ExecutedBy(k)' = ExecutedBy(k)
  BY ExecutedStep DEF ExecutedBy
<1>. QED
  BY <1>1, <1>2

LEMMA ExecutedSubmitted ==
  ASSUME KvInv, NEW n \in Replica, NEW r \in ExecutedBy(n)
  PROVE  r \in proposed
BY DEF KvInv, TypeOK, ExecutedWasSubmitted, ExecutedBy

LEMMA KvStep == KvInv /\ [NextKv]_kvVars => KvInv'
<1>. SUFFICES ASSUME KvInv, [NextKv]_kvVars PROVE KvInv'
  OBVIOUS
<1>0. TypeOK /\ TypeOK'
  BY KvTypes DEF KvInv
<1>. USE DEF KvInv
<1>1. CASE UNCHANGED kvVars
  BY <1>0, <1>1 DEF kvVars, ExecutedWasSubmitted, NoLostAnswer, ExecutedBy
<1>2. ASSUME NEW r \in Request, Submit(r) \/ Respond(r) \/ HangUp(r) PROVE KvInv'
  <2>1. /\ UNCHANGED <<home, listeners, executed, answer>>
        /\ \E p \in {"waiting", "answered", "gone"} : phase' = [phase EXCEPT ![r] = p]
        /\ phase[r] \in {"registered", "waiting"}
        /\ \/ proposed' = proposed
           \/ proposed' = proposed \cup {r} /\ phase' = [phase EXCEPT ![r] = "waiting"]
    BY <1>0, <1>2 DEF Submit, Respond, HangUp, Enter, TypeOK
  <2>2. ExecutedWasSubmitted'
    BY <1>0, <2>1 DEF ExecutedWasSubmitted, TypeOK
  <2>3. NoLostAnswer'
    BY <1>0, <2>1 DEF NoLostAnswer, ExecutedBy, TypeOK
  <2>. QED
    BY <1>0, <2>2, <2>3
<1>4. ASSUME NEW n \in Replica, NEW r \in Request, Register(n, r) PROVE KvInv'
  <2>1. /\ phase[r] = "new" /\ phase' = [phase EXCEPT ![r] = "registered"]
        /\ home' = [home EXCEPT ![r] = n]
        /\ listeners' = [listeners EXCEPT ![n] = @ \cup {r}]
        /\ UNCHANGED <<proposed, executed, answer>>
    BY <1>4 DEF Register, Enter
  <2>2. r \notin proposed
    BY <2>1 DEF ExecutedWasSubmitted
  <2>3. ExecutedWasSubmitted'
    BY <1>0, <2>1, <2>2 DEF ExecutedWasSubmitted, TypeOK
  <2>4. r \notin ExecutedBy(n)'
    BY <2>1, <2>2, ExecutedSubmitted DEF ExecutedBy
  <2>5. NoLostAnswer'
    BY <1>0, <2>1, <2>4 DEF NoLostAnswer, ExecutedBy, TypeOK
  <2>. QED
    BY <1>0, <2>3, <2>5
<1>5. ASSUME NEW n \in Replica, Prune(n) PROVE KvInv'
  <2>1. ExecutedWasSubmitted'
    BY <1>5 DEF Prune, ExecutedWasSubmitted
  <2>2. NoLostAnswer'
    BY <1>0, <1>5 DEF Prune, Closed, NoLostAnswer, ExecutedBy, TypeOK
  <2>. QED
    BY <1>0, <2>1, <2>2
<1>6. ASSUME NEW n \in Replica, NEW r \in Request, Execute(n, r) PROVE KvInv'
  <2>1. r \in proposed /\ UNCHANGED <<phase, home, proposed>>
    BY <1>6 DEF Execute
  <2>2. ExecutedWasSubmitted'
    BY <1>0, <1>6, <2>1, ExecutedStep DEF ExecutedWasSubmitted
  <2>3. /\ UNCHANGED <<phase, home>>
        /\ listeners' = [listeners EXCEPT ![n] = @ \ {r}]
        /\ Reply(n, r, IF r \in Gets THEN values[n] ELSE Nothing)
    BY <1>6 DEF Execute
  <2>4. \A q \in Request :
          \/ answer[q] # NoAnswer
          \/ q = r /\ r \in listeners[n] /\ phase[r] # "gone"
          => answer'[q] # NoAnswer
    <3>. DEFINE v == IF r \in Gets THEN values[n] ELSE Nothing
                a == [slot |-> Len(executed[n]) + 1, val |-> v]
    <3>1. a # NoAnswer
      <4>1. a.slot # NoAnswer.slot
        BY <1>0 DEF NoAnswer, TypeOK
      <4>. QED
        BY <4>1
    <3>2. IF Answers(n, r) THEN answer' = [answer EXCEPT ![r] = a] ELSE answer' = answer
      BY <2>3 DEF Reply
    <3>. HIDE DEF a
    <3>. QED
      BY <1>0, <3>1, <3>2 DEF Answers, TypeOK
  <2>5. ASSUME NEW q \in Request, phase[q] \in {"registered", "waiting"}
        PROVE  IF q \in ExecutedBy(home[q])' THEN answer'[q] # NoAnswer
                                           ELSE q \in listeners'[home[q]]
    <3>1. home[q] \in Replica
      BY <2>5 DEF ExecutedWasSubmitted
    <3>2. IF q \in ExecutedBy(home[q]) THEN answer[q] # NoAnswer ELSE q \in listeners[home[q]]
      BY <2>5 DEF NoLostAnswer
    <3>3. CASE home[q] = n /\ q = r
      <4>1. q \in ExecutedBy(home[q])'
        BY <3>1, <3>3, <1>0, <1>6, ExecutedByStep, <2>3
      <4>2. answer'[q] # NoAnswer
        BY <2>4, <2>5, <3>2, <3>3
      <4>. QED
        BY <4>1, <4>2
    <3>4. CASE home[q] = n /\ q # r
      <4>1. q \in ExecutedBy(home[q])' <=> q \in ExecutedBy(home[q])
        BY <3>1, <3>4, <1>0, <1>6, ExecutedByStep, <2>3
      <4>2. q \in listeners[n] => q \in listeners'[n]
        BY <1>0, <2>3, <3>4 DEF TypeOK
      <4>. QED
        BY <4>1, <4>2, <3>2, <3>4, <2>4
    <3>5. CASE home[q] # n
      <4>1. q \in ExecutedBy(home[q])' <=> q \in ExecutedBy(home[q])
        BY <3>1, <3>5, <1>0, <1>6, ExecutedByStep, <2>3
      <4>2. listeners'[home[q]] = listeners[home[q]]
        BY <1>0, <2>3, <3>1, <3>5 DEF TypeOK
      <4>. QED
        BY <4>1, <4>2, <3>2, <2>4
    <3>. QED
      BY <3>3, <3>4, <3>5
  <2>6. NoLostAnswer'
    BY <2>3, <2>5 DEF NoLostAnswer
  <2>. QED
    BY <1>0, <2>2, <2>6
<1>. QED
  BY <1>1, <1>2, <1>4, <1>5, <1>6 DEF NextKv

(***************************************************************************)
(* A handler that waits has a listener or its answer: neither pruning nor  *)
(* execution nor another request takes it away.                            *)
(***************************************************************************)
THEOREM NobodyWaitsInVain == KvSpec => []NoLostAnswer
<1>1. KvSpec => []KvInv
  BY KvInit, KvStep, PTL DEF KvSpec
<1>2. KvInv => NoLostAnswer
  BY DEF KvInv
<1>. QED
  BY <1>1, <1>2, PTL
-----------------------------------------------------------------------------
(***************************************************************************)
(* A non-empty bounded set of numbers has a greatest element.              *)
(***************************************************************************)
LEMMA LastSlot ==
  ASSUME NEW S, NEW k \in Nat, S \subseteq 1..k, S # {}
  PROVE  \E i \in S : \A j \in S : j <= i
<1>. DEFINE T == {k - i : i \in S}
<1>0. \A i \in S : i \in Int /\ k - i \in Nat
  OBVIOUS
<1>1. T \in SUBSET Nat /\ T # {}
  BY <1>0
<1>2. PICK t \in T : \A u \in T : ~(<<u, t>> \in OpToRel(<, Nat))
  BY <1>1, NatLessThanWellFounded, WFMin
<1>3. PICK i \in S : t = k - i
  OBVIOUS
<1>4. \A j \in S : ~(k - j < k - i)
  BY <1>1, <1>2, <1>3 DEF OpToRel
<1>5. \A j \in S : j <= i
  BY <1>0, <1>4
<1>. QED
  BY <1>5

(***************************************************************************)
(* LastSet and Found as operators of a log.                                *)
(***************************************************************************)
Sets(l, k) == {i \in 1..k : l[i] \notin Gets}

Greatest(S) == CHOOSE i \in S : \A j \in S : j <= i

LastIn(l, k) == IF Sets(l, k) = {} THEN Nothing ELSE l[Greatest(Sets(l, k))]

In(l) == {l[i] : i \in DOMAIN l}

Position(l, r) == CHOOSE i \in DOMAIN l : l[i] = r

FoundIn(l, r) == IF r \notin In(l) \cap Gets THEN Nothing ELSE LastIn(l, Position(l, r) - 1)

Distinct(l) == \A i, j \in DOMAIN l : l[i] = l[j] => i = j

LEMMA LogOperators ==
  /\ InLog = In(Log)
  /\ \A k : LastSet(k) = LastIn(Log, k)
  /\ \A r : Found(r) = FoundIn(Log, r)
BY DEF InLog, In, LastSet, LastIn, Greatest, Sets, Found, FoundIn, Position

\* One more slot.
LEMMA NextSet ==
  ASSUME NEW l \in Seq(Request), NEW k \in Nat, k < Len(l)
  PROVE  LastIn(l, k + 1) = IF l[k + 1] \in Gets THEN LastIn(l, k) ELSE l[k + 1]
<1>1. 1..(k + 1) = 1..k \cup {k + 1}
  OBVIOUS
<1>2. CASE l[k + 1] \in Gets
  <2>1. Sets(l, k + 1) = Sets(l, k)
    BY <1>1, <1>2 DEF Sets
  <2>2. LastIn(l, k + 1) = LastIn(l, k)
    BY <2>1 DEF LastIn
  <2>. QED
    BY <1>2, <2>2
<1>3. CASE l[k + 1] \notin Gets
  <2>1. k + 1 \in Sets(l, k + 1) /\ \A j \in Sets(l, k + 1) : j \in Int /\ j <= k + 1
    BY <1>3 DEF Sets
  <2>2. Greatest(Sets(l, k + 1)) = k + 1
    <3>1. \A i \in Sets(l, k + 1) : (\A j \in Sets(l, k + 1) : j <= i) => i = k + 1
      BY <2>1
    <3>. QED
      BY <2>1, <3>1 DEF Greatest
  <2>. QED
    BY <1>3, <2>1, <2>2 DEF LastIn
<1>. QED
  BY <1>2, <1>3

\* Only the slots up to k count.
LEMMA SamePrefix ==
  ASSUME NEW k \in Nat, NEW l, NEW m, \A i \in 1..k : m[i] = l[i]
  PROVE  LastIn(m, k) = LastIn(l, k)
<1>1. Sets(m, k) = Sets(l, k)
  BY DEF Sets
<1>2. CASE Sets(l, k) # {}
  <2>. DEFINE c == Greatest(Sets(l, k))
  <2>1. Sets(l, k) \subseteq 1..k
    BY DEF Sets
  <2>2. c \in 1..k
    BY <1>2, <2>1, LastSlot DEF Greatest
  <2>. QED
    BY <1>1, <1>2, <2>2 DEF LastIn
<1>. QED
  BY <1>1, <1>2 DEF LastIn

LEMMA OldSlots ==
  ASSUME NEW l \in Seq(Request), NEW r \in Request, NEW k \in 0..Len(l)
  PROVE  LastIn(Append(l, r), k) = LastIn(l, k)
<1>1. k \in Nat /\ \A i \in 1..k : Append(l, r)[i] = l[i]
  OBVIOUS
<1>. QED
  BY <1>1, SamePrefix

LEMMA PositionIn ==
  ASSUME NEW l \in Seq(Request), Distinct(l), NEW i \in DOMAIN l
  PROVE  Position(l, l[i]) = i
BY DEF Position, Distinct

LEMMA Appended ==
  ASSUME NEW l \in Seq(Request), Distinct(l), NEW r \in Request, r \notin In(l)
  PROVE  LET m == Append(l, r)
         IN  /\ Distinct(m) /\ In(m) = In(l) \cup {r}
             /\ \A q \in Request \ {r} : FoundIn(m, q) = FoundIn(l, q)
             /\ FoundIn(m, r) = IF r \in Gets THEN LastIn(l, Len(l)) ELSE Nothing
             /\ LastIn(m, Len(m)) = IF r \in Gets THEN LastIn(l, Len(l)) ELSE r
<1>. DEFINE m == Append(l, r)
<1>1. /\ m \in Seq(Request) /\ Len(m) = Len(l) + 1
      /\ DOMAIN m = DOMAIN l \cup {Len(l) + 1}
      /\ m[Len(l) + 1] = r /\ \A i \in DOMAIN l : m[i] = l[i]
      /\ DOMAIN l = 1..Len(l) /\ Len(l) \in Nat
  OBVIOUS
<1>. HIDE DEF m
<1>2. In(m) = In(l) \cup {r}
  BY <1>1 DEF In
<1>3. Distinct(m)
  BY <1>1 DEF Distinct, In
<1>4. ASSUME NEW q \in In(l)
      PROVE  FoundIn(m, q) = FoundIn(l, q)
  <2>1. PICK i \in DOMAIN l : q = l[i]
    BY DEF In
  <2>2. Position(l, q) = i /\ Position(m, q) = i
    BY <1>1, <1>3, <2>1, PositionIn
  <2>3. LastIn(m, i - 1) = LastIn(l, i - 1)
    BY <1>1, OldSlots DEF m
  <2>. QED
    BY <1>2, <2>2, <2>3 DEF FoundIn
<1>5. \A q \in Request \ {r} : q \notin In(l) => FoundIn(m, q) = FoundIn(l, q)
  BY <1>2 DEF FoundIn
<1>6. FoundIn(m, r) = IF r \in Gets THEN LastIn(l, Len(l)) ELSE Nothing
  <2>1. Position(m, r) = Len(l) + 1
    BY <1>1, <1>3, PositionIn
  <2>2. LastIn(m, Len(l)) = LastIn(l, Len(l))
    BY <1>1, OldSlots DEF m
  <2>. QED
    BY <1>1, <1>2, <2>1, <2>2 DEF FoundIn
<1>7. LastIn(m, Len(m)) = IF r \in Gets THEN LastIn(l, Len(l)) ELSE r
  <2>1. LastIn(m, Len(l)) = LastIn(l, Len(l))
    BY <1>1, OldSlots DEF m
  <2>. QED
    BY <1>1, <2>1, NextSet
<1>. QED
  BY <1>2, <1>3, <1>4, <1>5, <1>6, <1>7 DEF m
-----------------------------------------------------------------------------
(***************************************************************************)
(* What a replica has stored, and what it has answered, is what the        *)
(* commands it has executed up to that position determine.  This holds in  *)
(* whatever order the replicas execute.                                    *)
(***************************************************************************)
StoresFollow ==
  \A n \in Replica : values[n] = LastIn(executed[n], Len(executed[n]))

ListensAtHome ==
  \A n \in Replica : \A r \in listeners[n] : home[r] = n /\ phase[r] # "new"

AnswerFits(l, r, a) ==
  /\ a.slot \in DOMAIN l /\ l[a.slot] = r
  /\ a.val = IF r \in Gets THEN LastIn(l, a.slot - 1) ELSE Nothing

AnswersFit ==
  \A r \in Request :
    /\ phase[r] = "answered" => answer[r] # NoAnswer
    /\ answer[r] # NoAnswer =>
         phase[r] # "new" /\ AnswerFits(executed[home[r]], r, answer[r])

SomeIsLongest ==
  \E n \in Replica : \A k \in Replica : Len(executed[k]) <= Len(executed[n])

AtomicInv == KvInv /\ StoresFollow /\ ListensAtHome /\ AnswersFit /\ SomeIsLongest

LEMMA InitAtomic == InitKv => AtomicInv
<1>. SUFFICES ASSUME InitKv PROVE AtomicInv
  OBVIOUS
<1>1. KvInv /\ \A n \in Replica : executed[n] = <<>> /\ Len(executed[n]) = 0
  BY KvInit DEF InitKv
<1>2. StoresFollow
  <2>1. \A l : LastIn(l, 0) = Nothing
    BY DEF LastIn, Sets
  <2>. QED
    BY <1>1, <2>1 DEF InitKv, StoresFollow
<1>3. ListensAtHome /\ AnswersFit
  BY DEF InitKv, ListensAtHome, AnswersFit
<1>4. SomeIsLongest
  BY <1>1, RequestAssumption DEF SomeIsLongest
<1>. QED
  BY <1>1, <1>2, <1>3, <1>4 DEF AtomicInv

\* An answer stays right when more is executed.
LEMMA OldAnswerFits ==
  ASSUME NEW l \in Seq(Request), NEW c \in Request, NEW r, NEW a, AnswerFits(l, r, a)
  PROVE  AnswerFits(Append(l, c), r, a)
<1>1. a.slot \in DOMAIN l /\ l[a.slot] = r
  BY DEF AnswerFits
<1>2. a.slot \in DOMAIN Append(l, c) /\ Append(l, c)[a.slot] = r
  BY <1>1
<1>3. LastIn(Append(l, c), a.slot - 1) = LastIn(l, a.slot - 1)
  <2>1. a.slot - 1 \in 0..Len(l)
    BY <1>1
  <2>. QED
    BY <2>1, OldSlots
<1>. QED
  BY <1>2, <1>3 DEF AnswerFits

LEMMA NewAnswerFits ==
  ASSUME NEW l \in Seq(Request), NEW r \in Request, NEW v,
         v = IF r \in Gets THEN LastIn(l, Len(l)) ELSE Nothing
  PROVE  AnswerFits(Append(l, r), r, [slot |-> Len(l) + 1, val |-> v])
<1>1. /\ Len(l) + 1 \in DOMAIN Append(l, r) /\ Append(l, r)[Len(l) + 1] = r
      /\ Len(l) \in 0..Len(l) /\ (Len(l) + 1) - 1 = Len(l)
  OBVIOUS
<1>2. LastIn(Append(l, r), Len(l)) = LastIn(l, Len(l))
  BY <1>1, OldSlots
<1>. QED
  BY <1>1, <1>2 DEF AnswerFits

LEMMA NextAtomic == AtomicInv /\ [NextKv]_kvVars => AtomicInv'
<1>. SUFFICES ASSUME AtomicInv, [NextKv]_kvVars PROVE AtomicInv'
  OBVIOUS
<1>0. KvInv /\ KvInv' /\ TypeOK /\ TypeOK' /\ ExecutedWasSubmitted
  BY KvStep DEF AtomicInv, KvInv
<1>. USE DEF AtomicInv
<1>1. CASE UNCHANGED kvVars
  BY <1>0, <1>1 DEF kvVars, StoresFollow, ListensAtHome, AnswersFit, SomeIsLongest
<1>2. ASSUME NEW n \in Replica, NEW r \in Request, Execute(n, r) PROVE AtomicInv'
  <2>. DEFINE l == executed[n]
              v == IF r \in Gets THEN values[n] ELSE Nothing
              a == [slot |-> Len(l) + 1, val |-> v]
  <2>1. /\ UNCHANGED <<phase, home>> /\ l \in Seq(Request)
        /\ values' = [values EXCEPT ![n] = IF r \in Gets THEN values[n] ELSE r]
        /\ listeners' = [listeners EXCEPT ![n] = @ \ {r}]
        /\ IF r \in listeners[n] /\ phase[r] # "gone"
             THEN answer' = [answer EXCEPT ![r] = a] ELSE answer' = answer
        /\ r \in proposed
    BY <1>0, <1>2 DEF Execute, StoredBy, Reply, Answers, TypeOK
  <2>2. /\ executed'[n] = Append(l, r) /\ \A k \in Replica \ {n} : executed'[k] = executed[k]
        /\ Len(l) \in Nat /\ Len(executed'[n]) = Len(l) + 1
    BY <1>0, <1>2, ExecutedStep
  <2>3. values[n] = LastIn(l, Len(l))
    BY DEF StoresFollow
  <2>. HIDE DEF l, a, v
  <2>4. LastIn(Append(l, r), Len(l) + 1) = IF r \in Gets THEN values[n] ELSE r
    <3>1. /\ Append(l, r) \in Seq(Request) /\ Len(l) < Len(Append(l, r))
          /\ Append(l, r)[Len(l) + 1] = r /\ Len(l) \in 0..Len(l)
      BY <2>1, <2>2
    <3>2. LastIn(Append(l, r), Len(l)) = LastIn(l, Len(l))
      BY <2>1, <3>1, OldSlots
    <3>. QED
      BY <2>2, <2>3, <3>1, <3>2, NextSet
  <2>5. StoresFollow'
    <3>1. values'[n] = LastIn(executed'[n], Len(executed'[n]))
      BY <1>0, <2>1, <2>2, <2>4 DEF TypeOK
    <3>2. \A k \in Replica \ {n} : values'[k] = LastIn(executed'[k], Len(executed'[k]))
      BY <1>0, <2>1, <2>2 DEF StoresFollow, TypeOK
    <3>. QED
      BY <3>1, <3>2 DEF StoresFollow
  <2>6. ListensAtHome'
    BY <1>0, <2>1 DEF ListensAtHome, TypeOK
  <2>7. AnswersFit'
    <3>1. ASSUME NEW q \in Request, answer'[q] # NoAnswer
          PROVE  phase[q] # "new" /\ AnswerFits(executed'[home[q]], q, answer'[q])
      <4>1. CASE answer'[q] = answer[q]
        <5>1. phase[q] # "new" /\ AnswerFits(executed[home[q]], q, answer[q])
          BY <3>1, <4>1 DEF AnswersFit
        <5>2. home[q] \in Replica
          BY <1>0, <5>1 DEF ExecutedWasSubmitted
        <5>3. CASE home[q] = n
          <6>1. AnswerFits(l, q, answer[q])
            BY <5>1, <5>3 DEF l
          <6>2. AnswerFits(Append(l, r), q, answer[q])
            BY <2>1, <6>1, OldAnswerFits
          <6>. QED
            BY <2>2, <4>1, <5>1, <5>3, <6>2
        <5>. QED
          BY <2>2, <4>1, <5>1, <5>2, <5>3
      <4>2. CASE answer'[q] # answer[q]
        <5>1. q = r /\ r \in listeners[n] /\ answer'[q] = a
          BY <1>0, <2>1, <4>2 DEF TypeOK
        <5>2. home[r] = n /\ phase[r] # "new"
          BY <5>1 DEF ListensAtHome
        <5>3. v = IF r \in Gets THEN LastIn(l, Len(l)) ELSE Nothing
          BY <2>3 DEF v
        <5>4. AnswerFits(Append(l, r), r, a)
          BY <2>1, <5>3, NewAnswerFits DEF a
        <5>. QED
          BY <2>2, <5>1, <5>2, <5>4
      <4>. QED
        BY <4>1, <4>2
    <3>2. ASSUME NEW q \in Request, phase[q] = "answered" PROVE answer'[q] # NoAnswer
      <4>1. answer[q] # NoAnswer
        BY <3>2 DEF AnswersFit
      <4>2. a # NoAnswer
        <5>1. a.slot # NoAnswer.slot
          BY <2>2 DEF a, NoAnswer
        <5>. QED
          BY <5>1
      <4>. QED
        BY <1>0, <2>1, <4>1, <4>2 DEF TypeOK
    <3>. QED
      BY <2>1, <3>1, <3>2 DEF AnswersFit
  <2>8. SomeIsLongest'
    <3>1. PICK m \in Replica : \A k \in Replica : Len(executed[k]) <= Len(executed[m])
      BY DEF SomeIsLongest
    <3>2. \A k \in Replica : Len(executed[k]) \in Nat
      BY <1>0 DEF TypeOK
    <3>3. CASE Len(l) < Len(executed[m])
      <4>1. m # n
        BY <3>2, <3>3 DEF l
      <4>2. \A k \in Replica : Len(executed'[k]) <= Len(executed'[m])
        BY <2>2, <3>1, <3>2, <3>3, <4>1
      <4>. QED
        BY <4>2 DEF SomeIsLongest
    <3>4. CASE ~(Len(l) < Len(executed[m]))
      <4>1. \A k \in Replica : Len(executed'[k]) <= Len(executed'[n])
        BY <2>2, <3>1, <3>2, <3>4
      <4>. QED
        BY <4>1 DEF SomeIsLongest
    <3>. QED
      BY <3>3, <3>4
  <2>. QED
    BY <1>0, <2>5, <2>6, <2>7, <2>8
<1>3. ASSUME NEW r \in Request, Submit(r) \/ Respond(r) \/ HangUp(r) PROVE AtomicInv'
  <2>1. /\ UNCHANGED <<home, listeners, executed, values, answer>>
        /\ phase'[r] # "new" /\ \A q \in Request \ {r} : phase'[q] = phase[q]
        /\ phase'[r] = "answered" => answer[r] # NoAnswer
    BY <1>0, <1>3 DEF Submit, Respond, HangUp, Enter, TypeOK
  <2>2. \A q \in Request : phase[q] # "new" => phase'[q] # "new"
    BY <2>1
  <2>3. StoresFollow' /\ SomeIsLongest'
    BY <2>1 DEF StoresFollow, SomeIsLongest
  <2>4. ListensAtHome'
    BY <1>0, <2>1, <2>2 DEF ListensAtHome, TypeOK
  <2>5. AnswersFit'
    BY <2>1, <2>2 DEF AnswersFit
  <2>. QED
    BY <1>0, <2>3, <2>4, <2>5
<1>4. ASSUME NEW n \in Replica, NEW r \in Request, Register(n, r) PROVE AtomicInv'
  <2>1. /\ UNCHANGED <<executed, values, answer>>
        /\ phase[r] = "new" /\ phase'[r] = "registered" /\ home'[r] = n
        /\ \A q \in Request \ {r} : phase'[q] = phase[q] /\ home'[q] = home[q]
        /\ listeners' = [listeners EXCEPT ![n] = @ \cup {r}]
    BY <1>0, <1>4 DEF Register, Enter, TypeOK
  <2>2. StoresFollow' /\ SomeIsLongest'
    BY <2>1 DEF StoresFollow, SomeIsLongest
  <2>3. ListensAtHome'
    <3>1. \A k \in Replica : r \notin listeners[k]
      BY <2>1 DEF ListensAtHome
    <3>. QED
      BY <1>0, <2>1, <3>1 DEF ListensAtHome, TypeOK
  <2>4. AnswersFit'
    <3>1. answer[r] = NoAnswer
      BY <2>1 DEF AnswersFit
    <3>. QED
      BY <2>1, <3>1 DEF AnswersFit
  <2>. QED
    BY <1>0, <2>2, <2>3, <2>4
<1>5. ASSUME NEW n \in Replica, Prune(n) PROVE AtomicInv'
  <2>1. /\ UNCHANGED <<phase, home, executed, values, answer>>
        /\ \A k \in Replica : listeners'[k] \subseteq listeners[k]
    BY <1>0, <1>5 DEF Prune, TypeOK
  <2>. QED
    BY <1>0, <2>1 DEF StoresFollow, ListensAtHome, AnswersFit, SomeIsLongest
<1>. QED
  BY <1>1, <1>2, <1>3, <1>4, <1>5 DEF NextKv
-----------------------------------------------------------------------------
(***************************************************************************)
(* While the replicas execute in one order, Log is what all of them have   *)
(* executed of it, and one order now was one order before.                 *)
(***************************************************************************)
IsLog(l) ==
  /\ l \in Seq(Request) /\ Distinct(l) /\ \E m \in Replica : l = executed[m]
  /\ \A k \in Replica :
       Len(executed[k]) <= Len(l) /\ \A i \in DOMAIN executed[k] : l[i] = executed[k][i]

LEMMA LogOfAll == AtomicInv /\ OneOrder => IsLog(Log)
<1>. SUFFICES ASSUME AtomicInv, OneOrder PROVE IsLog(Log)
  OBVIOUS
<1>1. PICK m \in Replica : /\ Log = executed[m]
                           /\ \A k \in Replica : Len(executed[k]) <= Len(executed[m])
  BY DEF AtomicInv, SomeIsLongest, Log
<1>2. \A k \in Replica : executed[k] \in Seq(Request)
  BY DEF AtomicInv, KvInv, TypeOK
<1>3. Distinct(Log)
  BY <1>1 DEF Distinct, OneOrder
<1>4. ASSUME NEW k \in Replica, NEW i \in DOMAIN executed[k]
      PROVE  Log[i] = executed[k][i]
  <2>1. i \in DOMAIN executed[m]
    BY <1>1, <1>2
  <2>. QED
    BY <1>1, <2>1 DEF OneOrder
<1>. QED
  BY <1>1, <1>2, <1>3, <1>4 DEF IsLog

LEMMA LogOfAllNext == AtomicInv' /\ OneOrder' => IsLog(Log)'
BY LogOfAll, PTL

LEMMA OrderBefore == AtomicInv /\ [NextKv]_kvVars /\ OneOrder' => OneOrder
<1>. SUFFICES ASSUME AtomicInv, [NextKv]_kvVars, OneOrder' PROVE OneOrder
  OBVIOUS
<1>1. \A n \in Replica : \A i \in DOMAIN executed[n] :
        i \in DOMAIN executed'[n] /\ executed'[n][i] = executed[n][i]
  <2>1. CASE executed' = executed
    BY <2>1
  <2>2. ASSUME NEW n \in Replica, NEW r \in Request, Execute(n, r)
        PROVE  \A k \in Replica : \A i \in DOMAIN executed[k] :
                 i \in DOMAIN executed'[k] /\ executed'[k][i] = executed[k][i]
    BY <2>2, ExecutedStep DEF AtomicInv, KvInv
  <2>3. executed' = executed \/ \E n \in Replica, r \in Request : Execute(n, r)
    BY DEF NextKv, kvVars, Submit, Respond, HangUp, Register, Prune
  <2>. QED
    BY <2>1, <2>2, <2>3
<1>. QED
  BY <1>1 DEF OneOrder

(***************************************************************************)
(* How Log moves: the replica that has executed most appends to it, and    *)
(* another one only catches up.                                            *)
(***************************************************************************)
LEMMA LogStep ==
  ASSUME AtomicInv, AtomicInv', OneOrder, OneOrder',
         NEW n \in Replica, NEW r \in Request, Execute(n, r)
  PROVE  Log' = Log \/ (Log' = Append(Log, r) /\ r \notin In(Log))
<1>1. IsLog(Log) /\ IsLog(Log)'
  BY LogOfAll, LogOfAllNext
<1>. DEFINE l == executed[n]
            k == Log
            j == Log'
<1>2. /\ executed'[n] = Append(l, r) /\ \A q \in Replica \ {n} : executed'[q] = executed[q]
      /\ l \in Seq(Request) /\ Len(l) \in Nat
  BY ExecutedStep DEF AtomicInv, KvInv, TypeOK
<1>3. /\ k \in Seq(Request) /\ Distinct(k) /\ \E m \in Replica : k = executed[m]
      /\ \A q \in Replica :
           Len(executed[q]) <= Len(k) /\ \A i \in DOMAIN executed[q] : k[i] = executed[q][i]
  BY <1>1 DEF IsLog
<1>4. /\ j \in Seq(Request) /\ Distinct(j) /\ \E m \in Replica : j = executed'[m]
      /\ \A q \in Replica :
           Len(executed'[q]) <= Len(j) /\ \A i \in DOMAIN executed'[q] : j[i] = executed'[q][i]
  BY <1>1 DEF IsLog
<1>. HIDE DEF k, j
<1>5. Append(l, r) \in Seq(Request) /\ Len(Append(l, r)) = Len(l) + 1 /\ Append(l, r)[Len(l) + 1] = r
  BY <1>2
<1>6. CASE Len(l) = Len(k)
  <2>1. l = k
    BY <1>2, <1>3, <1>6 DEF l
  <2>2. Len(j) = Len(k) + 1
    <3>1. PICK m \in Replica : j = executed'[m]
      BY <1>4
    <3>2. Len(executed'[m]) <= Len(k) + 1
      BY <1>2, <1>3, <1>5, <1>6
    <3>3. Len(executed'[n]) <= Len(j)
      BY <1>4
    <3>. QED
      BY <1>2, <1>3, <1>4, <1>5, <1>6, <3>1, <3>2, <3>3
  <2>3. \A i \in DOMAIN Append(l, r) : j[i] = Append(l, r)[i]
    BY <1>2, <1>4
  <2>4. j = Append(k, r)
    BY <1>3, <1>4, <1>5, <2>1, <2>2, <2>3
  <2>5. r \notin In(k)
    <3>. SUFFICES ASSUME NEW i \in DOMAIN k, k[i] = r PROVE FALSE
      BY DEF In
    <3>1. i \in DOMAIN j /\ j[i] = r /\ Len(k) + 1 \in DOMAIN j /\ j[Len(k) + 1] = r
      BY <1>3, <2>4
    <3>2. i = Len(k) + 1
      BY <1>4, <3>1 DEF Distinct
    <3>. QED
      BY <1>3, <3>2
  <2>. QED
    BY <2>4, <2>5 DEF j, k
<1>7. CASE Len(l) # Len(k)
  <2>1. Len(l) < Len(k)
    BY <1>2, <1>3, <1>7 DEF l
  <2>2. PICK m \in Replica : k = executed[m]
    BY <1>3
  <2>3. executed'[m] = k
    BY <1>2, <2>1, <2>2 DEF l
  <2>4. Len(j) = Len(k)
    <3>1. PICK q \in Replica : j = executed'[q]
      BY <1>4
    <3>2. Len(executed'[q]) <= Len(k)
      BY <1>2, <1>3, <1>5, <2>1
    <3>3. Len(executed'[m]) <= Len(j)
      BY <1>4
    <3>. QED
      BY <1>3, <1>4, <2>3, <3>1, <3>2, <3>3
  <2>5. \A i \in DOMAIN k : j[i] = k[i]
    BY <1>4, <2>3
  <2>6. j = k
    BY <1>3, <1>4, <2>4, <2>5
  <2>. QED
    BY <2>6 DEF j, k
<1>. QED
  BY <1>6, <1>7

(***************************************************************************)
(* The refinement mapping, and how it moves with a step.                   *)
(***************************************************************************)
StatusAfter(p, done) ==
  CASE p = "new" -> "idle"
    [] p = "answered" -> "returned"
    [] OTHER -> IF done THEN "done" ELSE "called"

Statuses == [r \in Request |-> Status(r)]

Stored == LastSet(Len(Log))

Results ==
  [r \in Request |-> IF phase[r] = "answered" THEN answer[r].val ELSE Found(r)]

Mapped ==
  /\ Statuses = [r \in Request |-> StatusAfter(phase[r], r \in In(Log))]
  /\ Stored = LastIn(Log, Len(Log))
  /\ Results = [r \in Request |-> FoundIn(Log, r)]

\* An answer of any replica is what the log determines.
LEMMA AnswersAreFound ==
  ASSUME AtomicInv, OneOrder, NEW r \in Request, answer[r] # NoAnswer
  PROVE  r \in In(Log) /\ answer[r].val = FoundIn(Log, r)
<1>. DEFINE l == executed[home[r]]
            s == answer[r].slot
            k == Log
<1>1. phase[r] # "new" /\ AnswerFits(l, r, answer[r])
  BY DEF AtomicInv, AnswersFit
<1>2. home[r] \in Replica
  BY <1>1 DEF AtomicInv, KvInv, ExecutedWasSubmitted
<1>3. /\ k \in Seq(Request) /\ Distinct(k) /\ Len(l) <= Len(k)
      /\ \A i \in DOMAIN l : k[i] = l[i]
  BY <1>2, LogOfAll DEF IsLog
<1>4. l \in Seq(Request)
  BY <1>2 DEF AtomicInv, KvInv, TypeOK
<1>5. /\ s \in DOMAIN l /\ l[s] = r
      /\ answer[r].val = IF r \in Gets THEN LastIn(l, s - 1) ELSE Nothing
  BY <1>1 DEF AnswerFits
<1>. HIDE DEF l, k, s
<1>6. s \in DOMAIN k /\ k[s] = r /\ s - 1 \in Nat /\ \A i \in 1..(s - 1) : k[i] = l[i]
  BY <1>3, <1>4, <1>5
<1>7. Position(k, r) = s
  BY <1>3, <1>6, PositionIn
<1>8. LastIn(k, s - 1) = LastIn(l, s - 1)
  BY <1>6, SamePrefix
<1>9. r \in In(k)
  BY <1>6 DEF In
<1>10. answer[r].val = FoundIn(k, r)
  BY <1>5, <1>7, <1>8, <1>9 DEF FoundIn
<1>. QED
  BY <1>9, <1>10 DEF k

LEMMA Mapping == AtomicInv /\ OneOrder => Mapped
<1>. SUFFICES ASSUME AtomicInv, OneOrder PROVE Mapped
  OBVIOUS
<1>1. Statuses = [r \in Request |-> StatusAfter(phase[r], r \in In(Log))]
  BY LogOperators DEF Statuses, Status, StatusAfter
<1>2. \A r \in Request : phase[r] = "answered" => answer[r].val = FoundIn(Log, r)
  BY AnswersAreFound DEF AtomicInv, AnswersFit
<1>. QED
  BY <1>1, <1>2, LogOperators DEF Mapped, Results, Stored

LEMMA MappingNext == AtomicInv' /\ OneOrder' => Mapped'
BY Mapping, PTL

LEMMA StepImplements ==
  ASSUME AtomicInv, AtomicInv', OneOrder', [NextKv]_kvVars
  PROVE  [Store!NextStore]_(Store!storeVars)
<1>. SUFFICES \/ \E r \in Request : Store!Call(r) \/ Store!TakeEffect(r) \/ Store!Return(r)
              \/ UNCHANGED <<Statuses, Stored, Results>>
  BY DEF Store!NextStore, Store!storeVars, Statuses, Stored, Results
<1>0. OneOrder
  BY OrderBefore
<1>1. Mapped /\ Mapped' /\ TypeOK /\ TypeOK'
  BY <1>0, Mapping, MappingNext DEF AtomicInv, KvInv
<1>2. ASSUME NEW r \in Request
      PROVE  /\ /\ Statuses[r] = "idle" /\ Statuses' = [Statuses EXCEPT ![r] = "called"]
                /\ UNCHANGED <<Stored, Results>>
                => Store!Call(r)
             /\ /\ Statuses[r] = "done" /\ Statuses' = [Statuses EXCEPT ![r] = "returned"]
                /\ UNCHANGED <<Stored, Results>>
                => Store!Return(r)
  BY DEF Store!Call, Store!Return, Store!Moves, Statuses, Stored, Results
<1>3. ASSUME NEW r \in Request,
              Statuses[r] = "called", Statuses' = [Statuses EXCEPT ![r] = "done"],
              r \in Gets => Results' = [Results EXCEPT ![r] = Stored] /\ Stored' = Stored,
              r \notin Gets => Stored' = r /\ Results' = Results
       PROVE  Store!TakeEffect(r)
  <2>1. CASE r \in Gets
    <3>1. Results' = [Results EXCEPT ![r] = Stored] /\ Stored' = Stored
      BY <1>3, <2>1
    <3>. QED
      BY <1>3, <2>1, <3>1 DEF Store!TakeEffect, Store!Moves, Statuses, Stored, Results
  <2>2. CASE r \notin Gets
    <3>1. Stored' = r /\ Results' = Results
      BY <1>3, <2>2
    <3>. QED
      BY <1>3, <2>2, <3>1 DEF Store!TakeEffect, Store!Moves, Statuses, Stored, Results
  <2>. QED
    BY <2>1, <2>2
<1>4. ASSUME Log' = Log
      PROVE  /\ UNCHANGED <<Stored, Results>>
             /\ \A r \in Request : (\A q \in Request \ {r} : phase'[q] = phase[q]) =>
                  Statuses' = [Statuses EXCEPT
                                 ![r] = StatusAfter(phase'[r], r \in In(Log))]
             /\ (\A q \in Request :
                   StatusAfter(phase'[q], q \in In(Log)) = StatusAfter(phase[q], q \in In(Log)))
                  => UNCHANGED Statuses
  BY <1>1, <1>4 DEF Mapped
<1>5. \A r \in In(Log) : r \in Request /\ r \in proposed /\ phase[r] # "new"
  <2>1. PICK m \in Replica : Log = executed[m]
    BY <1>0, LogOfAll DEF IsLog
  <2>. QED
    BY <1>1, <2>1 DEF AtomicInv, KvInv, TypeOK, ExecutedWasSubmitted, In
<1>6. \A r \in Request : phase[r] = "answered" \/ answer[r] # NoAnswer => r \in In(Log)
  BY <1>0, AnswersAreFound DEF AtomicInv, AnswersFit
<1>7. ASSUME NEW r \in Request, r \in proposed, phase' = phase,
             Log' = Append(Log, r), r \notin In(Log)
      PROVE  Store!TakeEffect(r)
  <2>0. Log \in Seq(Request) /\ Distinct(Log)
    BY <1>0, LogOfAll DEF IsLog
  <2>1. phase[r] # "new" /\ phase[r] # "answered"
    BY <1>6, <1>7 DEF AtomicInv, KvInv, ExecutedWasSubmitted
  <2>2. Statuses[r] = "called"
    BY <1>1, <1>7, <2>1 DEF Mapped, StatusAfter
  <2>3. /\ In(Log') = In(Log) \cup {r}
        /\ \A q \in Request \ {r} : FoundIn(Log', q) = FoundIn(Log, q)
        /\ FoundIn(Log', r) = IF r \in Gets THEN LastIn(Log, Len(Log)) ELSE Nothing
        /\ LastIn(Log', Len(Log')) = IF r \in Gets THEN LastIn(Log, Len(Log)) ELSE r
    BY <1>7, <2>0, Appended
  <2>4. Statuses' = [Statuses EXCEPT ![r] = "done"]
    <3>2. StatusAfter(phase[r], r \in In(Log')) = "done"
      BY <2>1, <2>3 DEF StatusAfter
    <3>3. \A q \in Request \ {r} : (q \in In(Log')) = (q \in In(Log))
      BY <2>3
    <3>. QED
      BY <1>1, <1>7, <3>2, <3>3 DEF Mapped
  <2>5. FoundIn(Log, r) = Nothing
    BY <1>7 DEF FoundIn
  <2>6. /\ r \in Gets => Results' = [Results EXCEPT ![r] = Stored] /\ Stored' = Stored
        /\ r \notin Gets => Stored' = r /\ Results' = Results
    BY <1>1, <2>3, <2>5 DEF Mapped
  <2>. QED
    BY <1>3, <2>2, <2>4, <2>6
<1>8. ASSUME NEW n \in Replica, NEW r \in Request, Register(n, r) PROVE Store!Call(r)
  <2>1. /\ Log' = Log /\ phase[r] = "new" /\ phase'[r] = "registered"
        /\ \A q \in Request \ {r} : phase'[q] = phase[q]
    BY <1>1, <1>8 DEF Register, Enter, TypeOK, Log
  <2>2. Statuses[r] = "idle"
    BY <1>1, <2>1 DEF Mapped, StatusAfter
  <2>3. StatusAfter(phase'[r], r \in In(Log)) = "called"
    BY <1>5, <2>1 DEF StatusAfter
  <2>. QED
    BY <1>2, <1>4, <2>1, <2>2, <2>3
<1>9. ASSUME NEW r \in Request, Respond(r) PROVE Store!Return(r)
  <2>1. /\ Log' = Log /\ phase[r] = "waiting" /\ phase'[r] = "answered"
        /\ answer[r] # NoAnswer
        /\ \A q \in Request \ {r} : phase'[q] = phase[q]
    BY <1>1, <1>9 DEF Respond, Enter, TypeOK, Log
  <2>2. Statuses[r] = "done"
    BY <1>1, <1>6, <2>1 DEF Mapped, StatusAfter
  <2>3. StatusAfter(phase'[r], r \in In(Log)) = "returned"
    BY <2>1 DEF StatusAfter
  <2>. QED
    BY <1>2, <1>4, <2>1, <2>2, <2>3
<1>10. ASSUME NEW r \in Request, Submit(r) \/ HangUp(r)
      PROVE  UNCHANGED <<Statuses, Stored, Results>>
  <2>1. /\ Log' = Log
        /\ phase[r] \in {"registered", "waiting"} /\ phase'[r] \in {"waiting", "gone"}
        /\ \A q \in Request \ {r} : phase'[q] = phase[q]
    BY <1>1, <1>10 DEF Submit, HangUp, Enter, TypeOK, Log
  <2>2. \A q \in Request :
          StatusAfter(phase'[q], q \in In(Log)) = StatusAfter(phase[q], q \in In(Log))
    BY <2>1 DEF StatusAfter
  <2>. QED
    BY <1>4, <2>1, <2>2
<1>11. CASE phase' = phase /\ Log' = Log
  BY <1>4, <1>11
<1>12. ASSUME NEW n \in Replica, Prune(n) PROVE phase' = phase /\ Log' = Log
  BY <1>12 DEF Prune, Log
<1>13. ASSUME NEW n \in Replica, NEW r \in Request, Execute(n, r)
       PROVE  Store!TakeEffect(r) \/ (phase' = phase /\ Log' = Log)
  <2>1. r \in proposed /\ phase' = phase
    BY <1>13 DEF Execute
  <2>. QED
    BY <1>0, <1>7, <1>13, <2>1, LogStep
<1>14. CASE UNCHANGED kvVars
  BY <1>11, <1>14 DEF kvVars, Log
<1>. QED
  BY <1>8, <1>9, <1>10, <1>11, <1>12, <1>13, <1>14 DEF NextKv

(***************************************************************************)
(* As long as the replicas execute the same commands in the same order,    *)
(* each once, they are one atomic store for their clients: every request   *)
(* takes effect once, between its call and its return, and a Get returns   *)
(* the last Set that took effect before it, for every number of replicas   *)
(* and requests, and however late each replica executes.                   *)
(***************************************************************************)
THEOREM ServiceIsAtomic == KvSpec => StoreIsAtomic
<1>1. KvSpec => []AtomicInv
  BY InitAtomic, NextAtomic, PTL DEF KvSpec
<1>2. InitKv => Store!InitStore
  <2>. SUFFICES ASSUME InitKv PROVE Store!InitStore
    OBVIOUS
  <2>1. (\A r \in Request : phase[r] = "new") /\ Log = <<>> /\ Len(Log) = 0
    <3>1. \A n \in Replica : executed[n] = <<>> /\ Len(executed[n]) = 0
      BY DEF InitKv
    <3>. QED
      BY <3>1, RequestAssumption DEF InitKv, Log
  <2>2. Statuses = [r \in Request |-> "idle"]
    BY <2>1 DEF Statuses, Status
  <2>3. Stored = Nothing
    <3>1. Sets(Log, 0) = {}
      BY DEF Sets
    <3>. QED
      BY <2>1, <3>1, LogOperators DEF Stored, LastIn
  <2>4. Results = [r \in Request |-> Nothing]
    <3>1. In(Log) = {}
      BY <2>1 DEF In
    <3>. QED
      BY <2>1, <3>1, LogOperators DEF Results, FoundIn
  <2>. QED
    BY <2>2, <2>3, <2>4 DEF Store!InitStore, Statuses, Stored, Results
<1>3. AtomicInv /\ AtomicInv' /\ [NextKv]_kvVars
        => (OneOrder' => [Store!NextStore]_(Store!storeVars))
  BY StepImplements
<1>. QED
  BY <1>1, <1>2, <1>3, PTL DEF KvSpec, StoreIsAtomic
=============================================================================
