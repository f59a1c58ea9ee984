---------------------------- MODULE VectorProofs ----------------------------
(***************************************************************************)
(* The vectors of module SlotVectors hold windows, for every number of     *)
(* nodes, slots, rounds and values: what each method of src/window.rs does *)
(* to the window AsWindow(v), and what a loop over the slots does to it.   *)
(*                                                                         *)
(* A loop has a plan: the slots T it opens or visits, the ballots F of the *)
(* visit and the acceptors A it leaves.  Swept(w, T, F, A, k, x) says what *)
(* the window w has become once the slots below k are behind the loop;     *)
(* Follows, that each iteration does its part of the plan.  Then LoopEnds: *)
(* the loop leaves the window that module Handlers states in closed form.  *)
(* The second part does so for each handler, and proves that the vectors   *)
(* implement the calls of module WindowCalls.                              *)
(***************************************************************************)
EXTENDS SlotVectors, WindowProofs, SequenceTheorems

\* The record form of a window, whatever its fields hold.
IsWindow(w) ==
  w = [acc |-> [s \in WindowSlot |-> w.acc[s]], min |-> w.min, end |-> w.end,
       max |-> w.max]

(***************************************************************************)
(* A resolved acceptor keeps nothing but the decision, so draining loses   *)
(* nothing; one without a value is proposed as the no-op.                  *)
(***************************************************************************)
Settled(a) ==
  /\ IsResolved(a) => a = Resolved(a.bal, a.val)
  /\ ~HasValue(a) => a.val = Noop

Decision == [bal : BallotOption, val : Value]

(***************************************************************************)
(* The shape of the vectors.                                               *)
(***************************************************************************)
GoodVector(v) ==
  /\ \E o, d, i, x : v = [open |-> o, min |-> i, max |-> x, decided |-> d]
  /\ v.open \in Seq(Acceptor)
  /\ \A i \in 1..Len(v.open) : Settled(v.open[i])
  /\ v.decided \in Seq(Decision) /\ v.min = Len(v.decided)
  /\ v.max \in BallotOption
  /\ v.min + Len(v.open) <= MaxSlot + 2

LEMMA SameWindow ==
  ASSUME NEW u, NEW w, IsWindow(u), IsWindow(w),
         u.min = w.min, u.end = w.end, u.max = w.max,
         \A s \in WindowSlot : u.acc[s] = w.acc[s]
  PROVE  u = w
<1>1. [s \in WindowSlot |-> u.acc[s]] = [s \in WindowSlot |-> w.acc[s]]
  OBVIOUS
<1>. QED  BY <1>1 DEF IsWindow

\* Put: an acceptor is written, and the reference to it is dropped.
Put(w, s, a) == [w EXCEPT !.acc[s] = a, !.max = Higher(@, a.promised)]

LEMMA MinSet ==
  ASSUME NEW w, IsWindow(w), NEW m
  PROVE  LET o == [w EXCEPT !.min = m]
         IN  IsWindow(o) /\ o.min = m /\ o.end = w.end /\ o.max = w.max /\ o.acc = w.acc
<1>1. PICK f : f = [t \in WindowSlot |-> w.acc[t]]  OBVIOUS
<1>2. w = [acc |-> f, min |-> w.min, end |-> w.end, max |-> w.max]
  BY <1>1 DEF IsWindow
<1>3. PICK i, j, x : w = [acc |-> f, min |-> i, end |-> j, max |-> x]
  BY <1>2
<1>4. PICK o : o = [w EXCEPT !.min = m]
  OBVIOUS
<1>5. o = [acc |-> f, min |-> m, end |-> j, max |-> x]
  BY <1>3, <1>4
<1>6. w.acc = f /\ w.max = x /\ w.end = j
  BY <1>3
<1>7. IsWindow(o)
  BY <1>1, <1>5, <1>6 DEF IsWindow
<1>. QED  BY <1>4, <1>5, <1>6, <1>7

LEMMA PutIs ==
  ASSUME NEW w, IsWindow(w), NEW s \in WindowSlot, NEW a
  PROVE  /\ IsWindow(Put(w, s, a))
         /\ Put(w, s, a).min = w.min /\ Put(w, s, a).end = w.end
         /\ Put(w, s, a).max = Higher(w.max, a.promised)
         /\ \A t \in WindowSlot : Put(w, s, a).acc[t] = IF t = s THEN a ELSE w.acc[t]
<1>1. PICK f : f = [t \in WindowSlot |-> w.acc[t]]  OBVIOUS
<1>2. w = [acc |-> f, min |-> w.min, end |-> w.end, max |-> w.max]
  BY <1>1 DEF IsWindow
<1>3. PICK i, j, x : w = [acc |-> f, min |-> i, end |-> j, max |-> x]
  BY <1>2
<1>. DEFINE g == [f EXCEPT ![s] = a]
             h == Higher(x, a.promised)
<1>4. w.acc = f /\ w.max = x /\ w.min = i /\ w.end = j
  BY <1>3
<1>5. Put(w, s, a) = [w EXCEPT !.acc = g, !.max = h]
  BY <1>4, Zenon DEF Put
<1>6. /\ g = [t \in WindowSlot |-> g[t]]
      /\ \A t \in WindowSlot : g[t] = IF t = s THEN a ELSE w.acc[t]
  BY <1>1, <1>4
<1>7. h = Higher(w.max, a.promised)
  BY <1>4
<1>. HIDE DEF g, h
<1>8. Put(w, s, a) = [acc |-> g, min |-> i, end |-> j, max |-> h]
  BY <1>3, <1>5
<1>. QED  BY <1>4, <1>6, <1>7, <1>8 DEF IsWindow

LEMMA OpenUpToIs ==
  ASSUME NEW w, IsWindow(w), NEW seen, NEW last
  PROVE  LET o == OpenUpTo(w, seen, last)
         IN  /\ IsWindow(o) /\ o.min = w.min /\ o.max = w.max
             /\ (w.end <= last => o.end = last + 1) /\ (~(w.end <= last) => o.end = w.end)
             /\ \A t \in WindowSlot :
                  o.acc[t] = IF w.end <= t /\ t <= last
                               THEN AwaitValue(FreshPromise(w, seen, t))
                               ELSE w.acc[t]
<1>. DEFINE g == [s \in WindowSlot |-> IF w.end <= s /\ s <= last
                                         THEN AwaitValue(FreshPromise(w, seen, s))
                                         ELSE w.acc[s]]
             e == IF w.end <= last THEN last + 1 ELSE w.end
<1>1. OpenUpTo(w, seen, last) = [w EXCEPT !.acc = g, !.end = e]
  BY DEF OpenUpTo
<1>2. PICK f, i, j, x : w = [acc |-> f, min |-> i, end |-> j, max |-> x]
  BY DEF IsWindow
<1>3. \A t \in WindowSlot : g[t] = IF w.end <= t /\ t <= last
                                   THEN AwaitValue(FreshPromise(w, seen, t))
                                   ELSE w.acc[t]
  OBVIOUS
<1>4. g = [s \in WindowSlot |-> g[s]]
  OBVIOUS
<1>. HIDE DEF g, e
<1>5. OpenUpTo(w, seen, last) = [acc |-> g, min |-> i, end |-> e, max |-> x]
  BY <1>1, <1>2
<1>6. w.min = i /\ w.max = x
  BY <1>2
<1>7. e = IF w.end <= last THEN last + 1 ELSE w.end
  BY DEF e
<1>. QED  BY <1>3, <1>4, <1>5, <1>6, <1>7 DEF IsWindow

LEMMA UpdateIs ==
  ASSUME NEW w, IsWindow(w), NEW accs
  PROVE  LET u == Update(w, accs)
         IN  /\ IsWindow(u) /\ u.min = w.min /\ u.end = w.end
             /\ u.max = Highest({w.max} \cup {accs[s].promised : s \in DOMAIN accs})
             /\ \A t \in WindowSlot :
                  u.acc[t] = IF t \in DOMAIN accs THEN accs[t] ELSE w.acc[t]
<1>. DEFINE g == [s \in WindowSlot |-> IF s \in DOMAIN accs THEN accs[s] ELSE w.acc[s]]
             h == Highest({w.max} \cup {accs[s].promised : s \in DOMAIN accs})
<1>1. Update(w, accs) = [w EXCEPT !.acc = g, !.max = h]
  BY DEF Update
<1>2. PICK f, i, j, x : w = [acc |-> f, min |-> i, end |-> j, max |-> x]
  BY DEF IsWindow
<1>3. \A t \in WindowSlot : g[t] = IF t \in DOMAIN accs THEN accs[t] ELSE w.acc[t]
  OBVIOUS
<1>4. g = [s \in WindowSlot |-> g[s]]
  OBVIOUS
<1>5. h = Highest({w.max} \cup {accs[s].promised : s \in DOMAIN accs})
  OBVIOUS
<1>. HIDE DEF g, h
<1>6. Update(w, accs) = [acc |-> g, min |-> i, end |-> j, max |-> h]
  BY <1>1, <1>2
<1>7. w.min = i /\ w.end = j
  BY <1>2
<1>. QED  BY <1>3, <1>4, <1>5, <1>6, <1>7 DEF IsWindow

LEMMA GoodIsWindow ==
  ASSUME NEW B, NEW w, GoodWindow(w, B)
  PROVE  IsWindow(w)
BY DEF GoodWindow, Window, IsWindow

LEMMA AsWindowIs ==
  ASSUME NEW v
  PROVE  LET w == AsWindow(v)
         IN  /\ IsWindow(w) /\ w.min = v.min /\ w.end = v.min + Len(v.open)
             /\ w.max = v.max
             /\ \A s \in WindowSlot :
                  w.acc[s] = IF s < v.min
                               THEN Resolved(v.decided[s + 1].bal, v.decided[s + 1].val)
                             ELSE IF s < v.min + Len(v.open) THEN v.open[s - v.min + 1]
                             ELSE Unopened
BY DEF AsWindow, IsWindow, AcceptorAt

\* What the shape says of the numbers.
LEMMA VectorNumbers ==
  ASSUME NEW v, GoodVector(v)
  PROVE  /\ v.min \in Nat /\ Len(v.open) \in Nat /\ Len(v.decided) = v.min
         /\ v.min + Len(v.open) <= MaxSlot + 2 /\ MaxSlot \in Nat
         /\ \A i \in 1..Len(v.open) : v.open[i] \in Acceptor
         /\ \A i \in 1..Len(v.decided) : v.decided[i] \in Decision
<1>1. v.open \in Seq(Acceptor) /\ v.decided \in Seq(Decision)
  BY DEF GoodVector
<1>2. Len(v.open) \in Nat /\ Len(v.decided) \in Nat
  BY <1>1
<1>. QED  BY <1>1, <1>2, MaxSlotAssumption DEF GoodVector
-----------------------------------------------------------------------------
Pad(q, n, a) == q \o [i \in 1..n |-> a]

LEMMA Padded ==
  ASSUME NEW T, NEW q \in Seq(T), NEW n \in Int, NEW a \in T
  PROVE  /\ Pad(q, n, a) \in Seq(T)
         /\ n > 0 => Len(Pad(q, n, a)) = Len(q) + n
         /\ ~(n > 0) => Len(Pad(q, n, a)) = Len(q)
         /\ \A i \in 1..Len(Pad(q, n, a)) :
              Pad(q, n, a)[i] = IF i <= Len(q) THEN q[i] ELSE a
<1>. DEFINE t == [i \in 1..n |-> a]
            m == IF n > 0 THEN n ELSE 0
<1>1. m \in Nat /\ 1..n = 1..m
  OBVIOUS
<1>2. t = [i \in 1..m |-> a]
  BY <1>1
<1>3. t \in Seq(T) /\ Len(t) = m
  <2>1. t \in [1..m -> T]
    BY <1>2
  <2>2. t \in Seq(T)
    BY <1>1, <2>1, SeqDef
  <2>3. DOMAIN t = 1..m
    BY <2>1
  <2>4. DOMAIN t = 1..Len(t) /\ Len(t) \in Nat
    BY <2>2, LenProperties
  <2>. HIDE DEF t, m
  <2>5. m = Len(t)
    BY <2>3, <2>4, <1>1
  <2>. QED  BY <2>2, <2>5
<1>4. \A i \in 1..m : t[i] = a
  BY <1>2
<1>5. (n > 0 => m = n) /\ (~(n > 0) => m = 0)
  OBVIOUS
<1>6. Pad(q, n, a) = q \o t
  BY Zenon DEF Pad
<1>. HIDE DEF t, m
<1>7. /\ q \o t \in Seq(T) /\ Len(q \o t) = Len(q) + m /\ Len(q) \in Nat
      /\ \A i \in 1..(Len(q) + m) :
           (q \o t)[i] = IF i <= Len(q) THEN q[i] ELSE t[i - Len(q)]
  BY <1>3, ConcatProperties, LenProperties
<1>8. \A i \in 1..(Len(q) + m) : ~(i <= Len(q)) => i - Len(q) \in 1..m
  BY <1>1, <1>7
<1>. QED  BY <1>1, <1>4, <1>5, <1>6, <1>7, <1>8

LEMMA NothingFresh ==
  ASSUME NEW w, w.max \in BallotOption, NEW s
  PROVE  FreshPromise(w, <<>>, s) = w.max
<1>1. {w.max} \cup {<<>>[p] : p \in Below(<<>>, s)} = {w.max}
  BY DEF Below
<1>2. Highest({w.max}) \in {w.max}
  BY HighestIn
<1>. QED
  BY <1>1, <1>2 DEF FreshPromise

LEMMA AwaitValueIs ==
  ASSUME NEW b \in BallotOption
  PROVE  AwaitValue(b) \in Acceptor /\ ~HasValue(AwaitValue(b))
         /\ ~IsResolved(AwaitValue(b)) /\ AwaitValue(b).val = Noop
BY NoopAssumption DEF AwaitValue, Acceptor, Value, HasValue, IsResolved, BallotOption

\* fill_open_slots on the vector of acceptors
LEMMA FillOpenAs ==
  ASSUME NEW v, GoodVector(v), NEW last \in Int, last <= MaxSlot + 1
  PROVE  LET f == FillOpenSlots(v, last)
         IN  GoodVector(f) /\ AsWindow(f) = OpenUpTo(AsWindow(v), <<>>, last)
<1>1. /\ v.min \in Nat /\ Len(v.open) \in Nat /\ v.max \in BallotOption
      /\ v.open \in Seq(Acceptor) /\ v.min + Len(v.open) <= MaxSlot + 2 /\ MaxSlot \in Nat
  BY VectorNumbers DEF GoodVector
<1>14. PICK lo \in Nat : lo = v.min
  BY <1>1
<1>15. PICK len \in Nat : len = Len(v.open)
  BY <1>1
<1>16. PICK a \in Acceptor : a = AwaitValue(v.max)
  BY <1>1, AwaitValueIs
<1>17. PICK n \in Int : n = last + 1 - lo - len
  OBVIOUS
<1>. DEFINE p == Pad(v.open, n, a)
            f == FillOpenSlots(v, last)
            w == AsWindow(v)
<1>11. w.end = lo + len
  BY <1>14, <1>15, AsWindowIs
<1>2. /\ p \in Seq(Acceptor) /\ Len(p) \in Nat
      /\ (n > 0 => Len(p) = len + n) /\ (~(n > 0) => Len(p) = len)
      /\ \A i \in 1..Len(p) : p[i] = IF i <= len THEN v.open[i] ELSE a
  BY <1>1, <1>15, Padded
<1>4. f = [v EXCEPT !.open = p]
  BY <1>14, <1>15, <1>16, <1>17, Zenon DEF FillOpenSlots, Pad
<1>5. PICK q, d, k, x : v = [open |-> q, min |-> k, max |-> x, decided |-> d]
  BY DEF GoodVector
<1>. HIDE DEF p, w
<1>12. PICK plen \in Nat : plen = Len(p)
  BY <1>2
<1>3. /\ p \in Seq(Acceptor)
      /\ \A i \in 1..plen : p[i] = IF i <= len THEN v.open[i] ELSE AwaitValue(v.max)
  BY <1>2, <1>12, <1>16
<1>13. /\ lo + len <= last => lo + plen = last + 1
       /\ ~(lo + len <= last) => plen = len
  BY <1>2, <1>12, <1>17
<1>9. /\ f = [open |-> p, min |-> k, max |-> x, decided |-> d]
      /\ f.open = p /\ f.min = v.min /\ f.max = v.max /\ f.decided = v.decided
  BY <1>4, <1>5
<1>. HIDE DEF f
<1>7. GoodVector(f)
  <2>1. \A i \in 1..plen : Settled(p[i])
    BY <1>1, <1>3, <1>15, AwaitValueIs DEF GoodVector, Settled
  <2>2. lo + plen <= MaxSlot + 2
    BY <1>1, <1>13, <1>14, <1>15
  <2>. QED  BY <1>3, <1>9, <1>12, <1>14, <2>1, <2>2 DEF GoodVector
<1>8. AsWindow(f) = OpenUpTo(w, <<>>, last)
  <2>. DEFINE o == OpenUpTo(w, <<>>, last)
              g == AsWindow(f)
  <2>1. /\ IsWindow(g) /\ g.min = f.min /\ g.end = f.min + Len(f.open) /\ g.max = f.max
        /\ \A s \in WindowSlot :
             g.acc[s] = IF s < f.min
                          THEN Resolved(f.decided[s + 1].bal, f.decided[s + 1].val)
                        ELSE IF s < f.min + Len(f.open) THEN f.open[s - f.min + 1]
                        ELSE Unopened
    BY AsWindowIs
  <2>2. /\ IsWindow(w) /\ w.min = v.min /\ w.end = v.min + Len(v.open) /\ w.max = v.max
        /\ \A s \in WindowSlot :
             w.acc[s] = IF s < v.min
                          THEN Resolved(v.decided[s + 1].bal, v.decided[s + 1].val)
                        ELSE IF s < v.min + Len(v.open) THEN v.open[s - v.min + 1]
                        ELSE Unopened
    BY AsWindowIs DEF w
  <2>3. /\ IsWindow(o) /\ o.min = w.min /\ o.max = w.max
        /\ (w.end <= last => o.end = last + 1) /\ (~(w.end <= last) => o.end = w.end)
        /\ \A s \in WindowSlot :
             o.acc[s] = IF w.end <= s /\ s <= last
                          THEN AwaitValue(FreshPromise(w, <<>>, s))
                          ELSE w.acc[s]
    BY <2>2, OpenUpToIs
  <2>4. \A s \in WindowSlot : FreshPromise(w, <<>>, s) = v.max
    BY <2>2, <1>1, NothingFresh
  <2>5. ASSUME NEW s \in WindowSlot
        PROVE  g.acc[s] = o.acc[s]
    <3>1. s \in Nat
      BY SlotBound
    <3>2. CASE s < lo
      <4>1. ~(lo + len <= s) /\ s < f.min /\ s < v.min
        BY <3>1, <3>2, <1>9, <1>14
      <4>2. g.acc[s] = w.acc[s]
        BY <4>1, <2>1, <2>2, <1>9
      <4>. QED  BY <4>1, <4>2, <1>11, <2>3
    <3>3. CASE lo <= s /\ s < lo + len
      <4>1. s - lo + 1 \in 1..len /\ s - lo + 1 \in 1..plen /\ s < lo + plen
        BY <3>1, <3>3, <1>13
      <4>2. p[s - lo + 1] = v.open[s - lo + 1]
        BY <4>1, <1>3
      <4>3. g.acc[s] = v.open[s - lo + 1]
        BY <3>1, <3>3, <4>1, <4>2, <1>9, <1>12, <1>14, <2>1
      <4>4. w.acc[s] = v.open[s - lo + 1]
        BY <3>1, <3>3, <1>14, <1>15, <2>2
      <4>. QED  BY <3>1, <3>3, <4>3, <4>4, <1>11, <2>3
    <3>4. CASE lo + len <= s /\ s <= last
      <4>1. s - lo + 1 \in 1..plen /\ ~(s - lo + 1 <= len) /\ s < lo + plen /\ ~(s < lo)
        BY <3>1, <3>4, <1>13
      <4>2. p[s - lo + 1] = AwaitValue(v.max)
        BY <4>1, <1>3
      <4>3. g.acc[s] = AwaitValue(v.max)
        BY <4>1, <4>2, <1>9, <1>12, <1>14, <2>1
      <4>. QED  BY <3>1, <3>4, <4>3, <1>11, <2>3, <2>4
    <3>5. CASE lo + len <= s /\ ~(s <= last)
      <4>1. ~(s < lo + plen) /\ ~(s < lo) /\ ~(s < lo + len)
        BY <3>1, <3>5, <1>13
      <4>2. g.acc[s] = Unopened
        BY <4>1, <1>9, <1>12, <1>14, <2>1
      <4>3. w.acc[s] = Unopened
        BY <4>1, <1>14, <1>15, <2>2
      <4>. QED  BY <3>1, <3>5, <4>2, <4>3, <1>11, <2>3
    <3>. QED  BY <3>1, <3>2, <3>3, <3>4, <3>5
  <2>6. g.end = o.end
    <3>1. g.end = lo + plen
      BY <2>1, <1>9, <1>12, <1>14
    <3>. QED  BY <3>1, <2>3, <1>11, <1>13
  <2>7. g.min = o.min /\ g.max = o.max
    BY <2>1, <2>2, <2>3, <1>9
  <2>8. IsWindow(g) /\ IsWindow(o)
    BY <2>1, <2>3
  <2>. HIDE DEF g, o
  <2>9. g = o
    BY <2>5, <2>6, <2>7, <2>8, SameWindow
  <2>. QED  BY <2>9 DEF g, o
<1>. QED  BY <1>7, <1>8 DEF f, w

\* An acceptor of the vector is written through its reference.
Written(v, s, a) ==
  [v EXCEPT !.open[s - v.min + 1] = a, !.max = Higher(@, a.promised)]

LEMMA WrittenAs ==
  ASSUME NEW v, GoodVector(v), NEW s \in WindowSlot, s \in OpenIndices(v), NEW a \in Acceptor, Settled(a)
  PROVE  /\ GoodVector(Written(v, s, a))
         /\ AsWindow(Written(v, s, a)) = Put(AsWindow(v), s, a)
<1>1. /\ v.min \in Nat /\ Len(v.open) \in Nat /\ v.max \in BallotOption
      /\ v.open \in Seq(Acceptor) /\ v.min + Len(v.open) <= MaxSlot + 2 /\ MaxSlot \in Nat
  BY VectorNumbers DEF GoodVector
<1>2. PICK lo \in Nat : lo = v.min
  BY <1>1
<1>3. PICK len \in Nat : len = Len(v.open)
  BY <1>1
<1>14. s \in Nat
  BY SlotBound
<1>4. PICK i \in 1..len : i = s - lo + 1
  BY <1>2, <1>3, <1>14 DEF OpenIndices
<1>5. PICK q, d, k, x : v = [open |-> q, min |-> k, max |-> x, decided |-> d]
  BY DEF GoodVector
<1>6. PICK r : r = [v.open EXCEPT ![i] = a]
  OBVIOUS
<1>7. PICK h : h = Higher(v.max, a.promised)
  OBVIOUS
<1>8. /\ r \in Seq(Acceptor) /\ Len(r) = len
      /\ \A j \in 1..len : r[j] = IF j = i THEN a ELSE v.open[j]
  BY <1>1, <1>3, <1>6, ExceptSeq
<1>9. PICK f : f = Written(v, s, a)
  OBVIOUS
<1>10. f = [v EXCEPT !.open = r, !.max = h]
  BY <1>2, <1>4, <1>6, <1>7, <1>9, Zenon DEF Written
<1>11. /\ f = [open |-> r, min |-> k, max |-> h, decided |-> d]
       /\ f.open = r /\ f.min = v.min /\ f.max = h /\ f.decided = v.decided
  BY <1>10, <1>5
<1>12. h \in BallotOption
  BY <1>1, <1>7, HigherIn DEF Acceptor
<1>13. GoodVector(f)
  <2>1. \A j \in 1..len : Settled(r[j])
    BY <1>8, <1>3 DEF GoodVector
  <2>. QED  BY <1>1, <1>3, <1>8, <1>11, <1>12, <2>1 DEF GoodVector
<1>15. AsWindow(f) = Put(AsWindow(v), s, a)
  <2>1. PICK w : w = AsWindow(v)
    OBVIOUS
  <2>2. PICK g : g = AsWindow(f)
    OBVIOUS
  <2>3. PICK o : o = Put(w, s, a)
    OBVIOUS
  <2>4. /\ IsWindow(g) /\ g.min = lo /\ g.end = lo + len /\ g.max = h
        /\ \A t \in WindowSlot :
             g.acc[t] = IF t < lo
                          THEN Resolved(v.decided[t + 1].bal, v.decided[t + 1].val)
                        ELSE IF t < lo + len THEN r[t - lo + 1]
                        ELSE Unopened
    BY <2>2, AsWindowIs, <1>11, <1>8, <1>2
  <2>5. /\ IsWindow(w) /\ w.min = lo /\ w.end = lo + len /\ w.max = v.max
        /\ \A t \in WindowSlot :
             w.acc[t] = IF t < lo
                          THEN Resolved(v.decided[t + 1].bal, v.decided[t + 1].val)
                        ELSE IF t < lo + len THEN v.open[t - lo + 1]
                        ELSE Unopened
    BY <2>1, AsWindowIs, <1>2, <1>3
  <2>6. /\ IsWindow(o) /\ o.min = w.min /\ o.end = w.end /\ o.max = h
        /\ \A t \in WindowSlot : o.acc[t] = IF t = s THEN a ELSE w.acc[t]
    <3>1. IsWindow(w)
      BY <2>5
    <3>4. w.max = v.max
      BY <2>5
    <3>2. Higher(w.max, a.promised) = h
      BY <3>4, <1>7, Zenon
    <3>3. /\ IsWindow(Put(w, s, a))
          /\ Put(w, s, a).min = w.min /\ Put(w, s, a).end = w.end
          /\ Put(w, s, a).max = Higher(w.max, a.promised)
          /\ \A t \in WindowSlot : Put(w, s, a).acc[t] = IF t = s THEN a ELSE w.acc[t]
      BY <3>1, PutIs
    <3>. QED  BY <2>3, <3>2, <3>3
  <2>7. ASSUME NEW t \in WindowSlot
        PROVE  g.acc[t] = o.acc[t]
    <3>1. t \in Nat
      BY SlotBound
    <3>2. CASE lo <= t /\ t < lo + len
      <4>1. t - lo + 1 \in 1..len /\ (t = s <=> t - lo + 1 = i) /\ ~(t < lo)
        BY <3>1, <3>2, <1>4
      <4>. QED  BY <3>2, <4>1, <1>8, <2>4, <2>5, <2>6
    <3>3. CASE t < lo \/ ~(t < lo + len)
      <4>1. t # s /\ (t < lo \/ (~(t < lo) /\ ~(t < lo + len)))
        BY <3>1, <3>3, <1>4, <1>14
      <4>. QED  BY <4>1, <2>4, <2>5, <2>6
    <3>. QED  BY <3>1, <3>2, <3>3
  <2>8. g = o
    BY <2>4, <2>5, <2>6, <2>7, SameWindow
  <2>. QED  BY <2>8, <2>1, <2>2, <2>3
<1>. QED  BY <1>9, <1>13, <1>15

\* What slot_mut returns, and the acceptor of an open slot.
LEMMA SlotMutAs ==
  ASSUME NEW v, GoodVector(v), NEW s \in WindowSlot
  PROVE  LET w == AsWindow(v)
         IN  /\ SlotMut(v, s) = "Resolved" <=> ResolvedAt(w, s)
             /\ SlotMut(v, s) = "Empty" <=> EmptyAt(w, s)
             /\ SlotMut(v, s) = "Open" <=> w.min <= s /\ ~ResolvedAt(w, s) /\ ~EmptyAt(w, s)
             /\ w.min <= s /\ ~EmptyAt(w, s) => AcceptorAt(v, s) = w.acc[s]
             /\ ResolvedAt(w, s) => DecisionAt(v, s) = DecisionOf(w.acc[s])
<1>1. /\ v.min \in Nat /\ Len(v.open) \in Nat
      /\ \A i \in 1..v.min : v.decided[i] \in Decision
  BY VectorNumbers DEF GoodVector
<1>2. PICK lo \in Nat : lo = v.min
  BY <1>1
<1>3. PICK len \in Nat : len = Len(v.open)
  BY <1>1
<1>4. PICK w : w = AsWindow(v)
  OBVIOUS
<1>5. /\ IsWindow(w) /\ w.min = lo /\ w.end = lo + len
      /\ w.acc[s] = IF s < lo
                      THEN Resolved(v.decided[s + 1].bal, v.decided[s + 1].val)
                    ELSE IF s < lo + len THEN v.open[s - lo + 1]
                    ELSE Unopened
  BY <1>2, <1>3, <1>4, AsWindowIs
<1>6. s \in Nat
  BY SlotBound
<1>7. SlotMut(v, s) = IF s < lo THEN "Resolved"
                      ELSE IF s >= lo + len THEN "Empty"
                      ELSE IF IsResolved(v.open[s - lo + 1]) THEN "Resolved"
                      ELSE "Open"
  BY <1>2, <1>3 DEF SlotMut, AcceptorAt
<1>8. AcceptorAt(v, s) = v.open[s - lo + 1]
  BY <1>2 DEF AcceptorAt
<1>9. CASE s < lo
  <2>1. s + 1 \in 1..lo
    BY <1>6, <1>9
  <2>2. PICK d \in Decision : d = v.decided[s + 1]
    BY <2>1, <1>1, <1>2
  <2>3. w.acc[s] = Resolved(d.bal, d.val) /\ DecisionAt(v, s) = d
    BY <2>2, <1>5, <1>9, <1>2 DEF DecisionAt
  <2>4. /\ d = [bal |-> d.bal, val |-> d.val]
        /\ w.acc[s].bal = d.bal /\ w.acc[s].val = d.val /\ ResolvedAt(w, s)
    BY <2>3 DEF Decision, Resolved, ResolvedAt, IsResolved
  <2>6. DecisionOf(w.acc[s]) = d
    BY <2>4 DEF DecisionOf
  <2>5. ~EmptyAt(w, s) /\ ~(w.min <= s)
    BY <1>5, <1>6, <1>9 DEF EmptyAt
  <2>. QED  BY <1>4, <1>7, <1>9, <2>3, <2>4, <2>5, <2>6
<1>10. CASE ~(s < lo) /\ s < lo + len
  <2>1. /\ w.acc[s] = v.open[s - lo + 1]
        /\ DecisionAt(v, s) = DecisionOf(v.open[s - lo + 1])
    BY <1>5, <1>8, <1>10, <1>2 DEF DecisionAt
  <2>2. w.min <= s /\ ~EmptyAt(w, s) /\ ~(s >= lo + len)
    BY <1>5, <1>6, <1>10 DEF EmptyAt
  <2>3. ResolvedAt(w, s) <=> IsResolved(v.open[s - lo + 1])
    BY <2>1 DEF ResolvedAt
  <2>. QED  BY <1>4, <1>7, <1>8, <1>10, <2>1, <2>2, <2>3
<1>11. CASE s >= lo + len
  <2>1. ~(s < lo) /\ ~(s < lo + len)
    BY <1>6, <1>11
  <2>2. w.acc[s] = Unopened
    BY <2>1, <1>5
  <2>3. ~ResolvedAt(w, s) /\ EmptyAt(w, s)
    BY <2>2, <1>5, <1>11 DEF ResolvedAt, EmptyAt, IsResolved, Unopened, AwaitValue
  <2>. QED  BY <1>4, <1>7, <1>11, <2>1, <2>3
<1>. QED  BY <1>6, <1>9, <1>10, <1>11

\* `decided` once k acceptors have moved to it.
Moved(q, k) == [i \in 1..k |-> DecisionOf(q[i])]

DrainedDecisions(d, q, k) == d \o Moved(q, k)

LEMMA MovedIs ==
  ASSUME NEW q \in Seq(Acceptor), NEW k, k \in 0..Len(q)
  PROVE  /\ Moved(q, k) \in Seq(Decision) /\ Len(Moved(q, k)) = k /\ k \in Nat
         /\ \A i \in 1..k : Moved(q, k)[i] = DecisionOf(q[i])
<1>1. Len(q) \in Nat /\ \A i \in 1..Len(q) : q[i] \in Acceptor
  BY LenProperties, ElementOfSeq
<1>2. k \in Nat /\ 1..k \subseteq 1..Len(q)
  BY <1>1
<1>3. PICK t : t = Moved(q, k)
  OBVIOUS
<1>4. \A i \in 1..k : DecisionOf(q[i]) \in Decision
  BY <1>1, <1>2 DEF Decision, Acceptor, DecisionOf
<1>5. DOMAIN t = 1..k /\ \A i \in 1..k : t[i] = DecisionOf(q[i])
  BY <1>3 DEF Moved
<1>6. t \in [1..k -> Decision]
  BY <1>3, <1>4 DEF Moved
<1>7. t \in Seq(Decision)
  BY <1>2, <1>6, SeqDef
<1>8. DOMAIN t = 1..Len(t) /\ Len(t) \in Nat
  BY <1>7, LenProperties
<1>9. Len(t) = k
  BY <1>2, <1>5, <1>8
<1>. QED  BY <1>2, <1>3, <1>5, <1>7, <1>9

LEMMA Decisions ==
  ASSUME NEW q \in Seq(Acceptor), NEW d \in Seq(Decision), NEW k, k \in 0..Len(q)
  PROVE  LET e == DrainedDecisions(d, q, k)
         IN  /\ e \in Seq(Decision) /\ Len(e) = Len(d) + k
             /\ \A i \in 1..Len(d) : e[i] = d[i]
<1>1. PICK t : t = Moved(q, k)
  OBVIOUS
<1>2. t \in Seq(Decision) /\ Len(t) = k /\ k \in Nat /\ Len(d) \in Nat
  BY <1>1, MovedIs, LenProperties
<1>3. /\ d \o t \in Seq(Decision) /\ Len(d \o t) = Len(d) + Len(t)
      /\ \A i \in 1..(Len(d) + Len(t)) :
           (d \o t)[i] = IF i <= Len(d) THEN d[i] ELSE t[i - Len(d)]
  BY <1>2, ConcatProperties
<1>4. DrainedDecisions(d, q, k) = d \o t
  BY <1>1 DEF DrainedDecisions
<1>5. \A i \in 1..Len(d) : i \in 1..(Len(d) + Len(t)) /\ i <= Len(d)
  BY <1>2
<1>. QED  BY <1>2, <1>3, <1>4, <1>5

LEMMA LaterDecisions ==
  ASSUME NEW q \in Seq(Acceptor), NEW d \in Seq(Decision), NEW k, k \in 0..Len(q),
         NEW i \in 1..k
  PROVE  DrainedDecisions(d, q, k)[Len(d) + i] = DecisionOf(q[i])
<1>1. PICK t : t = Moved(q, k)
  OBVIOUS
<1>2. t \in Seq(Decision) /\ Len(t) = k /\ k \in Nat /\ Len(d) \in Nat
  BY <1>1, MovedIs, LenProperties
<1>3. \A j \in 1..(Len(d) + Len(t)) :
        (d \o t)[j] = IF j <= Len(d) THEN d[j] ELSE t[j - Len(d)]
  BY <1>2, ConcatProperties
<1>4. DrainedDecisions(d, q, k) = d \o t
  BY <1>1 DEF DrainedDecisions
<1>5. PICK n \in Nat : n = Len(d)
  BY <1>2
<1>6. n + i \in 1..(n + k) /\ ~(n + i <= n) /\ (n + i) - n = i
  BY <1>2
<1>7. (d \o t)[n + i] = t[i]
  BY <1>2, <1>3, <1>5, <1>6
<1>8. t[i] = DecisionOf(q[i])
  BY <1>1, MovedIs
<1>. QED  BY <1>4, <1>5, <1>7, <1>8

LEMMA DrainedAs ==
  ASSUME NEW v, GoodVector(v), NEW k, k \in 0..Len(v.open),
         \A i \in 1..k : IsResolved(v.open[i])
  PROVE  /\ GoodVector(Drained(v, k))
         /\ Drained(v, k).min = v.min + k
         /\ AsWindow(Drained(v, k)) = [AsWindow(v) EXCEPT !.min = v.min + k]
<1>1. /\ v.min \in Nat /\ Len(v.open) \in Nat /\ v.max \in BallotOption
      /\ v.open \in Seq(Acceptor) /\ v.decided \in Seq(Decision)
      /\ v.min + Len(v.open) <= MaxSlot + 2 /\ MaxSlot \in Nat /\ Len(v.decided) = v.min
      /\ \A i \in 1..Len(v.open) : v.open[i] \in Acceptor /\ Settled(v.open[i])
  BY VectorNumbers DEF GoodVector
<1>2. PICK lo \in Nat : lo = v.min
  BY <1>1
<1>3. PICK len \in Nat : len = Len(v.open)
  BY <1>1
<1>4. PICK q, d, m, x : v = [open |-> q, min |-> m, max |-> x, decided |-> d]
  BY DEF GoodVector
<1>5. PICK r : r = SubSeq(v.open, k + 1, Len(v.open))
  OBVIOUS
<1>6. PICK e : e = DrainedDecisions(v.decided, v.open, k)
  OBVIOUS
<1>7. PICK f : f = Drained(v, k)
  OBVIOUS
<1>8. f = [v EXCEPT !.open = r, !.min = v.min + k, !.decided = e]
  BY <1>5, <1>6, <1>7, Zenon DEF Drained, DrainedDecisions, Moved
<1>9. /\ f = [open |-> r, min |-> v.min + k, max |-> x, decided |-> e]
      /\ f.open = r /\ f.min = v.min + k /\ f.max = v.max /\ f.decided = e
  BY <1>4, <1>8
<1>10. k \in Nat /\ k <= len
  BY <1>3
<1>11. PICK rest \in Nat : rest = len - k
  BY <1>10
<1>12. /\ r \in Seq(Acceptor) /\ Len(r) = rest
       /\ \A i \in 1..rest : r[i] = v.open[k + i]
  <2>1. \A i \in (k + 1)..len : v.open[i] \in Acceptor
    BY <1>1, <1>3, <1>10
  <2>2. r = SubSeq(v.open, k + 1, len) /\ k + 1 \in Int /\ len \in Int
    BY <1>5, <1>3, <1>10
  <2>3. /\ r \in Seq(Acceptor)
        /\ Len(r) = IF k + 1 <= len THEN len - (k + 1) + 1 ELSE 0
        /\ \A i \in 1..(len - (k + 1) + 1) : r[i] = v.open[(k + 1) + i - 1]
    BY <2>1, <2>2, SubSeqProperties
  <2>4. rest = (IF k + 1 <= len THEN len - (k + 1) + 1 ELSE 0) /\ len - (k + 1) + 1 = rest
    BY <1>10, <1>11
  <2>5. \A i \in 1..rest : (k + 1) + i - 1 = k + i
    BY <1>10
  <2>. QED  BY <2>3, <2>4, <2>5
<1>13. /\ e \in Seq(Decision) /\ Len(e) = lo + k
       /\ \A i \in 1..lo : e[i] = v.decided[i]
       /\ \A i \in 1..k : e[lo + i] = DecisionOf(v.open[i])
  <2>1. PICK o \in Seq(Acceptor) : o = v.open
    BY <1>1
  <2>2. PICK c \in Seq(Decision) : c = v.decided
    BY <1>1
  <2>3. k \in 0..Len(o) /\ e = DrainedDecisions(c, o, k)
    BY <2>1, <2>2, <1>6
  <2>4. /\ e \in Seq(Decision) /\ Len(e) = Len(c) + k
        /\ \A i \in 1..Len(c) : e[i] = c[i]
    BY <2>3, Decisions
  <2>5. ASSUME NEW i \in 1..k
        PROVE  e[lo + i] = DecisionOf(v.open[i])
    <3>1. e[Len(c) + i] = DecisionOf(o[i])
      BY <2>3, LaterDecisions
    <3>. QED  BY <3>1, <2>1, <2>2, <1>1, <1>2
  <2>. QED  BY <2>1, <2>2, <2>4, <2>5, <1>1, <1>2
<1>14. GoodVector(f)
  <2>1. \A i \in 1..rest : Settled(r[i])
    <3>1. \A i \in 1..rest : k + i \in 1..len
      BY <1>10, <1>11
    <3>. QED  BY <3>1, <1>1, <1>3, <1>12
  <2>2. v.min + k = Len(e) /\ v.min + k + rest <= MaxSlot + 2
    BY <1>1, <1>2, <1>3, <1>10, <1>11, <1>13
  <2>. QED  BY <1>1, <1>9, <1>12, <1>13, <2>1, <2>2 DEF GoodVector
<1>15. AsWindow(f) = [AsWindow(v) EXCEPT !.min = v.min + k]
  <2>1. PICK w : w = AsWindow(v)
    OBVIOUS
  <2>2. PICK g : g = AsWindow(f)
    OBVIOUS
  <2>3. PICK o : o = [w EXCEPT !.min = v.min + k]
    OBVIOUS
  <2>4. /\ IsWindow(g) /\ g.min = lo + k /\ g.end = lo + k + rest /\ g.max = v.max
        /\ \A t \in WindowSlot :
             g.acc[t] = IF t < lo + k THEN Resolved(e[t + 1].bal, e[t + 1].val)
                        ELSE IF t < lo + k + rest THEN r[t - (lo + k) + 1]
                        ELSE Unopened
    BY <2>2, AsWindowIs, <1>9, <1>12, <1>2
  <2>5. /\ IsWindow(w) /\ w.min = lo /\ w.end = lo + len /\ w.max = v.max
        /\ \A t \in WindowSlot :
             w.acc[t] = IF t < lo
                          THEN Resolved(v.decided[t + 1].bal, v.decided[t + 1].val)
                        ELSE IF t < lo + len THEN v.open[t - lo + 1]
                        ELSE Unopened
    BY <2>1, AsWindowIs, <1>2, <1>3
  <2>6. /\ IsWindow(o) /\ o.min = v.min + k /\ o.end = w.end /\ o.max = w.max
        /\ o.acc = w.acc
    <3>1. IsWindow(w)
      BY <2>5
    <3>. QED  BY <2>3, <3>1, MinSet
  <2>7. ASSUME NEW t \in WindowSlot
        PROVE  g.acc[t] = w.acc[t]
    <3>1. t \in Nat
      BY SlotBound
    <3>2. CASE t < lo
      <4>1. t < lo + k /\ t + 1 \in 1..lo
        BY <3>1, <3>2, <1>10
      <4>. QED  BY <3>2, <4>1, <1>13, <2>4, <2>5
    <3>3. CASE lo <= t /\ t < lo + k
      <4>1. PICK i \in 1..k : i = t - lo + 1
        BY <3>1, <3>3, <1>10
      <4>2. t + 1 = lo + i /\ t + 1 \in Nat /\ i \in 1..len /\ ~(t < lo) /\ t < lo + len
        BY <3>1, <3>3, <4>1, <1>10
      <4>3. v.open[i] = Resolved(v.open[i].bal, v.open[i].val)
        BY <4>1, <4>2, <1>1, <1>3 DEF Settled
      <4>4. e[t + 1].bal = v.open[i].bal /\ e[t + 1].val = v.open[i].val
        <5>1. e[t + 1] = DecisionOf(v.open[i])
          BY <4>1, <4>2, <1>13
        <5>. QED  BY <5>1 DEF DecisionOf
      <4>5. g.acc[t] = Resolved(v.open[i].bal, v.open[i].val)
        BY <3>3, <4>4, <2>4
      <4>6. w.acc[t] = v.open[i]
        BY <4>1, <4>2, <2>5
      <4>. QED  BY <4>3, <4>5, <4>6
    <3>4. CASE lo + k <= t /\ t < lo + len
      <4>1. PICK i \in 1..rest : i = t - (lo + k) + 1
        BY <3>1, <3>4, <1>10, <1>11
      <4>2. /\ k + i = t - lo + 1 /\ ~(t < lo) /\ ~(t < lo + k)
            /\ t < lo + k + rest
        BY <3>1, <3>4, <4>1, <1>10, <1>11
      <4>. QED  BY <3>4, <4>1, <4>2, <1>12, <2>4, <2>5
    <3>5. CASE lo + len <= t
      <4>1. ~(t < lo) /\ ~(t < lo + len) /\ ~(t < lo + k) /\ ~(t < lo + k + rest)
        BY <3>1, <3>5, <1>10, <1>11
      <4>. QED  BY <4>1, <2>4, <2>5
    <3>. QED  BY <3>1, <3>2, <3>3, <3>4, <3>5
  <2>8. g.min = o.min /\ g.end = o.end /\ g.max = o.max
    <3>1. lo + k + rest = lo + len
      BY <1>10, <1>11
    <3>. QED  BY <3>1, <2>4, <2>5, <2>6, <1>2
  <2>9. g = o
    BY <2>4, <2>6, <2>7, <2>8, SameWindow
  <2>. QED  BY <2>9, <2>1, <2>2, <2>3
<1>. QED  BY <1>7, <1>9, <1>14, <1>15

LEMMA FillDecisionsIs ==
  ASSUME NEW w, IsWindow(w), w.max \in BallotOption, NEW m, m = FirstUnresolved(w)
  PROVE  LET f == FillDecisions(w)
         IN  /\ IsWindow(f) /\ f.min = m /\ f.max = w.max
             /\ (w.end <= m => f.end = m + 1) /\ (~(w.end <= m) => f.end = w.end)
             /\ \A t \in WindowSlot :
                  f.acc[t] = IF w.end <= t /\ t <= m THEN AwaitValue(w.max) ELSE w.acc[t]
<1>1. PICK o : o = OpenUpTo(w, <<>>, m)
  OBVIOUS
<1>2. PICK f : f = FillDecisions(w)
  OBVIOUS
<1>3. f = [o EXCEPT !.min = m]
  BY <1>1, <1>2, Zenon DEF FillDecisions
<1>4. /\ IsWindow(o) /\ o.max = w.max
      /\ (w.end <= m => o.end = m + 1) /\ (~(w.end <= m) => o.end = w.end)
      /\ \A t \in WindowSlot :
           o.acc[t] = IF w.end <= t /\ t <= m THEN AwaitValue(FreshPromise(w, <<>>, t))
                      ELSE w.acc[t]
  BY <1>1, OpenUpToIs
<1>5. /\ IsWindow(f) /\ f.min = m /\ f.end = o.end /\ f.max = o.max /\ f.acc = o.acc
  <2>1. IsWindow(o)
    BY <1>4
  <2>. QED  BY <2>1, <1>3, MinSet, SMTT(30)
<1>6. \A t \in WindowSlot : FreshPromise(w, <<>>, t) = w.max
  BY NothingFresh
<1>. QED  BY <1>2, <1>4, <1>5, <1>6

\* fill_decisions on the vectors
LEMMA DrainAs ==
  ASSUME NEW B, Ballots(B), NEW v, GoodVector(v), GoodWindow(AsWindow(v), B)
  PROVE  /\ GoodVector(DrainDecisions(v))
         /\ AsWindow(DrainDecisions(v)) = FillDecisions(AsWindow(v))
<1>1. PICK w : w = AsWindow(v)
  OBVIOUS
<1>2. PICK lo \in Nat : lo = v.min
  BY VectorNumbers
<1>3. PICK len \in Nat : len = Len(v.open)
  BY VectorNumbers
<1>4. /\ IsWindow(w) /\ w.min = lo /\ w.end = lo + len /\ w.max = v.max
      /\ \A t \in WindowSlot :
           lo <= t /\ t < lo + len => w.acc[t] = v.open[t - lo + 1]
  <2>1. \A t \in WindowSlot : t \in Nat
    BY SlotBound
  <2>2. \A t \in WindowSlot : lo <= t => ~(t < lo)
    BY <2>1
  <2>. QED  BY <1>1, <1>2, <1>3, <2>2, AsWindowIs
<1>5. GoodWindow(w, B)
  BY <1>1
<1>6. PICK m : m = FirstUnresolved(w)
  OBVIOUS
<1>7. /\ m \in lo..(lo + len) /\ m \in WindowSlot
      /\ \A s \in lo..(m - 1) : ResolvedAt(w, s)
      /\ m < lo + len => ~ResolvedAt(w, m)
  BY <1>4, <1>5, <1>6, FirstUnresolvedIn
<1>8. PICK k \in 0..len : k = m - lo /\ m = lo + k
  BY <1>7
<1>9. w.max \in BallotOption /\ len > 0
  BY <1>4, <1>5 DEF GoodWindow, Window
<1>10. \A i \in 1..len : lo + i - 1 \in WindowSlot /\ lo + i - 1 < lo + len
                         /\ (lo + i - 1) - lo + 1 = i /\ lo <= lo + i - 1
  BY <1>2, <1>3, VectorNumbers, SMTT(30) DEF WindowSlot
<1>11. \A i \in 1..len : IsResolved(v.open[i]) <=> ResolvedAt(w, lo + i - 1)
  BY <1>4, <1>10 DEF ResolvedAt
<1>12. \A i \in 1..k : IsResolved(v.open[i])
  <2>1. \A i \in 1..k : lo + i - 1 \in lo..(m - 1) /\ i \in 1..len
    BY <1>8
  <2>. QED  BY <2>1, <1>7, <1>11
<1>. DEFINE prefix == ResolvedPrefixes(v)
<1>13. Max(prefix) = k
  <2>1. k \in prefix
    BY <1>3, <1>12 DEF ResolvedPrefixes
  <2>2. \A j \in prefix : j \in 0..len /\ \A i \in 1..j : IsResolved(v.open[i])
    BY <1>3 DEF ResolvedPrefixes
  <2>3. \A j \in prefix : j <= k
    <3>1. SUFFICES ASSUME NEW j \in prefix, ~(j <= k) PROVE FALSE
      OBVIOUS
    <3>2. j \in 0..len
      BY <2>2
    <3>3. k + 1 \in 1..j /\ k + 1 \in 1..len /\ lo + (k + 1) - 1 = m /\ m < lo + len
      BY <3>1, <3>2, <1>8
    <3>4. IsResolved(v.open[k + 1])
      BY <3>3, <2>2
    <3>. QED  BY <3>3, <3>4, <1>7, <1>11
  <2>4. prefix \subseteq 0..len /\ prefix # {}
    BY <2>1, <2>2
  <2>. HIDE DEF prefix
  <2>5. Max(prefix) \in prefix /\ \A j \in prefix : Max(prefix) >= j
    BY <2>4, MaxIn
  <2>. QED  BY <2>1, <2>2, <2>3, <2>5
<1>14. DrainDecisions(v) = IF k = 0 THEN v ELSE FillOpenSlots(Drained(v, k), m)
  <2>1. v.min + k = m
    BY <1>2, <1>8
  <2>. QED  BY <2>1, <1>13, Zenon DEF DrainDecisions
<1>15. PICK f : f = FillDecisions(w)
  OBVIOUS
<1>16. /\ IsWindow(f) /\ f.min = m /\ f.max = w.max
       /\ (w.end <= m => f.end = m + 1) /\ (~(w.end <= m) => f.end = w.end)
       /\ \A t \in WindowSlot :
            f.acc[t] = IF w.end <= t /\ t <= m THEN AwaitValue(w.max) ELSE w.acc[t]
  BY <1>4, <1>6, <1>9, <1>15, FillDecisionsIs
<1>17. CASE k = 0
  <2>1. m = lo /\ ~(w.end <= m) /\ \A t \in WindowSlot : ~(w.end <= t /\ t <= m)
    BY <1>4, <1>8, <1>9, <1>17, SlotBound
  <2>2. f = w
    BY <2>1, <1>4, <1>16, SameWindow
  <2>. QED  BY <2>2, <1>1, <1>14, <1>15, <1>17
<1>18. CASE k # 0
  <2>1. PICK d : d = Drained(v, k)
    OBVIOUS
  <2>2. PICK o : o = [w EXCEPT !.min = m]
    OBVIOUS
  <2>3. GoodVector(d) /\ d.min = m /\ AsWindow(d) = o
    <3>1. k \in 0..Len(v.open) /\ v.min + k = m
      BY <1>2, <1>3, <1>8
    <3>2. /\ GoodVector(d) /\ d.min = v.min + k
          /\ AsWindow(d) = [AsWindow(v) EXCEPT !.min = v.min + k]
      BY <3>1, <1>12, <2>1, DrainedAs
    <3>. QED  BY <3>1, <3>2, <2>2, <1>1
  <2>4. IsWindow(o) /\ o.end = w.end /\ o.max = w.max /\ o.acc = w.acc
    BY <1>4, <2>2, MinSet
  <2>5. m \in Int /\ m <= MaxSlot + 1
    BY <1>7, MaxSlotAssumption DEF WindowSlot
  <2>6. PICK e : e = FillOpenSlots(d, m)
    OBVIOUS
  <2>7. GoodVector(e) /\ AsWindow(e) = OpenUpTo(o, <<>>, m)
    BY <2>3, <2>5, <2>6, FillOpenAs
  <2>8. PICK g : g = OpenUpTo(o, <<>>, m)
    OBVIOUS
  <2>9. /\ IsWindow(g) /\ g.min = o.min /\ g.max = o.max
        /\ (o.end <= m => g.end = m + 1) /\ (~(o.end <= m) => g.end = o.end)
        /\ \A t \in WindowSlot :
             g.acc[t] = IF o.end <= t /\ t <= m
                          THEN AwaitValue(FreshPromise(o, <<>>, t)) ELSE o.acc[t]
    BY <2>4, <2>8, OpenUpToIs
  <2>10. \A t \in WindowSlot : FreshPromise(o, <<>>, t) = w.max
    BY <2>4, <1>9, NothingFresh
  <2>11. o.min = m
    BY <2>2, <1>4, MinSet
  <2>12. g = f
    BY <2>4, <2>9, <2>10, <2>11, <1>16, SameWindow
  <2>. QED  BY <2>1, <2>3, <2>6, <2>7, <2>8, <2>12, <1>1, <1>14, <1>15, <1>18
<1>. QED  BY <1>17, <1>18

-----------------------------------------------------------------------------
(***************************************************************************)
(* One iteration: the slot exists, its acceptor changes, and               *)
(* fill_decisions looks at the window when the reference is dropped.       *)
(***************************************************************************)
LEMMA AllBallots == Ballots(BallotOption)
BY DEF Ballots, BallotOption

LEMMA PutGood ==
  ASSUME NEW w, GoodWindow(w, BallotOption), NEW s \in WindowSlot,
         NEW a, GoodAcceptor(a, BallotOption), s = MaxSlot + 1 => ~HasValue(a)
  PROVE  GoodWindow(Put(w, s, a), BallotOption)
<1>1. PICK u : u = Put(w, s, a)
  OBVIOUS
<1>2. IsWindow(w)
  BY GoodIsWindow
<1>3. /\ IsWindow(u) /\ u.min = w.min /\ u.end = w.end
      /\ u.max = Higher(w.max, a.promised)
      /\ \A t \in WindowSlot : u.acc[t] = IF t = s THEN a ELSE w.acc[t]
  <2>1. /\ IsWindow(Put(w, s, a))
        /\ Put(w, s, a).min = w.min /\ Put(w, s, a).end = w.end
        /\ Put(w, s, a).max = Higher(w.max, a.promised)
        /\ \A t \in WindowSlot : Put(w, s, a).acc[t] = IF t = s THEN a ELSE w.acc[t]
    BY <1>2, PutIs
  <2>. QED  BY <1>1, <2>1
<1>4. u.max \in BallotOption
  BY <1>3, HigherIn DEF GoodWindow, GoodAcceptor
<1>5. \A t \in WindowSlot : GoodAcceptor(u.acc[t], BallotOption)
  BY <1>3 DEF GoodWindow
<1>6. ~HasValue(u.acc[MaxSlot + 1])
  <2>1. MaxSlot + 1 \in WindowSlot
    BY MaxSlotAssumption DEF WindowSlot
  <2>. QED  BY <1>3, <2>1 DEF GoodWindow
<1>7. PICK f : f = [t \in WindowSlot |-> u.acc[t]]
  OBVIOUS
<1>8. f \in [WindowSlot -> Acceptor]
  BY <1>5, <1>7 DEF GoodAcceptor
<1>9. u = [acc |-> f, min |-> u.min, end |-> u.end, max |-> u.max]
  BY <1>3, <1>7 DEF IsWindow
<1>10. u \in Window
  BY <1>3, <1>4, <1>8, <1>9 DEF GoodWindow, Window
<1>. QED
  BY <1>1, <1>3, <1>4, <1>5, <1>6, <1>10 DEF GoodWindow

LEMMA NothingOpened ==
  ASSUME NEW w, IsWindow(w), NEW seen, NEW last \in WindowSlot,
         w.end \in Int, ~(w.end <= last)
  PROVE  OpenUpTo(w, seen, last) = w
<1>1. PICK o : o = OpenUpTo(w, seen, last)
  OBVIOUS
<1>2. /\ IsWindow(o) /\ o.min = w.min /\ o.max = w.max /\ o.end = w.end
      /\ \A t \in WindowSlot :
           o.acc[t] = IF w.end <= t /\ t <= last
                        THEN AwaitValue(FreshPromise(w, seen, t))
                        ELSE w.acc[t]
  BY <1>1, OpenUpToIs
<1>3. \A t \in WindowSlot : o.acc[t] = w.acc[t]
  <2>1. SUFFICES ASSUME NEW t \in WindowSlot, w.end <= t, t <= last PROVE FALSE
    BY <1>2
  <2>2. last \in Int /\ t \in Int
    BY DEF WindowSlot
  <2>. QED  BY <2>1, <2>2
<1>. QED  BY <1>1, <1>2, <1>3, SameWindow

LEMMA FilledAs ==
  ASSUME NEW v, GoodVector(v), NEW s \in WindowSlot
  PROVE  /\ GoodVector(Filled(v, s))
         /\ AsWindow(Filled(v, s)) = OpenUpTo(AsWindow(v), <<>>, s)
<1>1. PICK w : w = AsWindow(v)
  OBVIOUS
<1>2. IsWindow(w)
  BY <1>1, AsWindowIs
<1>3. SlotMut(v, s) = "Empty" <=> EmptyAt(w, s)
  BY <1>1, SlotMutAs
<1>4. s \in Int /\ s <= MaxSlot + 1
  BY MaxSlotAssumption DEF WindowSlot
<1>5. CASE SlotMut(v, s) = "Empty"
  <2>1. Filled(v, s) = FillOpenSlots(v, s)
    BY <1>5 DEF Filled
  <2>. QED  BY <1>4, <2>1, FillOpenAs
<1>6. CASE SlotMut(v, s) # "Empty"
  <2>1. Filled(v, s) = v
    BY <1>6 DEF Filled
  <2>2. w.end \in Int
    BY <1>1, AsWindowIs, VectorNumbers
  <2>3. ~(w.end <= s)
    BY <1>3, <1>4, <1>6, <2>2 DEF EmptyAt
  <2>. QED  BY <1>1, <1>2, <2>1, <2>2, <2>3, NothingOpened
<1>. QED  BY <1>5, <1>6

LEMMA SetAcceptorAs ==
  ASSUME NEW v, GoodVector(v), GoodWindow(AsWindow(v), BallotOption),
         NEW s \in WindowSlot, s \in OpenIndices(v),
         NEW a, GoodAcceptor(a, BallotOption), Settled(a),
         s = MaxSlot + 1 => ~HasValue(a)
  PROVE  /\ GoodVector(SetAcceptor(v, s, a))
         /\ AsWindow(SetAcceptor(v, s, a)) = FillDecisions(Put(AsWindow(v), s, a))
<1>1. PICK p : p = Written(v, s, a)
  OBVIOUS
<1>2. SetAcceptor(v, s, a) = DrainDecisions(p)
  BY <1>1, Zenon DEF SetAcceptor, Written
<1>3. a \in Acceptor
  BY DEF GoodAcceptor
<1>4. GoodVector(p) /\ AsWindow(p) = Put(AsWindow(v), s, a)
  BY <1>1, <1>3, WrittenAs
<1>5. GoodWindow(AsWindow(p), BallotOption)
  BY <1>4, PutGood
<1>. QED
  BY <1>2, <1>4, <1>5, AllBallots, DrainAs

-----------------------------------------------------------------------------
(***************************************************************************)
(* A loop in closed form.  It visits the slots of T in increasing order:   *)
(* each of them exists afterwards, and those in the domain of A have got   *)
(* the acceptor A[s], in a visit with ballot F[s].                         *)
(***************************************************************************)
Sound(w) == GoodWindow(w, BallotOption) /\ Logged(w) /\ Bounded(w)

Planned(w, T, F, A) ==
  /\ Sound(w) /\ T \in SUBSET WindowSlot /\ DOMAIN A \subseteq T
  /\ DOMAIN F = DOMAIN A /\ F = [s \in DOMAIN A |-> F[s]] /\ A = [s \in DOMAIN A |-> A[s]]
  /\ \A s \in T : ~ResolvedAt(w, s)
  /\ \A s \in DOMAIN A :
       /\ GoodAcceptor(A[s], BallotOption) /\ Settled(A[s])
       /\ s = MaxSlot + 1 => ~HasValue(A[s])
       /\ F[s] \in BallotOption
       /\ AtMost(F[s], A[s].promised)
       /\ AtMost(A[s].promised, FreshPromise(w, F, s + 1))

(***************************************************************************)
(* The window x of a loop that has the slots below k behind it.            *)
(***************************************************************************)
Swept(w, T, F, A, k, x) ==
  /\ GoodWindow(x, BallotOption) /\ Logged(x)
  /\ x.max = FreshPromise(w, F, k)
  /\ w.end <= x.end
  /\ \A s \in T : s < k => s < x.end
  /\ x.end = w.end \/ x.end - 1 = x.min \/ (x.end - 1 \in T /\ x.end - 1 < k)
  /\ \A s \in WindowSlot : s \in DOMAIN A /\ s < k => x.acc[s] = A[s]
  /\ \A s \in WindowSlot :
       ~(s \in DOMAIN A /\ s < k) =>
         /\ s < w.end => x.acc[s] = w.acc[s]
         /\ w.end <= s /\ s < x.end => x.acc[s] = AwaitValue(FreshPromise(w, F, s))

(***************************************************************************)
(* The promise of a slot the loop opens.                                   *)
(***************************************************************************)
LEMMA FreshPromiseIs ==
  ASSUME NEW w, w.max \in BallotOption, NEW F, NEW t,
         \A p \in DOMAIN F : F[p] \in BallotOption
  PROVE  LET f == FreshPromise(w, F, t)
         IN  /\ f \in BallotOption /\ AtMost(w.max, f)
             /\ \A p \in Below(F, t) : AtMost(F[p], f)
             /\ f = w.max \/ \E p \in Below(F, t) : f = F[p]
<1>. DEFINE H == {w.max} \cup {F[p] : p \in Below(F, t)}
<1>1. H \in SUBSET BallotOption /\ H # {} /\ w.max \in H
  BY DEF Below
<1>2. \A p \in Below(F, t) : F[p] \in H
  OBVIOUS
<1>3. \A b \in H : b = w.max \/ \E p \in Below(F, t) : b = F[p]
  OBVIOUS
<1>4. FreshPromise(w, F, t) = Highest(H)
  BY DEF FreshPromise
<1>. HIDE DEF H
<1>5. Highest(H) \in H /\ \A c \in H : AtMost(c, Highest(H))
  BY <1>1, HighestIn
<1>. QED  BY <1>1, <1>2, <1>3, <1>4, <1>5

LEMMA FreshSame ==
  ASSUME NEW w, NEW F, NEW t \in Nat, NEW k \in Nat, t <= k,
         DOMAIN F \subseteq WindowSlot, \A p \in DOMAIN F : p < k => p < t
  PROVE  FreshPromise(w, F, t) = FreshPromise(w, F, k)
<1>1. \A p \in DOMAIN F : p \in Nat
  BY SlotBound
<1>2. \A p \in DOMAIN F : p < k <=> p < t
  BY <1>1
<1>3. Below(F, t) = Below(F, k)
  BY <1>2 DEF Below
<1>. QED  BY <1>3 DEF FreshPromise

LEMMA FreshFirst ==
  ASSUME NEW w, w.max \in BallotOption, NEW F, NEW k, \A p \in DOMAIN F : ~(p < k)
  PROVE  FreshPromise(w, F, k) = w.max
<1>1. Below(F, k) = {}
  BY DEF Below
<1>2. FreshPromise(w, F, k) = Highest({w.max})
  BY <1>1 DEF FreshPromise
<1>3. Highest({w.max}) \in {w.max}
  BY HighestIn
<1>. QED  BY <1>2, <1>3

LEMMA FreshGrows ==
  ASSUME NEW w, w.max \in BallotOption, NEW F, NEW t \in Nat, NEW k \in Nat, t <= k,
         DOMAIN F \subseteq WindowSlot, \A p \in DOMAIN F : F[p] \in BallotOption
  PROVE  AtMost(FreshPromise(w, F, t), FreshPromise(w, F, k))
<1>1. PICK f, g : f = FreshPromise(w, F, t) /\ g = FreshPromise(w, F, k)
  OBVIOUS
<1>2. \A p \in DOMAIN F : p \in Nat
  BY SlotBound
<1>3. Below(F, t) \subseteq Below(F, k)
  BY <1>2 DEF Below
<1>4. f = w.max \/ \E p \in Below(F, t) : f = F[p]
  BY <1>1, FreshPromiseIs
<1>5. AtMost(w.max, g) /\ \A p \in Below(F, k) : AtMost(F[p], g)
  BY <1>1, FreshPromiseIs
<1>. QED  BY <1>1, <1>3, <1>4, <1>5

LEMMA FreshNext ==
  ASSUME NEW w, NEW T, NEW F, NEW A, Planned(w, T, F, A), NEW k \in DOMAIN A
  PROVE  FreshPromise(w, F, k + 1) = Higher(FreshPromise(w, F, k), A[k].promised)
<1>1. PICK f, g, a : f = FreshPromise(w, F, k) /\ g = FreshPromise(w, F, k + 1)
                     /\ a = A[k].promised
  OBVIOUS
<1>2. /\ DOMAIN F = DOMAIN A /\ DOMAIN F \subseteq WindowSlot /\ k \in Nat
      /\ \A p \in DOMAIN F : F[p] \in BallotOption /\ p \in Nat
      /\ w.max \in BallotOption
  BY SlotBound DEF Planned, Sound, GoodWindow, Window
<1>3. a \in BallotOption /\ AtMost(F[k], a) /\ AtMost(a, g)
  BY <1>1 DEF Planned, GoodAcceptor
<1>4. f \in BallotOption /\ AtMost(w.max, f) /\ \A p \in Below(F, k) : AtMost(F[p], f)
  BY <1>1, <1>2, FreshPromiseIs
<1>5. g \in BallotOption /\ (g = w.max \/ \E p \in Below(F, k + 1) : g = F[p])
  BY <1>1, <1>2, FreshPromiseIs
<1>6. AtMost(f, g)
  BY <1>1, <1>2, FreshGrows
<1>7. \A p \in Below(F, k + 1) : p \in Below(F, k) \/ p = k
  BY <1>2 DEF Below
<1>8. AtMost(g, f) \/ AtMost(g, a)
  BY <1>3, <1>4, <1>5, <1>7
<1>9. g = Higher(f, a)
  BY <1>3, <1>4, <1>5, <1>6, <1>8, BallotOrder DEF Higher, AtMost
<1>. QED  BY <1>1, <1>9

-----------------------------------------------------------------------------
(***************************************************************************)
(* Slots the loop has not come to are as they were.                        *)
(***************************************************************************)
LEMMA SweptNumbers ==
  ASSUME NEW x, GoodWindow(x, BallotOption)
  PROVE  /\ x.min \in Nat /\ x.end \in Nat /\ x.min < x.end /\ x.end <= MaxSlot + 2
         /\ x.max \in BallotOption /\ IsWindow(x) /\ x \in Window
<1>1. x \in Window /\ x.min < x.end /\ x.max \in BallotOption
  BY DEF GoodWindow
<1>2. x.end <= MaxSlot + 2
  BY <1>1, MaxSlotAssumption DEF Window
<1>. QED  BY <1>1, <1>2, WindowFields, GoodIsWindow

LEMMA SweptAhead ==
  ASSUME NEW w, NEW T, NEW F, NEW A, Planned(w, T, F, A),
         NEW k, NEW x, Swept(w, T, F, A, k, x), NEW s \in WindowSlot, ~(s < k)
  PROVE  /\ ResolvedAt(x, s) <=> ResolvedAt(w, s)
         /\ s < w.end => x.acc[s] = w.acc[s]
         /\ x.end <= s => x.acc[s] = Unopened
         /\ ~ResolvedAt(w, s) => x.min <= s
<1>1. Logged(w) /\ Logged(x) /\ GoodWindow(x, BallotOption) /\ GoodWindow(w, BallotOption)
  BY DEF Planned, Sound, Swept
<1>2. w.end \in Nat /\ x.end \in Nat /\ x.min \in Nat /\ s \in Nat /\ w.end <= x.end
  BY <1>1, SweptNumbers, SlotBound DEF Swept
<1>3. /\ s < w.end => x.acc[s] = w.acc[s]
      /\ w.end <= s /\ s < x.end => x.acc[s] = AwaitValue(FreshPromise(w, F, s))
  BY DEF Swept
<1>4. x.end <= s => x.acc[s] = Unopened
  BY <1>1, <1>2 DEF Logged, Shape, EmptyAt
<1>5. w.end <= s => w.acc[s] = Unopened
  BY <1>1, <1>2 DEF Logged, Shape, EmptyAt
<1>6. ~IsResolved(Unopened) /\ \A b : ~IsResolved(AwaitValue(b))
  BY DEF Unopened, AwaitValue, IsResolved
<1>7. ResolvedAt(x, s) <=> ResolvedAt(w, s)
  <2>1. CASE s < w.end
    BY <2>1, <1>3 DEF ResolvedAt
  <2>2. CASE w.end <= s /\ s < x.end
    BY <2>2, <1>3, <1>5, <1>6 DEF ResolvedAt
  <2>3. CASE x.end <= s
    BY <2>3, <1>2, <1>4, <1>5, <1>6 DEF ResolvedAt
  <2>. QED  BY <2>1, <2>2, <2>3, <1>2
<1>8. s < x.min => ResolvedAt(x, s)
  BY <1>1 DEF Logged, Shape
<1>. QED  BY <1>2, <1>3, <1>4, <1>7, <1>8

(***************************************************************************)
(* The slot the loop comes to is opened if it has to be.                   *)
(***************************************************************************)
LEMMA SweptOpened ==
  ASSUME NEW w, NEW T, NEW F, NEW A, Planned(w, T, F, A),
         NEW k \in WindowSlot, ~ResolvedAt(w, k), NEW x, Swept(w, T, F, A, k, x)
  PROVE  LET y == OpenUpTo(x, <<>>, k)
         IN  /\ GoodWindow(y, BallotOption) /\ Logged(y)
             /\ y.min = x.min /\ y.max = x.max /\ x.min <= k /\ k < y.end
             /\ x.end <= k => y.end = k + 1
             /\ k < x.end => y.end = x.end
             /\ \A t \in WindowSlot :
                  /\ ~(x.end <= t /\ t <= k) => y.acc[t] = x.acc[t]
                  /\ x.end <= t /\ t <= k => y.acc[t] = AwaitValue(FreshPromise(w, F, t))
             /\ k < w.end => y.acc[k] = w.acc[k]
             /\ w.end <= k => y.acc[k] = AwaitValue(FreshPromise(w, F, k))
             /\ AtMost(y.acc[k].promised, y.max)
<1>1. PICK y : y = OpenUpTo(x, <<>>, k)
  OBVIOUS
<1>2. /\ GoodWindow(w, BallotOption) /\ Logged(w) /\ Bounded(w)
      /\ GoodWindow(x, BallotOption) /\ Logged(x)
      /\ x.max = FreshPromise(w, F, k) /\ w.end <= x.end
  BY DEF Planned, Sound, Swept
<1>3. /\ x.min \in Nat /\ x.end \in Nat /\ w.end \in Nat /\ k \in Nat
      /\ x.max \in BallotOption /\ w.max \in BallotOption
      /\ IsWindow(x) /\ x \in Window
  BY <1>2, SweptNumbers, SlotBound
<1>4. /\ IsWindow(y) /\ y.min = x.min /\ y.max = x.max
      /\ (x.end <= k => y.end = k + 1) /\ (~(x.end <= k) => y.end = x.end)
      /\ \A t \in WindowSlot :
           y.acc[t] = IF x.end <= t /\ t <= k
                        THEN AwaitValue(FreshPromise(x, <<>>, t))
                        ELSE x.acc[t]
  <2>1. IsWindow(x)
    BY <1>3
  <2>. QED  BY <1>1, <2>1, OpenUpToIs
<1>5. GoodWindow(y, BallotOption)
  <2>1. {} \in SUBSET WindowSlot /\ <<>> \in [{} -> BallotOption]
    OBVIOUS
  <2>. QED  BY <1>1, <1>2, <2>1, AllBallots, OpenUpToGood
<1>6. Logged(y)
  <2>1. x \in Window /\ Shape(x)
    BY <1>2, <1>3 DEF Logged
  <2>. QED  BY <1>1, <1>2, <2>1, OpenUpToLogged
<1>7. ASSUME NEW t \in WindowSlot, x.end <= t, t <= k
      PROVE  y.acc[t] = AwaitValue(FreshPromise(w, F, t))
  <2>1. t \in Nat
    BY SlotBound
  <2>2. DOMAIN F \subseteq WindowSlot /\ \A p \in DOMAIN F : p < k => p < x.end
    BY DEF Planned, Swept
  <2>3. \A p \in DOMAIN F : p < k => p < t
    <3>1. \A p \in DOMAIN F : p \in Nat
      BY <2>2, SlotBound
    <3>. QED  BY <1>3, <1>7, <2>1, <2>2, <3>1
  <2>4. FreshPromise(w, F, t) = FreshPromise(w, F, k)
    BY <1>3, <1>7, <2>1, <2>2, <2>3, FreshSame
  <2>5. FreshPromise(x, <<>>, t) = x.max
    BY <1>3, NothingFresh
  <2>. QED  BY <1>2, <1>4, <1>7, <2>4, <2>5
<1>8. /\ x.min <= k /\ (k < w.end => x.acc[k] = w.acc[k])
      /\ w.end <= k /\ k < x.end => x.acc[k] = AwaitValue(FreshPromise(w, F, k))
  <2>1. ~(k < k)
    BY <1>3
  <2>2. x.min <= k /\ (k < w.end => x.acc[k] = w.acc[k])
    BY <2>1, SweptAhead
  <2>. QED  BY <2>1, <2>2 DEF Swept
<1>9. k < w.end => y.acc[k] = w.acc[k]
  BY <1>2, <1>3, <1>4, <1>8
<1>10. w.end <= k => y.acc[k] = AwaitValue(FreshPromise(w, F, k))
  BY <1>3, <1>4, <1>7, <1>8
<1>11. AtMost(y.acc[k].promised, y.max)
  <2>1. DOMAIN F = DOMAIN A /\ \A p \in DOMAIN F : F[p] \in BallotOption
    BY DEF Planned
  <2>2. x.max \in BallotOption /\ AtMost(w.max, x.max)
    BY <1>2, <1>3, <2>1, FreshPromiseIs
  <2>3. CASE k < w.end
    <3>1. w.acc[k].promised \in BallotOption /\ AtMost(w.acc[k].promised, w.max)
      BY <1>2 DEF Bounded, GoodWindow, GoodAcceptor
    <3>. QED  BY <1>3, <1>4, <1>9, <2>2, <2>3, <3>1, BallotOrder
  <2>4. CASE w.end <= k
    <3>1. y.acc[k].promised = x.max
      BY <1>2, <1>10, <2>4 DEF AwaitValue
    <3>. QED  BY <1>4, <3>1 DEF AtMost
  <2>. QED  BY <1>3, <2>3, <2>4
<1>. QED
  BY <1>1, <1>3, <1>4, <1>5, <1>6, <1>7, <1>8, <1>9, <1>10, <1>11

(***************************************************************************)
(* Nothing to drain, and nothing that a write of the same acceptor changes.*)
(***************************************************************************)
LEMMA LoggedIsFilled ==
  ASSUME NEW y, GoodWindow(y, BallotOption), Logged(y)
  PROVE  FillDecisions(y) = y
<1>1. /\ y.min \in Nat /\ y.end \in Nat /\ y.min < y.end /\ y.max \in BallotOption
      /\ IsWindow(y)
  BY SweptNumbers
<1>2. PICK m : m = FirstUnresolved(y)
  OBVIOUS
<1>3. m \in y.min..y.end /\ \A s \in y.min..(m - 1) : ResolvedAt(y, s)
  BY <1>2, FirstUnresolvedIn
<1>4. m = y.min
  <2>1. SUFFICES ASSUME m # y.min PROVE FALSE
    OBVIOUS
  <2>2. y.min \in y.min..(m - 1)
    BY <1>1, <1>3, <2>1
  <2>. QED  BY <1>3, <2>2 DEF Logged
<1>5. PICK f : f = FillDecisions(y)
  OBVIOUS
<1>6. /\ IsWindow(f) /\ f.min = m /\ f.max = y.max
      /\ (~(y.end <= m) => f.end = y.end)
      /\ \A t \in WindowSlot :
           f.acc[t] = IF y.end <= t /\ t <= m THEN AwaitValue(y.max) ELSE y.acc[t]
  BY <1>1, <1>2, <1>5, FillDecisionsIs
<1>7. f.end = y.end
  BY <1>1, <1>4, <1>6
<1>8. \A t \in WindowSlot : f.acc[t] = y.acc[t]
  <2>1. \A t \in WindowSlot : t \in Nat
    BY SlotBound
  <2>. QED  BY <1>1, <1>4, <1>6, <2>1
<1>. QED  BY <1>1, <1>4, <1>5, <1>6, <1>7, <1>8, SameWindow

LEMMA PutSame ==
  ASSUME NEW y, IsWindow(y), NEW k \in WindowSlot, NEW a
  PROVE  a = y.acc[k] /\ Higher(y.max, a.promised) = y.max => Put(y, k, a) = y
<1>1. /\ IsWindow(Put(y, k, a))
      /\ Put(y, k, a).min = y.min /\ Put(y, k, a).end = y.end
      /\ Put(y, k, a).max = Higher(y.max, a.promised)
      /\ \A t \in WindowSlot : Put(y, k, a).acc[t] = IF t = k THEN a ELSE y.acc[t]
  BY PutIs
<1>2. PICK z : z = Put(y, k, a)
  OBVIOUS
<1>3. SUFFICES ASSUME a = y.acc[k], Higher(y.max, a.promised) = y.max
               PROVE  z = y
  BY <1>2
<1>4. /\ IsWindow(z) /\ z.min = y.min /\ z.end = y.end /\ z.max = y.max
      /\ \A t \in WindowSlot : z.acc[t] = y.acc[t]
  BY <1>1, <1>2, <1>3
<1>. QED  BY <1>4, SameWindow

LEMMA Rewritten ==
  ASSUME NEW y, GoodWindow(y, BallotOption), Logged(y), NEW k \in WindowSlot,
         AtMost(y.acc[k].promised, y.max)
  PROVE  FillDecisions(Put(y, k, y.acc[k])) = y
<1>1. IsWindow(y)
  BY GoodIsWindow
<1>2. PICK a : a = y.acc[k]
  OBVIOUS
<1>3. a.promised \in BallotOption /\ y.max \in BallotOption /\ AtMost(a.promised, y.max)
  BY <1>2 DEF GoodWindow, GoodAcceptor
<1>4. Higher(y.max, a.promised) = y.max
  BY <1>3, BallotOrder DEF Higher
<1>5. Put(y, k, a) = y
  BY <1>1, <1>2, <1>4, PutSame
<1>. QED  BY <1>2, <1>5, LoggedIsFilled

(***************************************************************************)
(* The loop begins, passes a slot that is none of its own, opens one, and  *)
(* visits one.                                                             *)
(***************************************************************************)
LEMMA PlannedNumbers ==
  ASSUME NEW w, NEW T, NEW F, NEW A, Planned(w, T, F, A)
  PROVE  /\ GoodWindow(w, BallotOption) /\ Logged(w)
         /\ w.max \in BallotOption /\ w.end \in Nat /\ w.min \in Nat
         /\ DOMAIN F = DOMAIN A
         /\ \A p \in DOMAIN A : p \in T /\ F[p] \in BallotOption
         /\ \A p \in T : p \in WindowSlot /\ p \in Nat
<1>1. GoodWindow(w, BallotOption) /\ Logged(w)
  BY DEF Planned, Sound
<1>2. \A p \in T : p \in WindowSlot /\ p \in Nat
  BY SlotBound DEF Planned
<1>3. w.max \in BallotOption /\ w.end \in Nat /\ w.min \in Nat
  BY <1>1, SweptNumbers
<1>4. /\ DOMAIN F = DOMAIN A
      /\ \A p \in DOMAIN A : p \in T /\ F[p] \in BallotOption
  BY DEF Planned
<1>. QED  BY <1>1, <1>2, <1>3, <1>4

LEMMA SweptStart ==
  ASSUME NEW w, NEW T, NEW F, NEW A, Planned(w, T, F, A),
         NEW k, \A s \in T : ~(s < k)
  PROVE  Swept(w, T, F, A, k, w)
<1>1. /\ GoodWindow(w, BallotOption) /\ Logged(w) /\ w.max \in BallotOption
      /\ w.end \in Nat /\ DOMAIN F = DOMAIN A /\ \A p \in DOMAIN A : p \in T
  BY PlannedNumbers
<1>2. w.max = FreshPromise(w, F, k)
  BY <1>1, FreshFirst
<1>3. \A s \in WindowSlot : ~(w.end <= s /\ s < w.end)
  BY <1>1, SlotBound
<1>. QED  BY <1>1, <1>2, <1>3 DEF Swept

LEMMA SweptPassed ==
  ASSUME NEW w, NEW T, NEW F, NEW A, Planned(w, T, F, A),
         NEW k \in Nat, k \notin T, NEW x, Swept(w, T, F, A, k, x)
  PROVE  Swept(w, T, F, A, k + 1, x)
<1>1. /\ DOMAIN F = DOMAIN A
      /\ \A p \in DOMAIN A : p \in T
      /\ \A p \in T : p \in WindowSlot /\ p \in Nat
  BY PlannedNumbers
<1>2. \A p \in T : p < k + 1 <=> p < k
  BY <1>1
<1>3. FreshPromise(w, F, k) = FreshPromise(w, F, k + 1)
  <2>1. DOMAIN F \subseteq WindowSlot /\ \A p \in DOMAIN F : p < k + 1 => p < k
    BY <1>1, <1>2
  <2>2. k <= k + 1 /\ k + 1 \in Nat
    OBVIOUS
  <2>. QED  BY <2>1, <2>2, FreshSame
<1>4. /\ GoodWindow(x, BallotOption) /\ Logged(x)
      /\ x.max = FreshPromise(w, F, k + 1) /\ w.end <= x.end
  BY <1>3 DEF Swept
<1>5. /\ \A s \in T : s < k + 1 => s < x.end
      /\ x.end = w.end \/ x.end - 1 = x.min \/ (x.end - 1 \in T /\ x.end - 1 < k + 1)
  BY <1>2 DEF Swept
<1>6. \A s \in WindowSlot : s \in DOMAIN A /\ s < k + 1 => x.acc[s] = A[s]
  BY <1>1, <1>2 DEF Swept
<1>7. \A s \in WindowSlot :
        ~(s \in DOMAIN A /\ s < k + 1) =>
          /\ s < w.end => x.acc[s] = w.acc[s]
          /\ w.end <= s /\ s < x.end => x.acc[s] = AwaitValue(FreshPromise(w, F, s))
  BY <1>1, <1>2 DEF Swept
<1>. QED  BY <1>4, <1>5, <1>6, <1>7 DEF Swept

LEMMA SweptFilled ==
  ASSUME NEW w, NEW T, NEW F, NEW A, Planned(w, T, F, A),
         NEW k \in T, k \notin DOMAIN A, NEW x, Swept(w, T, F, A, k, x)
  PROVE  Swept(w, T, F, A, k + 1, OpenUpTo(x, <<>>, k))
<1>1. /\ DOMAIN F = DOMAIN A /\ w.end \in Nat
      /\ \A p \in DOMAIN A : p \in T
      /\ \A p \in T : p \in WindowSlot /\ p \in Nat
      /\ ~ResolvedAt(w, k)
  BY PlannedNumbers DEF Planned
<1>2. k \in WindowSlot /\ k \in Nat
  BY <1>1
<1>3. PICK y : y = OpenUpTo(x, <<>>, k)
  OBVIOUS
<1>4. /\ GoodWindow(y, BallotOption) /\ Logged(y)
      /\ y.min = x.min /\ y.max = x.max /\ k < y.end
      /\ x.end <= k => y.end = k + 1
      /\ k < x.end => y.end = x.end
      /\ \A t \in WindowSlot :
           /\ ~(x.end <= t /\ t <= k) => y.acc[t] = x.acc[t]
           /\ x.end <= t /\ t <= k => y.acc[t] = AwaitValue(FreshPromise(w, F, t))
  BY <1>1, <1>2, <1>3, SweptOpened
<1>5. x.end \in Nat /\ w.end <= x.end /\ x.max = FreshPromise(w, F, k)
  BY SweptNumbers DEF Swept
<1>6. \A p \in DOMAIN A : p < k + 1 <=> p < k
  <2>1. \A p \in DOMAIN A : p \in Nat /\ p # k
    BY <1>1
  <2>. QED  BY <1>2, <2>1
<1>7. FreshPromise(w, F, k) = FreshPromise(w, F, k + 1)
  <2>1. DOMAIN F \subseteq WindowSlot /\ \A p \in DOMAIN F : p < k + 1 => p < k
    BY <1>1, <1>6
  <2>2. k <= k + 1 /\ k + 1 \in Nat
    BY <1>2
  <2>. QED  BY <1>2, <2>1, <2>2, FreshSame
<1>8. y.max = FreshPromise(w, F, k + 1)
  BY <1>4, <1>5, <1>7
<1>9. w.end <= y.end /\ x.end <= y.end
  BY <1>1, <1>2, <1>4, <1>5
<1>10. \A s \in T : s < k + 1 => s < y.end
  <2>1. \A s \in T : s < k => s < x.end
    BY DEF Swept
  <2>. QED  BY <1>1, <1>2, <1>4, <1>5, <2>1
<1>11. y.end = w.end \/ y.end - 1 = y.min \/ (y.end - 1 \in T /\ y.end - 1 < k + 1)
  <2>1. CASE x.end <= k
    BY <1>2, <1>4, <2>1
  <2>2. CASE k < x.end
    <3>1. x.end = w.end \/ x.end - 1 = x.min \/ (x.end - 1 \in T /\ x.end - 1 < k)
      BY DEF Swept
    <3>. QED  BY <1>2, <1>4, <1>5, <2>2, <3>1
  <2>. QED  BY <1>2, <1>5, <2>1, <2>2
<1>12. \A s \in WindowSlot : s \in DOMAIN A /\ s < k + 1 => y.acc[s] = A[s]
  <2>1. SUFFICES ASSUME NEW s \in WindowSlot, s \in DOMAIN A, s < k + 1
                 PROVE  y.acc[s] = A[s]
    OBVIOUS
  <2>2. s < k /\ s \in T /\ s \in Nat
    BY <1>1, <1>6, <2>1
  <2>3. x.acc[s] = A[s] /\ s < x.end
    BY <2>1, <2>2 DEF Swept
  <2>. QED  BY <1>4, <1>5, <2>2, <2>3
<1>13. \A s \in WindowSlot :
         ~(s \in DOMAIN A /\ s < k + 1) =>
           /\ s < w.end => y.acc[s] = w.acc[s]
           /\ w.end <= s /\ s < y.end => y.acc[s] = AwaitValue(FreshPromise(w, F, s))
  <2>1. SUFFICES ASSUME NEW s \in WindowSlot, ~(s \in DOMAIN A /\ s < k + 1)
                 PROVE  /\ s < w.end => y.acc[s] = w.acc[s]
                        /\ w.end <= s /\ s < y.end =>
                             y.acc[s] = AwaitValue(FreshPromise(w, F, s))
    OBVIOUS
  <2>2. s \in Nat
    BY SlotBound
  <2>3. ~(s \in DOMAIN A /\ s < k)
    BY <1>6, <2>1
  <2>4. /\ s < w.end => x.acc[s] = w.acc[s]
        /\ w.end <= s /\ s < x.end => x.acc[s] = AwaitValue(FreshPromise(w, F, s))
    BY <2>3 DEF Swept
  <2>5. s < y.end => s < x.end \/ (x.end <= s /\ s <= k)
    BY <1>2, <1>4, <1>5, <2>2
  <2>. QED  BY <1>1, <1>4, <1>5, <2>2, <2>4, <2>5
<1>. QED
  BY <1>3, <1>4, <1>8, <1>9, <1>10, <1>11, <1>12, <1>13 DEF Swept

(***************************************************************************)
(* The window after the acceptor of slot k has changed: fill_decisions     *)
(* moves `min` to the first unresolved slot m, which it may have to open.  *)
(***************************************************************************)
LEMMA PutShape ==
  ASSUME NEW y, GoodWindow(y, BallotOption), Shape(y), NEW k \in WindowSlot,
         k \in OpenRange(y), NEW a
  PROVE  Shape(Put(y, k, a))
<1>1. y.min \in Nat /\ y.end \in Nat
  BY SweptNumbers
<1>7. k \in Nat /\ y.min <= k /\ k < y.end
  BY <1>1, SlotBound DEF OpenRange
<1>2. PICK z : z = Put(y, k, a)
  OBVIOUS
<1>3. /\ z.min = y.min /\ z.end = y.end
      /\ \A t \in WindowSlot : t # k => z.acc[t] = y.acc[t]
  <2>1. /\ Put(y, k, a).min = y.min /\ Put(y, k, a).end = y.end
        /\ \A t \in WindowSlot : Put(y, k, a).acc[t] = IF t = k THEN a ELSE y.acc[t]
    <3>1. IsWindow(y)
      BY GoodIsWindow
    <3>. QED  BY <3>1, PutIs
  <2>. QED  BY <1>2, <2>1
<1>4. \A t \in WindowSlot : t \in Nat
  BY SlotBound
<1>5. \A t \in WindowSlot : t < z.min => ResolvedAt(z, t)
  BY <1>1, <1>3, <1>4, <1>7 DEF Shape, ResolvedAt
<1>6. \A t \in WindowSlot : EmptyAt(z, t) => z.acc[t] = Unopened
  <2>1. \A t \in WindowSlot : EmptyAt(z, t) => EmptyAt(y, t) /\ t # k
    BY <1>1, <1>3, <1>4, <1>7 DEF EmptyAt
  <2>. QED  BY <1>3, <2>1 DEF Shape
<1>. QED  BY <1>2, <1>5, <1>6 DEF Shape

LEMMA PutNext ==
  ASSUME NEW y, GoodWindow(y, BallotOption), Logged(y), NEW k \in WindowSlot,
         k \in OpenRange(y), NEW a, GoodAcceptor(a, BallotOption),
         k = MaxSlot + 1 => ~HasValue(a)
  PROVE  \E m \in WindowSlot :
           LET f == FillDecisions(Put(y, k, a))
           IN  /\ GoodWindow(f, BallotOption) /\ Logged(f)
               /\ f.min = m /\ f.max = Higher(y.max, a.promised)
               /\ m <= y.end
               /\ m = y.end => f.end = y.end + 1
               /\ m < y.end => f.end = y.end
               /\ f.acc[k] = a
               /\ \A t \in WindowSlot : t # k /\ t < y.end => f.acc[t] = y.acc[t]
               /\ m = y.end => f.acc[m] = AwaitValue(f.max)
               /\ \A t \in WindowSlot :
                    y.min <= t /\ t < m /\ t # k => ResolvedAt(y, t)
<1>1. PICK z : z = Put(y, k, a)
  OBVIOUS
<1>2. y.min \in Nat /\ y.end \in Nat /\ k \in Nat /\ y.min <= k /\ k < y.end
  BY SweptNumbers, SlotBound DEF OpenRange
<1>3. /\ IsWindow(z) /\ z.min = y.min /\ z.end = y.end
      /\ z.max = Higher(y.max, a.promised)
      /\ \A t \in WindowSlot : z.acc[t] = IF t = k THEN a ELSE y.acc[t]
  <2>1. /\ IsWindow(Put(y, k, a))
        /\ Put(y, k, a).min = y.min /\ Put(y, k, a).end = y.end
        /\ Put(y, k, a).max = Higher(y.max, a.promised)
        /\ \A t \in WindowSlot : Put(y, k, a).acc[t] = IF t = k THEN a ELSE y.acc[t]
    <3>1. IsWindow(y)
      BY GoodIsWindow
    <3>. QED  BY <3>1, PutIs
  <2>. QED  BY <1>1, <2>1
<1>4. GoodWindow(z, BallotOption)
  BY <1>1, PutGood
<1>5. Shape(z)
  BY <1>1, PutShape DEF Logged
<1>6. PICK f : f = FillDecisions(z)
  OBVIOUS
<1>7. GoodWindow(f, BallotOption) /\ Logged(f)
  BY <1>4, <1>5, <1>6, AllBallots, FillDecisionsGood, FillDecisionsLogged
<1>8. PICK m : m = FirstUnresolved(z)
  OBVIOUS
<1>9. m \in y.min..y.end /\ m \in WindowSlot /\ \A t \in y.min..(m - 1) : ResolvedAt(z, t)
  BY <1>3, <1>4, <1>8, FirstUnresolvedIn
<1>10. z.max \in BallotOption
  BY <1>4, SweptNumbers
<1>11. /\ f.min = m /\ f.max = z.max
       /\ (y.end <= m => f.end = m + 1) /\ (~(y.end <= m) => f.end = y.end)
       /\ \A t \in WindowSlot :
            f.acc[t] = IF y.end <= t /\ t <= m THEN AwaitValue(z.max) ELSE z.acc[t]
  BY <1>3, <1>6, <1>8, <1>10, FillDecisionsIs
<1>12. \A t \in WindowSlot : t \in Nat
  BY SlotBound
<1>13. f.acc[k] = a /\ \A t \in WindowSlot : t # k /\ t < y.end => f.acc[t] = y.acc[t]
  BY <1>2, <1>3, <1>9, <1>11, <1>12
<1>14. m = y.end => f.acc[m] = AwaitValue(f.max)
  BY <1>2, <1>9, <1>11, <1>12
<1>15. ASSUME NEW t \in WindowSlot, y.min <= t, t < m, t # k
       PROVE  ResolvedAt(y, t)
  <2>1. t \in y.min..(m - 1)
    BY <1>2, <1>9, <1>12, <1>15
  <2>. QED  BY <1>3, <1>9, <1>15, <2>1 DEF ResolvedAt
<1>16. m <= y.end /\ (m = y.end => f.end = y.end + 1) /\ (m < y.end => f.end = y.end)
  BY <1>2, <1>9, <1>11
<1>17. f.min = m /\ f.max = Higher(y.max, a.promised)
  BY <1>3, <1>11
<1>. QED  BY <1>1, <1>6, <1>7, <1>9, <1>13, <1>14, <1>15, <1>16, <1>17

LEMMA SweptVisited ==
  ASSUME NEW w, NEW T, NEW F, NEW A, Planned(w, T, F, A),
         NEW k \in DOMAIN A, NEW x, Swept(w, T, F, A, k, x)
  PROVE  /\ k \in OpenRange(OpenUpTo(x, <<>>, k))
         /\ GoodWindow(OpenUpTo(x, <<>>, k), BallotOption)
         /\ Swept(w, T, F, A, k + 1, FillDecisions(Put(OpenUpTo(x, <<>>, k), k, A[k])))
<1>1. /\ DOMAIN F = DOMAIN A /\ w.end \in Nat
      /\ \A p \in DOMAIN A : p \in T
      /\ \A p \in T : p \in WindowSlot /\ p \in Nat /\ ~ResolvedAt(w, p)
  BY PlannedNumbers DEF Planned
<1>2. k \in WindowSlot /\ k \in Nat /\ k \in T /\ ~ResolvedAt(w, k)
  BY <1>1
<1>3. PICK y : y = OpenUpTo(x, <<>>, k)
  OBVIOUS
<1>4. /\ GoodWindow(y, BallotOption) /\ Logged(y)
      /\ y.min = x.min /\ y.max = x.max /\ x.min <= k /\ k < y.end
      /\ x.end <= k => y.end = k + 1
      /\ k < x.end => y.end = x.end
      /\ \A t \in WindowSlot :
           /\ ~(x.end <= t /\ t <= k) => y.acc[t] = x.acc[t]
           /\ x.end <= t /\ t <= k => y.acc[t] = AwaitValue(FreshPromise(w, F, t))
  BY <1>2, <1>3, SweptOpened
<1>5. x.end \in Nat /\ x.min \in Nat /\ w.end <= x.end /\ x.max = FreshPromise(w, F, k)
  BY SweptNumbers DEF Swept
<1>6. y.min \in Nat /\ y.end \in Nat /\ x.end <= y.end
  BY <1>2, <1>4, <1>5
<1>7. k \in OpenRange(y)
  BY <1>2, <1>4, <1>5, <1>6 DEF OpenRange
<1>8. PICK a : a = A[k]
  OBVIOUS
<1>9. GoodAcceptor(a, BallotOption) /\ (k = MaxSlot + 1 => ~HasValue(a))
  BY <1>8 DEF Planned
<1>10. PICK f : f = FillDecisions(Put(y, k, a))
  OBVIOUS
<1>11. PICK m \in WindowSlot :
         /\ GoodWindow(f, BallotOption) /\ Logged(f)
         /\ f.min = m /\ f.max = Higher(y.max, a.promised)
         /\ m <= y.end
         /\ m = y.end => f.end = y.end + 1
         /\ m < y.end => f.end = y.end
         /\ f.acc[k] = a
         /\ \A t \in WindowSlot : t # k /\ t < y.end => f.acc[t] = y.acc[t]
         /\ m = y.end => f.acc[m] = AwaitValue(f.max)
         /\ \A t \in WindowSlot : y.min <= t /\ t < m /\ t # k => ResolvedAt(y, t)
  BY <1>2, <1>4, <1>7, <1>9, <1>10, PutNext
<1>12. m \in Nat /\ f.end \in Nat /\ y.end <= f.end
  <2>1. m \in Nat
    BY SlotBound
  <2>. QED  BY <1>6, <1>11, <2>1
<1>13. f.max = FreshPromise(w, F, k + 1)
  BY <1>4, <1>5, <1>8, <1>11, FreshNext
<1>14. \A p \in T : p < k + 1 <=> p < k \/ p = k
  BY <1>1, <1>2
<1>15. \A s \in T : s < k + 1 => s < f.end
  <2>1. \A s \in T : s < k => s < x.end
    BY DEF Swept
  <2>. QED  BY <1>1, <1>2, <1>4, <1>5, <1>6, <1>12, <1>14, <2>1
<1>16. f.end = w.end \/ f.end - 1 = f.min \/ (f.end - 1 \in T /\ f.end - 1 < k + 1)
  <2>1. CASE m = y.end
    BY <1>6, <1>11, <2>1
  <2>2. CASE m < y.end
    <3>1. f.end = y.end
      BY <1>11, <2>2
    <3>2. CASE x.end <= k
      BY <1>2, <1>4, <3>1, <3>2
    <3>3. CASE k < x.end
      <4>1. x.end = w.end \/ x.end - 1 = x.min \/ (x.end - 1 \in T /\ x.end - 1 < k)
        BY DEF Swept
      <4>2. x.end - 1 = x.min => x.end - 1 = k
        BY <1>2, <1>4, <1>5, <3>3
      <4>. QED  BY <1>2, <1>4, <1>5, <3>1, <3>3, <4>1, <4>2
    <3>. QED  BY <1>2, <1>5, <3>2, <3>3
  <2>. QED  BY <1>6, <1>11, <1>12, <2>1, <2>2
<1>17. ASSUME NEW s \in WindowSlot, s \in DOMAIN A, s < k + 1
       PROVE  f.acc[s] = A[s]
  <2>1. s \in T /\ s \in Nat
    BY <1>1, <1>17
  <2>2. CASE s = k
    BY <1>8, <1>11, <2>2
  <2>3. CASE s < k
    <3>1. x.acc[s] = A[s] /\ s < x.end
      BY <1>17, <2>1, <2>3 DEF Swept
    <3>2. y.acc[s] = x.acc[s] /\ s < y.end /\ s # k
      BY <1>2, <1>4, <1>5, <1>6, <2>1, <2>3, <3>1
    <3>. QED  BY <1>11, <3>1, <3>2
  <2>. QED  BY <1>14, <1>17, <2>1, <2>2, <2>3
<1>18. ASSUME NEW s \in WindowSlot, ~(s \in DOMAIN A /\ s < k + 1)
       PROVE  /\ s < w.end => f.acc[s] = w.acc[s]
              /\ w.end <= s /\ s < f.end => f.acc[s] = AwaitValue(FreshPromise(w, F, s))
  <2>1. s \in Nat
    BY SlotBound
  <2>2. s # k /\ ~(s \in DOMAIN A /\ s < k)
    BY <1>2, <1>18, <2>1
  <2>3. /\ s < w.end => x.acc[s] = w.acc[s]
        /\ w.end <= s /\ s < x.end => x.acc[s] = AwaitValue(FreshPromise(w, F, s))
    BY <2>2 DEF Swept
  <2>4. s < w.end => f.acc[s] = w.acc[s]
    BY <1>1, <1>4, <1>5, <1>6, <1>11, <2>1, <2>2, <2>3
  <2>5. ASSUME w.end <= s, s < y.end
        PROVE  f.acc[s] = AwaitValue(FreshPromise(w, F, s))
    <3>1. s < x.end \/ (x.end <= s /\ s <= k)
      BY <1>2, <1>4, <1>5, <2>1, <2>5
    <3>2. y.acc[s] = AwaitValue(FreshPromise(w, F, s))
      BY <1>4, <1>5, <2>1, <2>3, <2>5, <3>1
    <3>. QED  BY <1>11, <2>2, <2>5, <3>2
  <2>6. ASSUME y.end <= s, s < f.end
        PROVE  f.acc[s] = AwaitValue(FreshPromise(w, F, s))
    <3>1. s = m /\ m = y.end
      BY <1>6, <1>11, <1>12, <2>1, <2>6
    <3>2. \A p \in DOMAIN F : p < m => p < k + 1
      <4>1. SUFFICES ASSUME NEW p \in DOMAIN F, p < m, ~(p < k + 1) PROVE FALSE
        OBVIOUS
      <4>2. p \in WindowSlot /\ p \in Nat /\ ~ResolvedAt(w, p)
        BY <1>1, <4>1
      <4>3. y.min <= p /\ p # k /\ ~(p < k)
        BY <1>2, <1>4, <1>5, <4>1, <4>2
      <4>4. ResolvedAt(y, p)
        BY <1>11, <4>1, <4>2, <4>3
      <4>5. ~ResolvedAt(x, p)
        BY <4>2, <4>3, SweptAhead
      <4>6. y.acc[p] = x.acc[p]
        BY <1>2, <1>4, <1>5, <4>1, <4>2
      <4>. QED  BY <4>4, <4>5, <4>6 DEF ResolvedAt
    <3>3. FreshPromise(w, F, k + 1) = FreshPromise(w, F, m)
      <4>1. DOMAIN F \subseteq WindowSlot
        BY <1>1
      <4>2. k + 1 \in Nat /\ k + 1 <= m
        BY <1>2, <1>4, <1>6, <1>12, <3>1
      <4>. QED  BY <1>12, <3>2, <4>1, <4>2, FreshSame
    <3>. QED  BY <1>11, <1>13, <3>1, <3>3
  <2>. QED  BY <1>6, <1>12, <2>1, <2>4, <2>5, <2>6
<1>19. Swept(w, T, F, A, k + 1, f)
  BY <1>1, <1>5, <1>6, <1>11, <1>12, <1>13, <1>15, <1>16, <1>17, <1>18 DEF Swept
<1>. QED  BY <1>3, <1>4, <1>7, <1>8, <1>10, <1>19

(***************************************************************************)
(* The loop has visited its last slot.                                     *)
(***************************************************************************)
LEMMA TopPromise ==
  ASSUME NEW w, NEW T, NEW F, NEW A, Planned(w, T, F, A),
         NEW k \in Nat, \A s \in DOMAIN A : s < k
  PROVE  Highest({w.max} \cup {A[s].promised : s \in DOMAIN A}) = FreshPromise(w, F, k)
<1>. DEFINE H == {w.max} \cup {A[s].promised : s \in DOMAIN A}
<1>1. /\ w.max \in BallotOption /\ DOMAIN F = DOMAIN A /\ DOMAIN F \subseteq WindowSlot
      /\ \A p \in DOMAIN A : F[p] \in BallotOption /\ p \in Nat /\ p < k
      /\ \A p \in DOMAIN F : F[p] \in BallotOption
  BY PlannedNumbers
<1>2. \A p \in DOMAIN A :
        /\ A[p].promised \in BallotOption /\ AtMost(F[p], A[p].promised)
        /\ AtMost(A[p].promised, FreshPromise(w, F, p + 1))
  BY DEF Planned, GoodAcceptor
<1>3. /\ H \in SUBSET BallotOption /\ H # {} /\ w.max \in H
      /\ \A p \in DOMAIN A : A[p].promised \in H
      /\ \A b \in H : b = w.max \/ \E p \in DOMAIN A : b = A[p].promised
  BY <1>1, <1>2
<1>. HIDE DEF H
<1>4. PICK h : h = Highest(H)
  OBVIOUS
<1>5. h \in H /\ h \in BallotOption /\ \A c \in H : AtMost(c, h)
  BY <1>3, <1>4, HighestIn
<1>6. PICK f : f = FreshPromise(w, F, k)
  OBVIOUS
<1>7. /\ f \in BallotOption /\ AtMost(w.max, f)
      /\ f = w.max \/ \E p \in DOMAIN A : f = F[p]
  <2>1. /\ f \in BallotOption /\ AtMost(w.max, f)
        /\ f = w.max \/ \E p \in Below(F, k) : f = F[p]
    BY <1>1, <1>6, FreshPromiseIs
  <2>. QED  BY <1>1, <2>1 DEF Below
<1>8. ASSUME NEW p \in DOMAIN A
      PROVE  AtMost(A[p].promised, f)
  <2>1. p + 1 \in Nat /\ p + 1 <= k
    BY <1>1
  <2>2. AtMost(FreshPromise(w, F, p + 1), f)
    BY <1>1, <1>6, <2>1, FreshGrows
  <2>3. FreshPromise(w, F, p + 1) \in BallotOption
    BY <1>1, FreshPromiseIs
  <2>. QED  BY <1>2, <1>7, <2>2, <2>3, BallotOrder
<1>9. AtMost(h, f)
  BY <1>3, <1>5, <1>7, <1>8
<1>10. AtMost(f, h)
  <2>1. ASSUME NEW p \in DOMAIN A, f = F[p] PROVE AtMost(f, h)
    BY <1>1, <1>2, <1>3, <1>5, <2>1, BallotOrder
  <2>. QED  BY <1>3, <1>5, <1>7, <2>1
<1>11. h = f
  BY <1>5, <1>7, <1>9, <1>10, BallotOrder DEF AtMost
<1>. QED  BY <1>4, <1>6, <1>11 DEF H

LEMMA FreshLast ==
  ASSUME NEW w, NEW F, NEW k, NEW t, \A p \in DOMAIN F : p < k /\ p < t
  PROVE  FreshPromise(w, F, t) = FreshPromise(w, F, k)
<1>1. Below(F, t) = Below(F, k)
  BY DEF Below
<1>. QED  BY <1>1 DEF FreshPromise

Visited(w, F, A, last) == Update(OpenUpTo(w, F, last), A)

LEMMA VisitedFields ==
  ASSUME NEW w, IsWindow(w), NEW F, NEW A, NEW last
  PROVE  LET u == Visited(w, F, A, last)
         IN  /\ u.min = w.min
             /\ u.max = Highest({w.max} \cup {A[s].promised : s \in DOMAIN A})
             /\ (w.end <= last => u.end = last + 1) /\ (~(w.end <= last) => u.end = w.end)
             /\ \A t \in WindowSlot :
                  /\ t \in DOMAIN A => u.acc[t] = A[t]
                  /\ t \notin DOMAIN A =>
                       u.acc[t] = IF w.end <= t /\ t <= last
                                    THEN AwaitValue(FreshPromise(w, F, t))
                                    ELSE w.acc[t]
<1>1. PICK o : o = OpenUpTo(w, F, last)
  OBVIOUS
<1>2. /\ IsWindow(o) /\ o.min = w.min /\ o.max = w.max
      /\ (w.end <= last => o.end = last + 1) /\ (~(w.end <= last) => o.end = w.end)
      /\ \A t \in WindowSlot :
           o.acc[t] = IF w.end <= t /\ t <= last
                        THEN AwaitValue(FreshPromise(w, F, t))
                        ELSE w.acc[t]
  BY <1>1, OpenUpToIs
<1>3. /\ Update(o, A).min = o.min /\ Update(o, A).end = o.end
      /\ Update(o, A).max = Highest({o.max} \cup {A[s].promised : s \in DOMAIN A})
      /\ \A t \in WindowSlot : Update(o, A).acc[t] = IF t \in DOMAIN A THEN A[t] ELSE o.acc[t]
  <2>1. IsWindow(o)
    BY <1>2
  <2>. QED  BY <2>1, UpdateIs
<1>4. Visited(w, F, A, last) = Update(o, A)
  BY <1>1 DEF Visited
<1>. QED  BY <1>2, <1>3, <1>4

LEMMA VisitedIs ==
  ASSUME NEW w, NEW T, NEW F, NEW A, Planned(w, T, F, A),
         NEW k \in Nat, \A s \in DOMAIN A : s < k, NEW last \in WindowSlot
  PROVE  LET u == Visited(w, F, A, last)
         IN  /\ GoodWindow(u, BallotOption)
             /\ u.min = w.min /\ u.max = FreshPromise(w, F, k)
             /\ (w.end <= last => u.end = last + 1) /\ (~(w.end <= last) => u.end = w.end)
             /\ \A t \in DOMAIN A : u.acc[t] = A[t]
             /\ \A t \in WindowSlot : t \notin DOMAIN A =>
                  u.acc[t] = IF w.end <= t /\ t <= last
                               THEN AwaitValue(FreshPromise(w, F, t))
                               ELSE w.acc[t]
<1>1. PICK o : o = OpenUpTo(w, F, last)
  OBVIOUS
<1>2. PICK u : u = Visited(w, F, A, last)
  OBVIOUS
<1>3. u = Update(o, A)
  BY <1>1, <1>2 DEF Visited
<1>4. GoodWindow(w, BallotOption) /\ DOMAIN A \in SUBSET WindowSlot
  BY PlannedNumbers
<1>5. F \in [DOMAIN A -> BallotOption]
  BY DEF Planned
<1>6. GoodWindow(o, BallotOption)
  BY <1>1, <1>4, <1>5, AllBallots, OpenUpToGood
<1>7. /\ \A s \in DOMAIN A : GoodAcceptor(A[s], BallotOption)
      /\ MaxSlot + 1 \in DOMAIN A => ~HasValue(A[MaxSlot + 1])
      /\ A = [s \in DOMAIN A |-> A[s]]
  BY DEF Planned
<1>8. GoodWindow(u, BallotOption)
  BY <1>3, <1>4, <1>6, <1>7, AllBallots, UpdateGood
<1>9. /\ u.min = w.min
      /\ u.max = Highest({w.max} \cup {A[s].promised : s \in DOMAIN A})
      /\ (w.end <= last => u.end = last + 1) /\ (~(w.end <= last) => u.end = w.end)
      /\ \A t \in WindowSlot :
           /\ t \in DOMAIN A => u.acc[t] = A[t]
           /\ t \notin DOMAIN A =>
                u.acc[t] = IF w.end <= t /\ t <= last
                             THEN AwaitValue(FreshPromise(w, F, t))
                             ELSE w.acc[t]
  <2>1. IsWindow(w)
    BY <1>4, GoodIsWindow
  <2>. QED  BY <1>2, <2>1, VisitedFields
<1>12. u.max = FreshPromise(w, F, k)
  BY <1>9, TopPromise
<1>13. \A t \in DOMAIN A : u.acc[t] = A[t]
  BY <1>4, <1>9
<1>. QED  BY <1>2, <1>8, <1>9, <1>12, <1>13

LEMMA SweptEnd ==
  ASSUME NEW w, NEW T, NEW F, NEW A, Planned(w, T, F, A),
         NEW k \in Nat, \A s \in T : s < k, NEW last \in WindowSlot,
         \A s \in T : w.end <= s => s <= last, w.end <= last => last \in T,
         NEW x, Swept(w, T, F, A, k, x)
  PROVE  x = FillDecisions(Visited(w, F, A, last))
<1>1. /\ GoodWindow(w, BallotOption) /\ Logged(w) /\ w.end \in Nat /\ w.min \in Nat
      /\ w.min < w.end /\ DOMAIN F = DOMAIN A
      /\ \A p \in DOMAIN A : p \in T
      /\ \A p \in T : p \in WindowSlot /\ p \in Nat /\ ~ResolvedAt(w, p)
  <2>1. GoodWindow(w, BallotOption) /\ \A p \in T : ~ResolvedAt(w, p)
    BY DEF Planned, Sound
  <2>2. w.min < w.end
    BY <2>1, SweptNumbers
  <2>. QED  BY <2>1, <2>2, PlannedNumbers
<1>2. PICK u : u = Visited(w, F, A, last)
  OBVIOUS
<1>3. \A s \in DOMAIN A : s < k
  BY <1>1
<1>4. /\ GoodWindow(u, BallotOption)
      /\ u.min = w.min /\ u.max = FreshPromise(w, F, k)
      /\ (w.end <= last => u.end = last + 1) /\ (~(w.end <= last) => u.end = w.end)
      /\ \A t \in DOMAIN A : u.acc[t] = A[t]
      /\ \A t \in WindowSlot : t \notin DOMAIN A =>
           u.acc[t] = IF w.end <= t /\ t <= last
                        THEN AwaitValue(FreshPromise(w, F, t))
                        ELSE w.acc[t]
  BY <1>2, <1>3, VisitedIs
<1>5. /\ GoodWindow(x, BallotOption) /\ Logged(x)
      /\ x.max = FreshPromise(w, F, k) /\ w.end <= x.end
      /\ \A s \in T : s < x.end
      /\ x.end = w.end \/ x.end - 1 = x.min \/ (x.end - 1 \in T /\ x.end - 1 < k)
  BY DEF Swept
<1>6. /\ x.min \in Nat /\ x.end \in Nat /\ x.min < x.end /\ IsWindow(x)
      /\ u.end \in Nat /\ u.max \in BallotOption /\ IsWindow(u) /\ last \in Nat
  BY <1>4, <1>5, SweptNumbers, SlotBound
<1>7. \A t \in WindowSlot : t \in Nat
  BY SlotBound
<1>8. \A t \in T : t < u.end
  BY <1>1, <1>4, <1>6
<1>9. w.end <= u.end /\ u.end <= x.end
  BY <1>1, <1>4, <1>5, <1>6
<1>10. ASSUME NEW t \in WindowSlot, t < u.end
       PROVE  x.acc[t] = u.acc[t]
  <2>1. CASE t \in DOMAIN A
    BY <1>3, <1>4, <2>1 DEF Swept
  <2>2. CASE t \notin DOMAIN A
    <3>1. /\ t < w.end => x.acc[t] = w.acc[t]
          /\ w.end <= t /\ t < x.end => x.acc[t] = AwaitValue(FreshPromise(w, F, t))
      BY <2>2 DEF Swept
    <3>. QED  BY <1>1, <1>4, <1>6, <1>7, <1>9, <1>10, <2>2, <3>1
  <2>. QED  BY <2>1, <2>2
<1>11. ASSUME NEW t \in WindowSlot, u.end <= t
       PROVE  /\ t \notin DOMAIN A /\ u.acc[t] = Unopened
              /\ t < x.end => x.acc[t] = AwaitValue(FreshPromise(w, F, t))
              /\ x.end <= t => x.acc[t] = Unopened
  <2>1. t \notin DOMAIN A
    BY <1>1, <1>6, <1>7, <1>8, <1>11
  <2>2. w.end <= t /\ ~(t <= last /\ w.end <= t)
    <3>1. t \in Nat
      BY <1>7
    <3>2. w.end <= t
      BY <1>1, <1>6, <1>9, <1>11, <3>1
    <3>3. ~(t <= last)
      BY <1>1, <1>4, <1>6, <1>11, <3>1, <3>2
    <3>. QED  BY <3>2, <3>3
  <2>3. u.acc[t] = w.acc[t]
    BY <1>4, <2>1, <2>2
  <2>4. w.acc[t] = Unopened
    BY <1>1, <2>2 DEF Logged, Shape, EmptyAt
  <2>5. t < x.end => x.acc[t] = AwaitValue(FreshPromise(w, F, t))
    BY <2>1, <2>2 DEF Swept
  <2>6. x.end <= t => x.acc[t] = Unopened
    BY <1>5, <1>6, <1>7 DEF Logged, Shape, EmptyAt
  <2>. QED  BY <2>1, <2>3, <2>4, <2>5, <2>6
<1>12. \A t \in WindowSlot : t < x.min => ResolvedAt(x, t)
  BY <1>5 DEF Logged, Shape
<1>13. ~ResolvedAt(x, x.min) /\ x.min \in WindowSlot
  BY <1>5, WindowFields DEF Logged, GoodWindow
<1>14. w.min <= x.min
  <2>1. SUFFICES ASSUME x.min < w.min PROVE FALSE
    BY <1>1, <1>6
  <2>2. ResolvedAt(w, x.min)
    BY <1>1, <1>13, <2>1 DEF Logged, Shape
  <2>3. x.min \notin DOMAIN A /\ x.min < w.end
    BY <1>1, <1>6, <2>1, <2>2
  <2>4. x.acc[x.min] = w.acc[x.min]
    BY <1>13, <2>3 DEF Swept
  <2>. QED  BY <1>13, <2>2, <2>4 DEF ResolvedAt
<1>15. PICK m : m = FirstUnresolved(u)
  OBVIOUS
<1>16. /\ m \in w.min..u.end /\ m \in WindowSlot /\ m \in Nat
       /\ \A s \in w.min..(m - 1) : ResolvedAt(u, s)
       /\ m < u.end => ~ResolvedAt(u, m)
  BY <1>4, <1>15, <1>7, FirstUnresolvedIn
<1>17. m < u.end => ~(m < x.min)
  BY <1>10, <1>12, <1>16 DEF ResolvedAt
<1>18. x.min < u.end => ~(x.min < m)
  <2>1. SUFFICES ASSUME x.min < u.end, x.min < m PROVE FALSE
    OBVIOUS
  <2>2. x.min \in w.min..(m - 1)
    BY <1>1, <1>6, <1>14, <1>16, <2>1
  <2>. QED  BY <1>10, <1>13, <1>16, <2>1, <2>2 DEF ResolvedAt
<1>19. ~(u.end < x.min)
  <2>1. SUFFICES ASSUME u.end < x.min PROVE FALSE
    OBVIOUS
  <2>2. u.end \in WindowSlot /\ u.end < x.end
    BY <1>6, <1>13, <2>1, MaxSlotAssumption DEF WindowSlot
  <2>3. x.acc[u.end] = AwaitValue(FreshPromise(w, F, u.end))
    BY <1>6, <1>11, <2>2
  <2>. QED  BY <1>12, <2>1, <2>2, <2>3 DEF ResolvedAt, AwaitValue, IsResolved
<1>20. m = x.min
  BY <1>1, <1>6, <1>16, <1>17, <1>18, <1>19
<1>21. PICK f : f = FillDecisions(u)
  OBVIOUS
<1>22. /\ IsWindow(f) /\ f.min = m /\ f.max = u.max
       /\ (u.end <= m => f.end = m + 1) /\ (~(u.end <= m) => f.end = u.end)
       /\ \A t \in WindowSlot :
            f.acc[t] = IF u.end <= t /\ t <= m THEN AwaitValue(u.max) ELSE u.acc[t]
  BY <1>6, <1>15, <1>21, FillDecisionsIs
<1>23. x.end = f.end
  <2>1. x.end - 1 \in T => x.end <= u.end
    <3>1. SUFFICES ASSUME x.end - 1 \in T PROVE x.end <= u.end
      OBVIOUS
    <3>2. x.end - 1 < u.end
      BY <1>8, <3>1
    <3>. QED  BY <1>6, <3>2
  <2>2. CASE u.end <= m
    BY <1>1, <1>5, <1>6, <1>9, <1>20, <1>22, <2>1, <2>2
  <2>3. CASE ~(u.end <= m)
    BY <1>1, <1>5, <1>6, <1>9, <1>16, <1>20, <1>22, <2>1, <2>3
  <2>. QED  BY <2>2, <2>3
<1>24. ASSUME NEW t \in WindowSlot
       PROVE  x.acc[t] = f.acc[t]
  <2>1. t \in Nat
    BY <1>7
  <2>2. CASE t < u.end
    BY <1>6, <1>10, <1>22, <2>1, <2>2
  <2>3. CASE u.end <= t /\ t = m
    <3>1. t < x.end
      BY <1>6, <1>20, <2>3
    <3>2. x.acc[t] = AwaitValue(FreshPromise(w, F, t))
      BY <1>11, <2>3, <3>1
    <3>3. \A p \in DOMAIN F : p < k /\ p < t
      BY <1>1, <1>3, <1>6, <1>8, <2>1, <2>3
    <3>4. FreshPromise(w, F, t) = FreshPromise(w, F, k)
      BY <3>3, FreshLast
    <3>5. t <= m
      BY <2>1, <2>3
    <3>. QED  BY <1>4, <1>22, <2>3, <3>2, <3>4, <3>5
  <2>4. CASE u.end <= t /\ t # m
    <3>1. m <= u.end
      BY <1>1, <1>6, <1>16
    <3>2. x.end <= t /\ ~(t <= m)
      BY <1>6, <1>16, <1>20, <1>22, <1>23, <2>1, <2>4, <3>1
    <3>. QED  BY <1>11, <1>22, <2>4, <3>2
  <2>. QED  BY <1>6, <2>1, <2>2, <2>3, <2>4
<1>. QED  BY <1>2, <1>4, <1>5, <1>6, <1>20, <1>21, <1>22, <1>23, <1>24, SameWindow

-----------------------------------------------------------------------------
(***************************************************************************)
(* The loops: what holds at the start and survives every iteration holds   *)
(* at the end.                                                             *)
(***************************************************************************)
LEMMA CountUp ==
  ASSUME NEW n \in Nat, NEW P, 0 \in P, \A k \in Nat : k < n /\ k \in P => k + 1 \in P
  PROVE  n \in P
<1>. DEFINE S == {k \in 0..n : k \notin P}
<1>1. SUFFICES ASSUME S # {} PROVE FALSE
  BY DEF S
<1>2. S \in SUBSET Nat
  OBVIOUS
<1>3. PICK k \in S : \A j \in S : k <= j
  BY <1>1, <1>2, LeastNatural
<1>4. k \in Nat /\ k # 0 /\ k <= n
  BY <1>3
<1>5. k - 1 \in Nat /\ k - 1 \notin S /\ k - 1 \in 0..n
  BY <1>3, <1>4
<1>6. k - 1 \in P /\ k - 1 < n
  BY <1>4, <1>5
<1>7. (k - 1) + 1 \in P /\ (k - 1) + 1 = k
  BY <1>4, <1>5, <1>6
<1>. QED  BY <1>3, <1>7

Iterated(c, slots, x, k) == IF k \in slots THEN Visit(c, x, k) ELSE x

\* f is the recursive function of Loop, up to its n-th value.
Iterates(c, v, slots, n, f) ==
  f = [k \in 0..n |-> IF k = 0 THEN Start(v) ELSE Iterated(c, slots, f[k - 1], k - 1)]

LEMMA IterationsTo ==
  ASSUME NEW c, NEW v, NEW slots, NEW n \in Nat
  PROVE  \E f : Iterates(c, v, slots, n, f)
<1>. DEFINE P == {m \in Nat : \E f : Iterates(c, v, slots, m, f)}
<1>1. 0 \in P
  <2>1. PICK f : f = [k \in 0..0 |-> Start(v)]
    OBVIOUS
  <2>2. f = [k \in 0..0 |-> IF k = 0 THEN Start(v)
                            ELSE Iterated(c, slots, f[k - 1], k - 1)]
    BY <2>1
  <2>. QED  BY <2>2 DEF Iterates
<1>2. ASSUME NEW m \in Nat, m \in P PROVE m + 1 \in P
  <2>1. PICK f : f = [k \in 0..m |-> IF k = 0 THEN Start(v)
                                     ELSE Iterated(c, slots, f[k - 1], k - 1)]
    BY <1>2 DEF Iterates
  <2>2. PICK g : g = [k \in 0..(m + 1) |-> IF k = m + 1 THEN Iterated(c, slots, f[m], m)
                                           ELSE f[k]]
    OBVIOUS
  <2>3. \A k \in 0..(m + 1) :
          g[k] = IF k = 0 THEN Start(v) ELSE Iterated(c, slots, g[k - 1], k - 1)
    <3>1. TAKE k \in 0..(m + 1)
    <3>2. CASE k = m + 1
      <4>1. g[k] = Iterated(c, slots, f[m], m) /\ g[m] = f[m] /\ k - 1 = m /\ k # 0
        BY <2>2, <3>2
      <4>. QED  BY <4>1
    <3>3. CASE k # m + 1 /\ k # 0
      <4>1. k \in 0..m /\ k - 1 \in 0..m /\ k - 1 \in 0..(m + 1) /\ k - 1 # m + 1
        BY <3>3
      <4>2. g[k] = f[k] /\ g[k - 1] = f[k - 1]
        BY <2>2, <3>3, <4>1
      <4>3. f[k] = Iterated(c, slots, f[k - 1], k - 1)
        BY <2>1, <3>3, <4>1
      <4>. QED  BY <3>3, <4>2, <4>3
    <3>4. CASE k = 0
      <4>1. g[0] = f[0] /\ f[0] = Start(v)
        BY <2>1, <2>2
      <4>. QED  BY <3>4, <4>1
    <3>. QED  BY <3>2, <3>3, <3>4
  <2>4. g = [k \in 0..(m + 1) |-> IF k = 0 THEN Start(v)
                                  ELSE Iterated(c, slots, g[k - 1], k - 1)]
    BY <2>2, <2>3
  <2>. QED  BY <2>4 DEF Iterates
<1>. HIDE DEF P
<1>3. n \in P
  BY <1>1, <1>2, CountUp
<1>. QED  BY <1>3 DEF P

LEMMA LoopIs ==
  ASSUME NEW c, NEW v, NEW slots
  PROVE  \E f : /\ f[0] = Start(v)
                /\ \A k \in Nat : k < MaxSlot + 2 => f[k + 1] = Iterated(c, slots, f[k], k)
                /\ Loop(c, v, slots) = f[MaxSlot + 2]
<1>1. MaxSlot + 2 \in Nat
  BY MaxSlotAssumption
<1>2. \E f : f = [k \in 0..(MaxSlot + 2) |->
                    IF k = 0 THEN Start(v) ELSE Iterated(c, slots, f[k - 1], k - 1)]
  <2>1. PICK n \in Nat : n = MaxSlot + 2
    BY <1>1
  <2>2. \E f : Iterates(c, v, slots, n, f)
    BY IterationsTo
  <2>. QED  BY <2>1, <2>2 DEF Iterates
<1>3. \E f : f = [k \in 0..(MaxSlot + 2) |->
                    IF k = 0 THEN Start(v)
                    ELSE IF k - 1 \in slots THEN Visit(c, f[k - 1], k - 1) ELSE f[k - 1]]
  BY <1>2 DEF Iterated
<1>. DEFINE after == CHOOSE f : f = [k \in 0..(MaxSlot + 2) |->
                    IF k = 0 THEN Start(v)
                    ELSE IF k - 1 \in slots THEN Visit(c, f[k - 1], k - 1) ELSE f[k - 1]]
<1>4. after = [k \in 0..(MaxSlot + 2) |->
                    IF k = 0 THEN Start(v)
                    ELSE IF k - 1 \in slots THEN Visit(c, after[k - 1], k - 1) ELSE after[k - 1]]
  BY <1>3
<1>5. Loop(c, v, slots) = after[MaxSlot + 2]
  BY DEF Loop
<1>. HIDE DEF after
<1>6. after[0] = Start(v)
  BY <1>1, <1>4
<1>7. ASSUME NEW k \in Nat, k < MaxSlot + 2
      PROVE  after[k + 1] = Iterated(c, slots, after[k], k)
  <2>1. k + 1 \in 0..(MaxSlot + 2) /\ k + 1 # 0 /\ (k + 1) - 1 = k
    BY <1>1, <1>7
  <2>. QED  BY <1>4, <2>1 DEF Iterated
<1>. QED  BY <1>5, <1>6, <1>7

(***************************************************************************)
(* The vectors in the middle of a loop.                                    *)
(***************************************************************************)
Sweep(w, T, F, A, k, v) == GoodVector(v) /\ Swept(w, T, F, A, k, AsWindow(v))

LEMMA OpenIndicesAs ==
  ASSUME NEW v, GoodVector(v)
  PROVE  OpenIndices(v) = OpenRange(AsWindow(v))
<1>1. v.min \in Nat /\ Len(v.open) \in Nat
  BY VectorNumbers
<1>2. AsWindow(v).min = v.min /\ AsWindow(v).end = v.min + Len(v.open)
  BY AsWindowIs
<1>. QED  BY <1>1, <1>2 DEF OpenIndices, OpenRange

LEMMA AcceptorSettled ==
  ASSUME NEW v, GoodVector(v), NEW s, s \in OpenIndices(v)
  PROVE  Settled(AcceptorAt(v, s))
<1>1. v.min \in Nat /\ Len(v.open) \in Nat
  BY VectorNumbers
<1>2. s - v.min + 1 \in 1..Len(v.open)
  BY <1>1 DEF OpenIndices
<1>. QED  BY <1>2 DEF GoodVector, AcceptorAt

LEMMA SlotKind ==
  ASSUME NEW w, NEW T, NEW F, NEW A, Planned(w, T, F, A),
         NEW k \in WindowSlot, NEW v, Sweep(w, T, F, A, k, v)
  PROVE  /\ SlotMut(v, k) = "Resolved" <=> ResolvedAt(w, k)
         /\ ResolvedAt(w, k) => DecisionAt(v, k) = DecisionOf(w.acc[k])
         /\ k < w.end => SlotMut(v, k) # "Empty" /\ Filled(v, k) = v
<1>1. PICK x : x = AsWindow(v)
  OBVIOUS
<1>2. GoodVector(v) /\ Swept(w, T, F, A, k, x)
  BY <1>1 DEF Sweep
<1>3. /\ SlotMut(v, k) = "Resolved" <=> ResolvedAt(x, k)
      /\ SlotMut(v, k) = "Empty" <=> EmptyAt(x, k)
      /\ ResolvedAt(x, k) => DecisionAt(v, k) = DecisionOf(x.acc[k])
  BY <1>1, <1>2, SlotMutAs
<1>4. ~(k < k)
  BY SlotBound
<1>5. /\ ResolvedAt(x, k) <=> ResolvedAt(w, k)
      /\ k < w.end => x.acc[k] = w.acc[k]
  BY <1>2, <1>4, SweptAhead
<1>6. ResolvedAt(w, k) => k < w.end
  BY PlannedNumbers, SlotBound DEF Logged, Shape, EmptyAt, ResolvedAt, Unopened, AwaitValue,
     IsResolved
<1>7. k < w.end => ~EmptyAt(x, k)
  BY <1>2, PlannedNumbers, SweptNumbers, SlotBound DEF Swept, EmptyAt
<1>. QED  BY <1>3, <1>5, <1>6, <1>7 DEF Filled

LEMMA SlotOpened ==
  ASSUME NEW w, NEW T, NEW F, NEW A, Planned(w, T, F, A),
         NEW k \in WindowSlot, ~ResolvedAt(w, k), NEW v, Sweep(w, T, F, A, k, v)
  PROVE  LET o == Filled(v, k)
             y == OpenUpTo(AsWindow(v), <<>>, k)
         IN  /\ GoodVector(o) /\ AsWindow(o) = y /\ k \in OpenIndices(o)
             /\ GoodWindow(y, BallotOption) /\ Logged(y) /\ AtMost(y.acc[k].promised, y.max)
             /\ AcceptorAt(o, k) = y.acc[k]
             /\ k < w.end => AcceptorAt(o, k) = w.acc[k]
             /\ w.end <= k => AcceptorAt(o, k) = AwaitValue(FreshPromise(w, F, k))
             /\ Settled(AcceptorAt(o, k))
             /\ GoodAcceptor(AcceptorAt(o, k), BallotOption)
<1>1. PICK x, o, y : x = AsWindow(v) /\ o = Filled(v, k) /\ y = OpenUpTo(x, <<>>, k)
  OBVIOUS
<1>2. GoodVector(v) /\ Swept(w, T, F, A, k, x)
  BY <1>1 DEF Sweep
<1>3. GoodVector(o) /\ AsWindow(o) = y
  BY <1>1, <1>2, FilledAs
<1>4. /\ GoodWindow(y, BallotOption) /\ Logged(y)
      /\ y.min = x.min /\ x.min <= k /\ k < y.end
      /\ k < w.end => y.acc[k] = w.acc[k]
      /\ w.end <= k => y.acc[k] = AwaitValue(FreshPromise(w, F, k))
      /\ AtMost(y.acc[k].promised, y.max)
  BY <1>1, <1>2, SweptOpened
<1>5. k \in OpenRange(y) /\ ~EmptyAt(y, k)
  <2>1. y.min \in Nat /\ y.end \in Nat
    BY <1>4, SweptNumbers
  <2>. QED  BY <1>4, <2>1, SlotBound DEF OpenRange, EmptyAt
<1>6. k \in OpenIndices(o)
  BY <1>3, <1>5, OpenIndicesAs
<1>7. AcceptorAt(o, k) = y.acc[k]
  BY <1>3, <1>4, <1>5, SlotMutAs
<1>8. Settled(AcceptorAt(o, k))
  BY <1>3, <1>6, AcceptorSettled
<1>9. GoodAcceptor(y.acc[k], BallotOption)
  BY <1>4 DEF GoodWindow
<1>. QED  BY <1>1, <1>3, <1>4, <1>6, <1>7, <1>8, <1>9

LEMMA VisitSlot ==
  ASSUME NEW w, NEW T, NEW F, NEW A, Planned(w, T, F, A),
         NEW k \in DOMAIN A, NEW v, Sweep(w, T, F, A, k, v)
  PROVE  Sweep(w, T, F, A, k + 1, SetAcceptor(Filled(v, k), k, A[k]))
<1>1. k \in T /\ k \in WindowSlot /\ ~ResolvedAt(w, k)
  BY PlannedNumbers DEF Planned
<1>2. PICK x, o, y : x = AsWindow(v) /\ o = Filled(v, k) /\ y = OpenUpTo(x, <<>>, k)
  OBVIOUS
<1>3. /\ GoodVector(o) /\ AsWindow(o) = y /\ k \in OpenIndices(o)
      /\ GoodWindow(y, BallotOption)
  BY <1>1, <1>2, SlotOpened
<1>4. PICK a : a = A[k]
  OBVIOUS
<1>5. GoodAcceptor(a, BallotOption) /\ Settled(a) /\ (k = MaxSlot + 1 => ~HasValue(a))
  BY <1>4 DEF Planned
<1>6. /\ GoodVector(SetAcceptor(o, k, a))
      /\ AsWindow(SetAcceptor(o, k, a)) = FillDecisions(Put(y, k, a))
  BY <1>1, <1>3, <1>5, SetAcceptorAs
<1>7. Swept(w, T, F, A, k, x)
  BY <1>2 DEF Sweep
<1>8. Swept(w, T, F, A, k + 1, FillDecisions(Put(y, k, a)))
  BY <1>2, <1>4, <1>7, SweptVisited
<1>. QED  BY <1>2, <1>4, <1>6, <1>8 DEF Sweep

LEMMA RewriteSlot ==
  ASSUME NEW v, GoodVector(v), NEW y, y = AsWindow(v), GoodWindow(y, BallotOption),
         Logged(y), NEW k \in WindowSlot, k \in OpenIndices(v),
         AcceptorAt(v, k) = y.acc[k], AtMost(y.acc[k].promised, y.max)
  PROVE  LET z == SetAcceptor(v, k, AcceptorAt(v, k))
         IN  GoodVector(z) /\ AsWindow(z) = y
<1>1. PICK a : a = y.acc[k]
  OBVIOUS
<1>2. GoodAcceptor(a, BallotOption)
  BY <1>1 DEF GoodWindow
<1>3. Settled(a)
  BY <1>1, AcceptorSettled
<1>4. k = MaxSlot + 1 => ~HasValue(a)
  BY <1>1 DEF GoodWindow
<1>5. /\ GoodVector(SetAcceptor(v, k, a))
      /\ AsWindow(SetAcceptor(v, k, a)) = FillDecisions(Put(y, k, a))
  BY <1>2, <1>3, <1>4, SetAcceptorAs
<1>6. FillDecisions(Put(y, k, a)) = y
  BY <1>1, Rewritten
<1>. QED  BY <1>1, <1>5, <1>6

LEMMA FillSlot ==
  ASSUME NEW w, NEW T, NEW F, NEW A, Planned(w, T, F, A),
         NEW k \in T, k \notin DOMAIN A, NEW v, Sweep(w, T, F, A, k, v)
  PROVE  LET o == Filled(v, k)
         IN  Sweep(w, T, F, A, k + 1, SetAcceptor(o, k, AcceptorAt(o, k)))
<1>1. k \in WindowSlot /\ ~ResolvedAt(w, k)
  BY PlannedNumbers DEF Planned
<1>2. PICK x, o, y : x = AsWindow(v) /\ o = Filled(v, k) /\ y = OpenUpTo(x, <<>>, k)
  OBVIOUS
<1>3. /\ GoodVector(o) /\ AsWindow(o) = y /\ k \in OpenIndices(o)
      /\ GoodWindow(y, BallotOption) /\ Logged(y) /\ AtMost(y.acc[k].promised, y.max)
      /\ AcceptorAt(o, k) = y.acc[k]
  BY <1>1, <1>2, SlotOpened
<1>4. LET z == SetAcceptor(o, k, AcceptorAt(o, k))
      IN  GoodVector(z) /\ AsWindow(z) = y
  BY <1>1, <1>3, RewriteSlot
<1>5. Swept(w, T, F, A, k, x)
  BY <1>2 DEF Sweep
<1>6. Swept(w, T, F, A, k + 1, y)
  BY <1>2, <1>5, SweptFilled
<1>. QED  BY <1>2, <1>4, <1>6 DEF Sweep

LEMMA PassSlot ==
  ASSUME NEW w, NEW T, NEW F, NEW A, Planned(w, T, F, A),
         NEW k \in Nat, k \notin T, NEW v, Sweep(w, T, F, A, k, v)
  PROVE  Sweep(w, T, F, A, k + 1, v)
BY SweptPassed DEF Sweep

\* An open slot outside T is written as it was.
LEMMA SameSlot ==
  ASSUME NEW w, NEW T, NEW F, NEW A, Planned(w, T, F, A),
         NEW k \in WindowSlot, k \notin T, ~ResolvedAt(w, k),
         NEW v, Sweep(w, T, F, A, k, v), SlotMut(v, k) # "Empty"
  PROVE  Sweep(w, T, F, A, k + 1, SetAcceptor(v, k, AcceptorAt(v, k)))
<1>1. PICK x, o, y : x = AsWindow(v) /\ o = Filled(v, k) /\ y = OpenUpTo(x, <<>>, k)
  OBVIOUS
<1>2. o = v
  BY <1>1 DEF Filled
<1>3. /\ GoodVector(o) /\ AsWindow(o) = y /\ k \in OpenIndices(o)
      /\ GoodWindow(y, BallotOption) /\ Logged(y) /\ AtMost(y.acc[k].promised, y.max)
      /\ AcceptorAt(o, k) = y.acc[k]
  BY <1>1, SlotOpened
<1>4. LET z == SetAcceptor(v, k, AcceptorAt(v, k))
      IN  GoodVector(z) /\ AsWindow(z) = x
  BY <1>1, <1>2, <1>3, RewriteSlot, ZenonT(60)
<1>5. k \in Nat
  BY SlotBound
<1>6. Sweep(w, T, F, A, k + 1, v)
  BY <1>5, PassSlot
<1>. QED  BY <1>1, <1>4, <1>6 DEF Sweep

-----------------------------------------------------------------------------
(***************************************************************************)
(* What a loop collects: the function G, slot by slot.                     *)
(***************************************************************************)
Collected(G, k) == [s \in {d \in DOMAIN G : d < k} |-> G[s]]

With(G, k, out) == IF k \in DOMAIN G THEN Collect(out, k, G[k]) ELSE out

LEMMA CollectFirst ==
  ASSUME NEW G, DOMAIN G \subseteq Nat
  PROVE  Collected(G, 0) = <<>>
<1>1. {d \in DOMAIN G : d < 0} = {}
  OBVIOUS
<1>2. Collected(G, 0) = [s \in {} |-> G[s]]
  BY <1>1 DEF Collected
<1>. QED  BY <1>2

LEMMA CollectNext ==
  ASSUME NEW G, DOMAIN G \subseteq Nat, NEW k \in Nat
  PROVE  With(G, k, Collected(G, k)) = Collected(G, k + 1)
<1>. DEFINE D == {d \in DOMAIN G : d < k}
            E == {d \in DOMAIN G : d < k + 1}
<1>1. DOMAIN Collected(G, k) = D /\ \A s \in D : Collected(G, k)[s] = G[s]
  BY DEF Collected
<1>2. \A d \in DOMAIN G : d < k + 1 <=> d < k \/ d = k
  OBVIOUS
<1>3. CASE k \in DOMAIN G
  <2>1. PICK f : f = Collect(Collected(G, k), k, G[k])
    OBVIOUS
  <2>2. f = [s \in D \cup {k} |-> IF s = k THEN G[k] ELSE G[s]]
    BY <1>1, <2>1 DEF Collect
  <2>3. D \cup {k} = E
    BY <1>2, <1>3
  <2>4. f = [s \in E |-> G[s]]
    BY <2>2, <2>3
  <2>. QED  BY <1>3, <2>1, <2>4 DEF With, Collected
<1>4. CASE k \notin DOMAIN G
  <2>1. D = E
    BY <1>2, <1>4
  <2>. QED  BY <1>4, <2>1 DEF With, Collected
<1>. QED  BY <1>3, <1>4

LEMMA CollectLast ==
  ASSUME NEW G, G = [s \in DOMAIN G |-> G[s]], NEW k, \A d \in DOMAIN G : d < k
  PROVE  Collected(G, k) = G
<1>1. {d \in DOMAIN G : d < k} = DOMAIN G
  OBVIOUS
<1>. QED  BY <1>1 DEF Collected

(***************************************************************************)
(* One loop.  It visits `slots` and ends early at the first of `stops`,    *)
(* with the state `kind` and the ballot `bal`; unless it does, it collects *)
(* the function G.  Follows says that every iteration does its part.       *)
(***************************************************************************)
State(v, out, stop, bal) == [vec |-> v, out |-> out, stop |-> stop, preempted |-> bal]

\* The iteration of slot k, from the vectors v with `out` collected.
Advances(c, w, T, F, A, G, stops, kind, bal, k, v, out) ==
  \E u : \E o :
    /\ Sweep(w, T, F, A, k + 1, u)
    /\ k \in stops => Visit(c, State(v, out, "No", NoBallot), k) = State(u, o, kind, bal)
    /\ k \notin stops => Visit(c, State(v, out, "No", NoBallot), k)
                           = State(u, With(G, k, out), "No", NoBallot)

Unstopped(stops, k) == \A s \in stops : ~(s < k)

Follows(c, w, T, F, A, slots, G, stops, kind, bal) ==
  \A k \in slots : \A v : \A out :
    Sweep(w, T, F, A, k, v) /\ Unstopped(stops, k) =>
      Advances(c, w, T, F, A, G, stops, kind, bal, k, v, out)

\* What the loop stands for.
Stands(w, T, F, A, slots, G, stops, kind) ==
  /\ Planned(w, T, F, A)
  /\ slots \subseteq WindowSlot /\ T \subseteq slots /\ stops \subseteq slots
  /\ \A s \in T : \A t \in stops : s <= t
  /\ DOMAIN G \subseteq slots /\ G = [s \in DOMAIN G |-> G[s]]
  /\ kind # "No"

\* The state of the loop with the slots below k behind it.
Running(w, T, F, A, G, stops, kind, bal, k, x) ==
  \E v : \E out :
    /\ Sweep(w, T, F, A, k, v)
    /\ (\A s \in stops : ~(s < k)) => x = State(v, Collected(G, k), "No", NoBallot)
    /\ (\E s \in stops : s < k) => x = State(v, out, kind, bal)

LEMMA StandsNumbers ==
  ASSUME NEW w, NEW T, NEW F, NEW A, NEW slots, NEW G, NEW stops, NEW kind,
         Stands(w, T, F, A, slots, G, stops, kind)
  PROVE  /\ Planned(w, T, F, A) /\ kind # "No"
         /\ \A s \in slots : s \in WindowSlot /\ s \in Nat /\ s < MaxSlot + 2
         /\ \A s \in T : s \in slots /\ \A t \in stops : s <= t
         /\ \A s \in stops : s \in slots
         /\ \A s \in DOMAIN G : s \in slots
         /\ DOMAIN G \subseteq Nat
<1>1. \A s \in WindowSlot : s \in Nat /\ s < MaxSlot + 2
  BY MaxSlotAssumption DEF WindowSlot
<1>2. \A s \in slots : s \in WindowSlot /\ s \in Nat /\ s < MaxSlot + 2
  BY <1>1 DEF Stands
<1>3. /\ \A s \in T : s \in slots /\ \A t \in stops : s <= t
      /\ \A s \in stops : s \in slots
      /\ \A s \in DOMAIN G : s \in slots
  BY DEF Stands
<1>4. DOMAIN G \subseteq Nat
  BY <1>2, <1>3
<1>. QED  BY <1>2, <1>3, <1>4 DEF Stands

LEMMA RunningNext ==
  ASSUME NEW c, NEW w, NEW T, NEW F, NEW A, NEW slots, NEW G, NEW stops, NEW kind, NEW bal,
         Stands(w, T, F, A, slots, G, stops, kind),
         Follows(c, w, T, F, A, slots, G, stops, kind, bal),
         NEW k \in Nat, NEW x, Running(w, T, F, A, G, stops, kind, bal, k, x)
  PROVE  Running(w, T, F, A, G, stops, kind, bal, k + 1, Iterated(c, slots, x, k))
<1>1. /\ Planned(w, T, F, A) /\ kind # "No"
      /\ \A s \in slots : s \in WindowSlot /\ s \in Nat
      /\ \A s \in T : s \in slots /\ \A t \in stops : s <= t
      /\ \A s \in stops : s \in slots
      /\ \A s \in DOMAIN G : s \in slots
      /\ DOMAIN G \subseteq Nat
  BY StandsNumbers
<1>2. PICK v, out :
        /\ Sweep(w, T, F, A, k, v)
        /\ (\A s \in stops : ~(s < k)) => x = State(v, Collected(G, k), "No", NoBallot)
        /\ (\E s \in stops : s < k) => x = State(v, out, kind, bal)
  BY DEF Running
<1>3. PICK y : y = Iterated(c, slots, x, k)
  OBVIOUS
<1>4. \A s \in stops : s < k + 1 <=> s < k \/ s = k
  BY <1>1
<1>5. With(G, k, Collected(G, k)) = Collected(G, k + 1)
  BY <1>1, CollectNext
<1>6. CASE k \notin slots
  <2>1. y = x /\ k \notin T /\ k \notin stops
    BY <1>1, <1>3, <1>6 DEF Iterated
  <2>2. Collected(G, k) = Collected(G, k + 1)
    BY <1>1, <1>5, <1>6 DEF With
  <2>3. Sweep(w, T, F, A, k + 1, v)
    BY <1>1, <1>2, <2>1, PassSlot
  <2>4. \A s \in stops : s < k + 1 <=> s < k
    BY <1>4, <2>1
  <2>. QED  BY <1>2, <1>3, <2>1, <2>2, <2>3, <2>4 DEF Running
<1>7. CASE k \in slots /\ \E s \in stops : s < k
  <2>1. x = State(v, out, kind, bal)
    BY <1>2, <1>7
  <2>2. x.stop # "No"
    BY <1>1, <2>1 DEF State
  <2>3. y = x
    BY <1>3, <1>7, <2>2 DEF Iterated, Visit
  <2>4. k \notin T
    <3>1. PICK s \in stops : s < k
      BY <1>7
    <3>2. s \in Nat /\ (k \in T => k <= s)
      BY <1>1
    <3>. QED  BY <3>1, <3>2
  <2>5. Sweep(w, T, F, A, k + 1, v)
    BY <1>1, <1>2, <2>4, PassSlot
  <2>6. \E s \in stops : s < k + 1
    BY <1>4, <1>7
  <2>. QED  BY <1>3, <2>1, <2>3, <2>5, <2>6 DEF Running
<1>8. CASE k \in slots /\ \A s \in stops : ~(s < k)
  <2>1. x = State(v, Collected(G, k), "No", NoBallot)
    BY <1>2, <1>8
  <2>2. y = Visit(c, x, k)
    BY <1>3, <1>8 DEF Iterated
  <2>3. PICK u, o :
          /\ Sweep(w, T, F, A, k + 1, u)
          /\ k \in stops => y = State(u, o, kind, bal)
          /\ k \notin stops => y = State(u, With(G, k, Collected(G, k)), "No", NoBallot)
    <3>1. PICK e : e = Collected(G, k)
      OBVIOUS
    <3>2. Sweep(w, T, F, A, k, v) /\ Unstopped(stops, k) /\ k \in slots
      BY <1>2, <1>8 DEF Unstopped
    <3>3. Advances(c, w, T, F, A, G, stops, kind, bal, k, v, e)
      BY <3>2 DEF Follows
    <3>4. PICK u, o :
            /\ Sweep(w, T, F, A, k + 1, u)
            /\ k \in stops => Visit(c, State(v, e, "No", NoBallot), k) = State(u, o, kind, bal)
            /\ k \notin stops => Visit(c, State(v, e, "No", NoBallot), k)
                                   = State(u, With(G, k, e), "No", NoBallot)
      BY <3>3 DEF Advances
    <3>. QED  BY <2>1, <2>2, <3>1, <3>4
  <2>4. (\E s \in stops : s < k + 1) <=> k \in stops
    BY <1>4, <1>8
  <2>. QED  BY <1>3, <1>5, <2>3, <2>4 DEF Running
<1>. QED  BY <1>6, <1>7, <1>8

LEMMA LoopRuns ==
  ASSUME NEW c, NEW w, NEW T, NEW F, NEW A, NEW slots, NEW G, NEW stops, NEW kind, NEW bal,
         Stands(w, T, F, A, slots, G, stops, kind),
         Follows(c, w, T, F, A, slots, G, stops, kind, bal),
         NEW v, GoodVector(v), w = AsWindow(v)
  PROVE  Running(w, T, F, A, G, stops, kind, bal, MaxSlot + 2, Loop(c, v, slots))
<1>1. PICK f : /\ f[0] = Start(v)
               /\ \A k \in Nat : k < MaxSlot + 2 => f[k + 1] = Iterated(c, slots, f[k], k)
               /\ Loop(c, v, slots) = f[MaxSlot + 2]
  BY LoopIs
<1>2. PICK n \in Nat : n = MaxSlot + 2
  BY MaxSlotAssumption
<1>. DEFINE P == {k \in Nat : Running(w, T, F, A, G, stops, kind, bal, k, f[k])}
<1>3. 0 \in P
  <2>1. /\ Planned(w, T, F, A) /\ DOMAIN G \subseteq Nat
        /\ \A s \in T : s \in Nat
        /\ \A s \in stops : s \in Nat
    BY StandsNumbers
  <2>2. \A s \in T : ~(s < 0)
    BY <2>1
  <2>3. Swept(w, T, F, A, 0, w)
    BY <2>1, <2>2, SweptStart
  <2>4. Sweep(w, T, F, A, 0, v)
    BY <2>3 DEF Sweep
  <2>5. f[0] = State(v, Collected(G, 0), "No", NoBallot)
    BY <1>1, <2>1, CollectFirst DEF Start, State
  <2>6. \A s \in stops : ~(s < 0)
    BY <2>1
  <2>7. Running(w, T, F, A, G, stops, kind, bal, 0, f[0])
    BY <2>4, <2>5, <2>6 DEF Running
  <2>. QED  BY <2>7
<1>4. ASSUME NEW k \in Nat, k < n, k \in P
      PROVE  k + 1 \in P
  <2>1. PICK x : x = f[k]
    OBVIOUS
  <2>2. Running(w, T, F, A, G, stops, kind, bal, k, x)
    BY <1>4, <2>1
  <2>3. Running(w, T, F, A, G, stops, kind, bal, k + 1, Iterated(c, slots, x, k))
    BY <2>2, RunningNext
  <2>4. f[k + 1] = Iterated(c, slots, x, k)
    BY <1>1, <1>2, <1>4, <2>1
  <2>. QED  BY <2>3, <2>4
<1>. HIDE DEF P
<1>5. n \in P
  BY <1>3, <1>4, CountUp
<1>. QED  BY <1>1, <1>2, <1>5 DEF P

(***************************************************************************)
(* After the loop: the window in closed form and what has been collected.  *)
(***************************************************************************)
LEMMA LoopEnds ==
  ASSUME NEW c, NEW w, NEW T, NEW F, NEW A, NEW slots, NEW G, NEW stops, NEW kind, NEW bal,
         Stands(w, T, F, A, slots, G, stops, kind),
         Follows(c, w, T, F, A, slots, G, stops, kind, bal),
         NEW v, GoodVector(v), w = AsWindow(v), NEW last \in WindowSlot,
         \A s \in T : w.end <= s => s <= last, w.end <= last => last \in T
  PROVE  LET x == Loop(c, v, slots)
         IN  /\ GoodVector(x.vec)
             /\ AsWindow(x.vec) = FillDecisions(Visited(w, F, A, last))
             /\ stops = {} => x.out = G /\ x.stop = "No" /\ x.preempted = NoBallot
             /\ stops # {} => x.stop = kind /\ x.preempted = bal
<1>1. PICK x : x = Loop(c, v, slots)
  OBVIOUS
<1>2. PICK n \in Nat : n = MaxSlot + 2
  BY MaxSlotAssumption
<1>3. Running(w, T, F, A, G, stops, kind, bal, n, x)
  BY <1>1, <1>2, LoopRuns
<1>4. PICK u, out :
        /\ Sweep(w, T, F, A, n, u)
        /\ (\A s \in stops : ~(s < n)) => x = State(u, Collected(G, n), "No", NoBallot)
        /\ (\E s \in stops : s < n) => x = State(u, out, kind, bal)
  BY <1>3 DEF Running
<1>5. /\ Planned(w, T, F, A)
      /\ \A s \in T : s < n
      /\ \A s \in stops : s < n
      /\ \A s \in DOMAIN G : s < n
  BY <1>2, StandsNumbers
<1>6. Collected(G, n) = G
  BY <1>5, CollectLast DEF Stands
<1>7. stops = {} => x = State(u, G, "No", NoBallot)
  BY <1>4, <1>6
<1>8. stops # {} => x = State(u, out, kind, bal)
  BY <1>4, <1>5
<1>9. x.vec = u
  BY <1>7, <1>8 DEF State
<1>10. Swept(w, T, F, A, n, AsWindow(u)) /\ GoodVector(u)
  BY <1>4 DEF Sweep
<1>11. AsWindow(u) = FillDecisions(Visited(w, F, A, last))
  BY <1>5, <1>10, SweptEnd
<1>. QED  BY <1>1, <1>7, <1>8, <1>9, <1>10, <1>11 DEF State

-----------------------------------------------------------------------------
(***************************************************************************)
(* The handlers of module SlotVectors implement the calls of module        *)
(* WindowCalls.  For each loop: its plan, that its iterations follow it,   *)
(* and so the window and the answer it leaves.  Then the steps, with the   *)
(* invariant VecInv: the vectors hold a window that is Sound, and resolved *)
(* or empty acceptors hold nothing that draining or proposing would lose.  *)
(***************************************************************************)

(***************************************************************************)
(* The calls.  Each of them starts from vectors that hold a sound window.  *)
(***************************************************************************)
Ready(v, w) == GoodVector(v) /\ w = AsWindow(v) /\ Sound(w)

AllSettled(w) == \A s \in WindowSlot : Settled(w.acc[s])

LEMMA ReadySettled ==
  ASSUME NEW v, NEW w, Ready(v, w)
  PROVE  AllSettled(w)
<1>1. GoodVector(v) /\ w = AsWindow(v)
  BY DEF Ready
<1>2. /\ v.min \in Nat /\ Len(v.open) \in Nat
      /\ \A i \in 1..Len(v.open) : Settled(v.open[i])
  BY <1>1, VectorNumbers DEF GoodVector
<1>3. SUFFICES ASSUME NEW s \in WindowSlot
               PROVE  Settled(w.acc[s])
  BY DEF AllSettled
<1>4. w.acc[s] = IF s < v.min
                   THEN Resolved(v.decided[s + 1].bal, v.decided[s + 1].val)
                 ELSE IF s < v.min + Len(v.open) THEN v.open[s - v.min + 1]
                 ELSE Unopened
  BY <1>1, AsWindowIs
<1>5. s \in Nat
  BY SlotBound
<1>6. CASE s < v.min
  <2>1. PICK b, x : w.acc[s] = Resolved(b, x)
    BY <1>4, <1>6
  <2>. QED  BY <2>1 DEF Settled, Resolved, IsResolved, HasValue
<1>7. CASE ~(s < v.min) /\ s < v.min + Len(v.open)
  <2>1. PICK i \in 1..Len(v.open) : i = s - v.min + 1
    BY <1>2, <1>5, <1>7
  <2>2. w.acc[s] = v.open[i]
    BY <1>4, <1>7, <2>1
  <2>. QED  BY <1>2, <2>2
<1>8. CASE ~(s < v.min) /\ ~(s < v.min + Len(v.open))
  <2>1. w.acc[s] = Unopened
    BY <1>4, <1>8
  <2>. QED  BY <2>1 DEF Unopened, AwaitValue, Settled, IsResolved, HasValue
<1>. QED  BY <1>6, <1>7, <1>8

LEMMA FreshCovers ==
  ASSUME NEW w, w.max \in BallotOption, NEW F, DOMAIN F \subseteq WindowSlot,
         \A p \in DOMAIN F : F[p] \in BallotOption, NEW s \in DOMAIN F
  PROVE  /\ AtMost(F[s], FreshPromise(w, F, s + 1))
         /\ AtMost(FreshPromise(w, F, s), FreshPromise(w, F, s + 1))
         /\ AtMost(w.max, FreshPromise(w, F, s + 1))
         /\ FreshPromise(w, F, s) \in BallotOption
         /\ FreshPromise(w, F, s + 1) \in BallotOption
<1>1. PICK t \in Nat : t = s
  BY SlotBound
<1>2. PICK n \in Nat : n = s + 1 /\ t <= n
  BY <1>1
<1>3. AtMost(FreshPromise(w, F, t), FreshPromise(w, F, n))
  BY <1>2, FreshGrows
<1>4. s \in Below(F, n)
  BY <1>1, <1>2 DEF Below
<1>5. /\ AtMost(F[s], FreshPromise(w, F, n)) /\ AtMost(w.max, FreshPromise(w, F, n))
      /\ FreshPromise(w, F, n) \in BallotOption
  BY <1>4, FreshPromiseIs
<1>6. FreshPromise(w, F, t) \in BallotOption
  BY FreshPromiseIs
<1>. QED  BY <1>1, <1>2, <1>3, <1>5, <1>6

(***************************************************************************)
(* What a visit finds in its slots.                                        *)
(***************************************************************************)
Found(w, F, s, a) ==
  /\ GoodAcceptor(a, BallotOption) /\ ~IsResolved(a) /\ Settled(a)
  /\ AtMost(a.bal, a.promised) /\ AtMost(a.bal, PromisedAt(w, s))
  /\ AtMost(a.promised, FreshPromise(w, F, s + 1))
  /\ AtMost(F[s], FreshPromise(w, F, s + 1))

LEMMA VisitFinds ==
  ASSUME NEW w, Sound(w), AllSettled(w), NEW S \in SUBSET WindowSlot,
         NEW F \in [S -> BallotOption], NEW last \in WindowSlot,
         \A s \in S : s <= last /\ ~ResolvedAt(w, s)
  PROVE  \A s \in S : Found(w, F, s, OpenUpTo(w, F, last).acc[s])
<1>1. /\ GoodWindow(w, BallotOption) /\ Logged(w) /\ Shape(w) /\ Bounded(w)
      /\ Ballots(BallotOption)
  BY AllBallots DEF Sound, Logged
<1>2. \A s \in S :
        LET a == OpenUpTo(w, F, last).acc[s]
        IN  /\ GoodAcceptor(a, BallotOption) /\ ~IsResolved(a)
            /\ AtMost(a.bal, a.promised) /\ AtMost(a.bal, PromisedAt(w, s))
  BY <1>1, OpenedBounds
<1>3. SUFFICES ASSUME NEW s \in S
               PROVE  Found(w, F, s, OpenUpTo(w, F, last).acc[s])
  OBVIOUS
<1>4. PICK a : a = OpenUpTo(w, F, last).acc[s]
  OBVIOUS
<1>5. IsWindow(w) /\ w.max \in BallotOption
  BY <1>1, SweptNumbers
<1>6. a = IF w.end <= s /\ s <= last THEN AwaitValue(FreshPromise(w, F, s)) ELSE w.acc[s]
  <2>1. s \in WindowSlot
    OBVIOUS
  <2>. QED  BY <1>4, <1>5, <2>1, OpenUpToIs
<1>7. /\ AtMost(F[s], FreshPromise(w, F, s + 1))
      /\ AtMost(FreshPromise(w, F, s), FreshPromise(w, F, s + 1))
      /\ AtMost(w.max, FreshPromise(w, F, s + 1))
      /\ FreshPromise(w, F, s) \in BallotOption
      /\ FreshPromise(w, F, s + 1) \in BallotOption
  <2>1. DOMAIN F \subseteq WindowSlot /\ \A p \in DOMAIN F : F[p] \in BallotOption
    OBVIOUS
  <2>2. s \in DOMAIN F
    OBVIOUS
  <2>. QED  BY <1>5, <2>1, <2>2, FreshCovers
<1>8. AtMost(a.promised, FreshPromise(w, F, s + 1)) /\ Settled(a)
  <2>1. CASE a = AwaitValue(FreshPromise(w, F, s))
    BY <1>7, <2>1 DEF AwaitValue, Settled, IsResolved, HasValue
  <2>2. CASE a = w.acc[s]
    <3>1. AtMost(w.acc[s].promised, w.max) /\ w.acc[s].promised \in BallotOption
      BY <1>1, WindowBallots DEF Bounded
    <3>2. Settled(a)
      BY <2>2 DEF AllSettled
    <3>. QED  BY <1>5, <1>7, <2>2, <3>1, <3>2, BallotOrder
  <2>. QED  BY <1>6, <2>1, <2>2
<1>9. /\ GoodAcceptor(a, BallotOption) /\ ~IsResolved(a)
      /\ AtMost(a.bal, a.promised) /\ AtMost(a.bal, PromisedAt(w, s))
  BY <1>2, <1>4
<1>. QED  BY <1>4, <1>7, <1>8, <1>9 DEF Found

\* The acceptor an iteration finds in a slot of its plan.
LEMMA FoundSlot ==
  ASSUME NEW w, NEW T, NEW F, NEW A, Planned(w, T, F, A), NEW k \in T,
         NEW v, Sweep(w, T, F, A, k, v), NEW last \in WindowSlot, k <= last
  PROVE  /\ AcceptorAt(Filled(v, k), k) = OpenUpTo(w, F, last).acc[k]
         /\ SlotMut(v, k) # "Resolved"
<1>1. k \in WindowSlot /\ ~ResolvedAt(w, k) /\ k \in Nat
  BY SlotBound DEF Planned
<1>2. /\ k < w.end => AcceptorAt(Filled(v, k), k) = w.acc[k]
      /\ w.end <= k => AcceptorAt(Filled(v, k), k) = AwaitValue(FreshPromise(w, F, k))
  BY <1>1, SlotOpened
<1>3. SlotMut(v, k) # "Resolved"
  BY <1>1, SlotKind
<1>4. IsWindow(w) /\ w.end \in Nat
  BY SweptNumbers DEF Planned, Sound
<1>5. OpenUpTo(w, F, last).acc[k]
        = IF w.end <= k /\ k <= last THEN AwaitValue(FreshPromise(w, F, k)) ELSE w.acc[k]
  BY <1>1, <1>4, OpenUpToIs
<1>6. k < w.end \/ w.end <= k
  BY <1>1, <1>4
<1>7. CASE k < w.end
  <2>1. ~(w.end <= k)
    BY <1>1, <1>4, <1>7
  <2>. QED  BY <1>2, <1>3, <1>5, <1>7, <2>1
<1>8. CASE w.end <= k
  BY <1>2, <1>3, <1>5, <1>8
<1>. QED  BY <1>6, <1>7, <1>8

LEMMA LastIs ==
  ASSUME NEW w, GoodWindow(w, BallotOption), NEW S \in SUBSET WindowSlot
  PROVE  LET last == LastOf(w, S)
         IN  /\ last \in WindowSlot /\ \A s \in S : s <= last
             /\ w.end <= last => last \in S
<1>1. /\ LastOf(w, S) \in WindowSlot /\ \A s \in S : s <= LastOf(w, S)
  BY LastOfIn
<1>2. w.end \in Nat /\ w.end - 1 \in WindowSlot
  BY WindowRange
<1>3. PICK R : R = {w.end - 1} \cup S
  OBVIOUS
<1>4. PICK m \in Nat : m = MaxSlot + 1
  BY MaxSlotAssumption
<1>5. R # {} /\ R \subseteq 0..m
  <2>1. R \subseteq WindowSlot
    BY <1>2, <1>3
  <2>. QED  BY <1>3, <1>4, <2>1 DEF WindowSlot
<1>6. Max(R) \in R
  BY <1>5, MaxIn
<1>7. LastOf(w, S) = w.end - 1 \/ LastOf(w, S) \in S
  BY <1>3, <1>6 DEF LastOf
<1>8. ~(w.end <= w.end - 1)
  BY <1>2
<1>. QED  BY <1>1, <1>7, <1>8

\* How an iteration ends.
LEMMA States ==
  ASSUME NEW v, NEW out
  PROVE  LET x == State(v, out, "No", NoBallot)
         IN  /\ x.vec = v /\ x.out = out /\ x.stop = "No"
             /\ [x EXCEPT !.stop = "Resolved"] = State(v, out, "Resolved", NoBallot)
<1>1. PICK x : x = [vec |-> v, out |-> out, stop |-> "No", preempted |-> NoBallot]
  OBVIOUS
<1>2. x.vec = v /\ x.out = out /\ x.stop = "No"
  BY <1>1
<1>3. [x EXCEPT !.stop = "Resolved"]
        = [vec |-> v, out |-> out, stop |-> "Resolved", preempted |-> NoBallot]
  BY <1>1
<1>. QED  BY <1>1, <1>2, <1>3 DEF State

LEMMA GoingIs ==
  ASSUME NEW v, NEW out, NEW u, NEW o
  PROVE  Going(State(v, out, "No", NoBallot), u, o) = State(u, o, "No", NoBallot)
<1>1. PICK x : x = [vec |-> v, out |-> out, stop |-> "No", preempted |-> NoBallot]
  OBVIOUS
<1>2. PICK y : y = [x EXCEPT !.vec = u]
  OBVIOUS
<1>3. y = [vec |-> u, out |-> out, stop |-> "No", preempted |-> NoBallot]
  BY <1>1, <1>2
<1>4. [y EXCEPT !.out = o] = [vec |-> u, out |-> o, stop |-> "No", preempted |-> NoBallot]
  BY <1>3
<1>5. [x EXCEPT !.vec = u, !.out = o] = [y EXCEPT !.out = o]
  BY <1>2
<1>. QED  BY <1>1, <1>4, <1>5 DEF State, Going

LEMMA PreemptedIs ==
  ASSUME NEW v, NEW out, NEW u, NEW p
  PROVE  Preempted(State(v, out, "No", NoBallot), u, p) = State(u, out, "Reject", p)
<1>1. PICK x : x = [vec |-> v, out |-> out, stop |-> "No", preempted |-> NoBallot]
  OBVIOUS
<1>2. PICK y : y = [x EXCEPT !.vec = u]
  OBVIOUS
<1>3. y = [vec |-> u, out |-> out, stop |-> "No", preempted |-> NoBallot]
  BY <1>1, <1>2
<1>4. PICK z : z = [y EXCEPT !.stop = "Reject"]
  OBVIOUS
<1>5. z = [vec |-> u, out |-> out, stop |-> "Reject", preempted |-> NoBallot]
  BY <1>3, <1>4
<1>6. [z EXCEPT !.preempted = p] = [vec |-> u, out |-> out, stop |-> "Reject", preempted |-> p]
  BY <1>5
<1>7. [x EXCEPT !.vec = u, !.stop = "Reject", !.preempted = p] = [z EXCEPT !.preempted = p]
  BY <1>2, <1>4
<1>. QED  BY <1>1, <1>6, <1>7 DEF State, Preempted

(***************************************************************************)
(* resolution                                                              *)
(***************************************************************************)
LEMMA ResolveIs ==
  ASSUME NEW a, ~IsResolved(a), NEW b, NEW val
  PROVE  Resolve(a, b, val) = Resolved(b, val)
  BY DEF Resolve

LEMMA ResolvedSettled ==
  ASSUME NEW b, NEW val
  PROVE  Settled(Resolved(b, val)) /\ Resolved(b, val).promised = b
  BY DEF Settled, Resolved, IsResolved, HasValue

LEMMA ResolutionPlan ==
  ASSUME NEW w, Sound(w), AllSettled(w), NEW b \in Ballot, NEW batch, GoodBatch(batch),
         NEW T, T = {s \in DOMAIN batch : ~ResolvedAt(w, s)},
         NEW F, F = Const(T, b), NEW A, A = [s \in T |-> Resolved(b, batch[s])]
  PROVE  /\ Planned(w, T, F, A) /\ T \in SUBSET WindowSlot
         /\ F \in [T -> BallotOption]
         /\ A = [s \in T |-> Resolve(Opened(w, F).acc[s], b, batch[s])]
<1>1. /\ b \in BallotOption /\ b # NoBallot /\ Ballots(BallotOption)
      /\ GoodWindow(w, BallotOption)
  BY AllBallots DEF Sound, Ballot, BallotOption, NoBallot
<1>2. /\ DOMAIN batch \subseteq Slot /\ \A s \in DOMAIN batch : batch[s] \in Value
  BY BatchSlots
<1>3. /\ T \in SUBSET WindowSlot /\ \A s \in T : s # MaxSlot + 1
  BY <1>2, SlotBound
<1>4. F \in [T -> BallotOption] /\ DOMAIN F = T /\ \A s \in T : F[s] = b
  BY <1>1 DEF Const
<1>5. PICK last : last = LastOf(w, DOMAIN F)
  OBVIOUS
<1>6. last \in WindowSlot /\ \A s \in T : s <= last
  BY <1>1, <1>3, <1>4, <1>5, LastIs
<1>7. \A s \in T : Found(w, F, s, OpenUpTo(w, F, last).acc[s])
  BY <1>3, <1>4, <1>6, VisitFinds
<1>8. \A s \in T : Opened(w, F).acc[s] = OpenUpTo(w, F, last).acc[s]
  BY <1>5 DEF Opened
<1>9. ASSUME NEW s \in T
      PROVE  Resolve(Opened(w, F).acc[s], b, batch[s]) = Resolved(b, batch[s])
  <2>1. PICK a : a = Opened(w, F).acc[s]
    OBVIOUS
  <2>2. ~IsResolved(a)
    BY <1>7, <1>8, <2>1 DEF Found
  <2>. QED  BY <2>1, <2>2, ResolveIs
<1>10. A = [s \in T |-> Resolve(Opened(w, F).acc[s], b, batch[s])]
  BY <1>9
<1>11. ASSUME NEW s \in T
       PROVE  /\ GoodAcceptor(A[s], BallotOption) /\ Settled(A[s])
              /\ s # MaxSlot + 1 /\ F[s] \in BallotOption
              /\ AtMost(F[s], A[s].promised)
              /\ AtMost(A[s].promised, FreshPromise(w, F, s + 1))
  <2>1. A[s] = Resolved(b, batch[s]) /\ batch[s] \in Value /\ F[s] = b
    BY <1>2, <1>4
  <2>2. AtMost(F[s], FreshPromise(w, F, s + 1))
    BY <1>7 DEF Found
  <2>. QED  BY <1>1, <1>3, <2>1, <2>2, ResolvedSettled, ResolvedGood, BallotOrder
<1>12. /\ DOMAIN A = T /\ F = [s \in DOMAIN A |-> F[s]] /\ A = [s \in DOMAIN A |-> A[s]]
       /\ \A s \in T : ~ResolvedAt(w, s)
  BY <1>4
<1>13. Planned(w, T, F, A)
  BY <1>3, <1>4, <1>11, <1>12 DEF Planned
<1>. QED  BY <1>3, <1>4, <1>10, <1>13

LEMMA VisitResolution ==
  ASSUME NEW v, NEW out, NEW s, NEW b, NEW batch
  PROVE  LET x == State(v, out, "No", NoBallot)
         IN  Visit([type |-> "Resolution", bal |-> b, batch |-> batch], x, s)
               = ResolutionVisit(x, s, b, batch)
<1>1. PICK x : x = State(v, out, "No", NoBallot)
  OBVIOUS
<1>2. x.stop = "No"
  BY <1>1, States
<1>. QED  BY <1>1, <1>2 DEF Visit

\* No slot is collected where G has none.
LEMMA NothingCollected ==
  /\ DOMAIN <<>> = {}
  /\ \A k : \A out : With(<<>>, k, out) = out
  /\ <<>> = [s \in DOMAIN <<>> |-> <<>>[s]]
<1>1. DOMAIN <<>> = {}
  OBVIOUS
<1>. QED  BY <1>1 DEF With

LEMMA ResolutionFollows ==
  ASSUME NEW w, Sound(w), AllSettled(w), NEW b \in Ballot, NEW batch, GoodBatch(batch),
         NEW T, T = {s \in DOMAIN batch : ~ResolvedAt(w, s)},
         NEW F, F = Const(T, b), NEW A, A = [s \in T |-> Resolved(b, batch[s])],
         NEW c, c = [type |-> "Resolution", bal |-> b, batch |-> batch]
  PROVE  Follows(c, w, T, F, A, DOMAIN batch, <<>>, {}, "Reject", NoBallot)
<1>1. Planned(w, T, F, A)
  BY ResolutionPlan
<1>2. DOMAIN batch \subseteq WindowSlot
  BY BatchSlots, SlotBound
<1>3. SUFFICES ASSUME NEW k \in DOMAIN batch, NEW v, NEW out, Sweep(w, T, F, A, k, v)
               PROVE  Advances(c, w, T, F, A, <<>>, {}, "Reject", NoBallot, k, v, out)
  BY DEF Follows
<1>4. PICK x : x = State(v, out, "No", NoBallot)
  OBVIOUS
<1>5. Visit(c, x, k) = ResolutionVisit(x, k, b, batch)
  BY <1>4, VisitResolution
<1>6. x.vec = v /\ x.out = out
  BY <1>4, States
<1>7. SUFFICES \E u : /\ Sweep(w, T, F, A, k + 1, u)
                      /\ ResolutionVisit(x, k, b, batch) = State(u, out, "No", NoBallot)
  BY <1>4, <1>5, NothingCollected DEF Advances
<1>8. CASE k \in T
  <2>1. k \in WindowSlot /\ k <= k
    <3>1. k \in WindowSlot /\ k \in Nat
      BY <1>2, SlotBound
    <3>. QED  BY <3>1
  <2>2. SlotMut(v, k) # "Resolved"
    BY <1>1, <1>3, <1>8, <2>1, FoundSlot
  <2>3. PICK o, a : o = Filled(v, k) /\ a = AcceptorAt(o, k)
    OBVIOUS
  <2>4. Resolve(a, b, batch[k]) = A[k]
    <3>1. ~ResolvedAt(w, k) /\ k \in WindowSlot
      BY <1>2, <1>8
    <3>2. /\ k < w.end => a = w.acc[k]
          /\ w.end <= k => a = AwaitValue(FreshPromise(w, F, k))
      BY <1>1, <1>3, <2>3, <3>1, SlotOpened
    <3>3. k < w.end \/ w.end <= k
      BY <1>1, <3>1, PlannedNumbers, SlotBound
    <3>4. ~IsResolved(a)
      BY <3>1, <3>2, <3>3 DEF ResolvedAt, AwaitValue, IsResolved
    <3>. QED  BY <1>8, <3>4, ResolveIs
  <2>5. PICK u : u = SetAcceptor(o, k, A[k])
    OBVIOUS
  <2>6. Sweep(w, T, F, A, k + 1, u)
    <3>1. k \in DOMAIN A
      BY <1>8
    <3>. QED  BY <1>1, <1>3, <2>3, <2>5, <3>1, VisitSlot
  <2>7. ResolutionVisit(x, k, b, batch) = Going(x, u, out)
    <3>1. SlotMut(x.vec, k) # "Resolved" /\ Filled(x.vec, k) = o
      BY <1>6, <2>2, <2>3
    <3>2. ResolutionVisit(x, k, b, batch)
            = Going(x, SetAcceptor(o, k, Resolve(AcceptorAt(o, k), b, batch[k])), x.out)
      BY <3>1 DEF ResolutionVisit
    <3>3. Resolve(AcceptorAt(o, k), b, batch[k]) = A[k]
      BY <2>3, <2>4
    <3>. QED  BY <1>6, <2>5, <3>2, <3>3
  <2>8. Going(x, u, out) = State(u, out, "No", NoBallot)
    BY <1>4, GoingIs
  <2>. QED  BY <2>6, <2>7, <2>8
<1>9. CASE k \notin T
  <2>1. ResolvedAt(w, k) /\ k \in WindowSlot /\ k \in Nat
    BY <1>2, <1>9, SlotBound
  <2>2. SlotMut(v, k) = "Resolved"
    BY <1>1, <1>3, <2>1, SlotKind
  <2>3. ResolutionVisit(x, k, b, batch) = x
    BY <1>6, <2>2 DEF ResolutionVisit
  <2>4. Sweep(w, T, F, A, k + 1, v)
    BY <1>1, <1>3, <1>9, <2>1, PassSlot
  <2>. QED  BY <1>4, <2>3, <2>4
<1>. QED  BY <1>8, <1>9

LEMMA VisitedSame ==
  ASSUME NEW w, NEW F, NEW A
  PROVE  Update(Opened(w, F), A) = Visited(w, F, A, LastOf(w, DOMAIN F))
  BY DEF Visited, Opened

LEMMA ResolutionLoop ==
  ASSUME NEW v, NEW w, Ready(v, w), NEW b \in Ballot, NEW batch, GoodBatch(batch)
  PROVE  LET x == Loop([type |-> "Resolution", bal |-> b, batch |-> batch], v, DOMAIN batch)
         IN  GoodVector(x.vec) /\ AsWindow(x.vec) = ResolutionWindow(w, b, batch)
<1>1. PICK c : c = [type |-> "Resolution", bal |-> b, batch |-> batch]
  OBVIOUS
<1>2. PICK T : T = {s \in DOMAIN batch : ~ResolvedAt(w, s)}
  OBVIOUS
<1>3. PICK F : F = Const(T, b)
  OBVIOUS
<1>4. PICK A : A = [s \in T |-> Resolved(b, batch[s])]
  OBVIOUS
<1>5. /\ GoodVector(v) /\ w = AsWindow(v) /\ Sound(w) /\ AllSettled(w)
      /\ GoodWindow(w, BallotOption)
  BY ReadySettled DEF Ready, Sound
<1>6. /\ Planned(w, T, F, A) /\ T \in SUBSET WindowSlot /\ DOMAIN F = T
      /\ A = [s \in T |-> Resolve(Opened(w, F).acc[s], b, batch[s])]
  BY <1>2, <1>3, <1>4, <1>5, ResolutionPlan
<1>7. Follows(c, w, T, F, A, DOMAIN batch, <<>>, {}, "Reject", NoBallot)
  BY <1>1, <1>2, <1>3, <1>4, <1>5, ResolutionFollows
<1>8. Stands(w, T, F, A, DOMAIN batch, <<>>, {}, "Reject")
  <2>1. DOMAIN batch \subseteq WindowSlot
    BY BatchSlots, SlotBound
  <2>2. T \subseteq DOMAIN batch
    BY <1>2
  <2>3. DOMAIN <<>> \subseteq DOMAIN batch /\ <<>> = [s \in DOMAIN <<>> |-> <<>>[s]]
    BY NothingCollected
  <2>. QED  BY <1>6, <2>1, <2>2, <2>3 DEF Stands
<1>9. PICK last : last = LastOf(w, T)
  OBVIOUS
<1>10. last \in WindowSlot /\ (\A s \in T : s <= last) /\ (w.end <= last => last \in T)
  BY <1>5, <1>6, <1>9, LastIs
<1>11. PICK x : x = Loop(c, v, DOMAIN batch)
  OBVIOUS
<1>12. GoodVector(x.vec) /\ AsWindow(x.vec) = FillDecisions(Visited(w, F, A, last))
  BY <1>5, <1>7, <1>8, <1>10, <1>11, LoopEnds
<1>13. Visited(w, F, A, last) = Update(Opened(w, F), A)
  BY <1>6, <1>9, VisitedSame
<1>14. ResolutionWindow(w, b, batch) = FillDecisions(Update(Opened(w, F), A))
  BY <1>2, <1>3, <1>6 DEF ResolutionWindow
<1>. QED  BY <1>1, <1>11, <1>12, <1>13, <1>14

\* The acceptor an iteration finds in a slot that was open before the loop.
LEMMA OpenFound ==
  ASSUME NEW w, NEW T, NEW F, NEW A, Planned(w, T, F, A), NEW k \in WindowSlot,
         ~ResolvedAt(w, k), k < w.end, NEW v, Sweep(w, T, F, A, k, v)
  PROVE  /\ SlotMut(v, k) # "Resolved" /\ SlotMut(v, k) # "Empty"
         /\ Filled(v, k) = v /\ AcceptorAt(v, k) = w.acc[k]
<1>1. SlotMut(v, k) # "Resolved" /\ SlotMut(v, k) # "Empty" /\ Filled(v, k) = v
  BY SlotKind
<1>2. AcceptorAt(Filled(v, k), k) = w.acc[k]
  BY SlotOpened
<1>. QED  BY <1>1, <1>2

(***************************************************************************)
(* prepare                                                                 *)
(***************************************************************************)
LEMMA VisitPrepare ==
  ASSUME NEW v, NEW out, NEW s, NEW b
  PROVE  LET x == State(v, out, "No", NoBallot)
         IN  Visit([type |-> "Prepare", bal |-> b], x, s) = PrepareVisit(x, s, b)
<1>1. PICK x : x = State(v, out, "No", NoBallot)
  OBVIOUS
<1>2. x.stop = "No"
  BY <1>1, States
<1>. QED  BY <1>1, <1>2 DEF Visit

LEMMA ReceivePrepareIs ==
  ASSUME NEW a \in Acceptor, ~IsResolved(a), NEW b
  PROVE  LET r == ReceivePrepare(a, b)
         IN  r.promised = b /\ r.st = a.st /\ r.bal = a.bal /\ r.val = a.val
  BY DEF ReceivePrepare, Acceptor

LEMMA Unrejected ==
  ASSUME NEW w, GoodWindow(w, BallotOption), NEW b, NEW stops, stops = PrepareStops(w, b),
         NEW T, T = Reached(OpenSlots(w), stops)
  PROVE  /\ T \in SUBSET WindowSlot /\ T \subseteq OpenRange(w)
         /\ \A s \in T : /\ ~ResolvedAt(w, s) /\ s < w.end /\ w.min <= s /\ s \in WindowSlot
                         /\ \A t \in stops : s <= t
         /\ stops \subseteq OpenRange(w)
         /\ \A s \in stops : s \in Nat /\ ~ResolvedAt(w, s) /\ Rejects(w.acc[s], b)
<1>1. /\ OpenRange(w) \subseteq WindowSlot /\ w.min \in Nat /\ w.end \in Nat
      /\ WindowSlot \subseteq Nat
  BY WindowRange, SweptNumbers, SlotBound
<1>2. \A s \in OpenRange(w) : s \in WindowSlot /\ s \in Nat /\ s < w.end /\ w.min <= s
  BY <1>1 DEF OpenRange
<1>3. \A s \in stops : s \in OpenRange(w) /\ Rejects(w.acc[s], b)
  BY DEF PrepareStops
<1>4. \A s \in stops : ~ResolvedAt(w, s)
  BY <1>3 DEF Rejects, ResolvedAt
<1>5. \A s \in T : s \in OpenRange(w) /\ ~ResolvedAt(w, s) /\ \A t \in stops : s < t
  BY DEF Reached, OpenSlots
<1>6. \A s \in T : \A t \in stops : s <= t
  BY <1>2, <1>3, <1>5
<1>. QED  BY <1>2, <1>3, <1>4, <1>5, <1>6

LEMMA PreparePlan ==
  ASSUME NEW w, Sound(w), AllSettled(w), NEW b \in Ballot,
         NEW T, T = Reached(OpenSlots(w), PrepareStops(w, b)),
         NEW F, F = Const(T, b), NEW A, A = [s \in T |-> ReceivePrepare(w.acc[s], b)]
  PROVE  Planned(w, T, F, A)
<1>1. /\ b \in BallotOption /\ Ballots(BallotOption) /\ GoodWindow(w, BallotOption)
      /\ w.max \in BallotOption
  BY AllBallots, SweptNumbers DEF Sound, Ballot, BallotOption, NoBallot
<1>2. /\ T \in SUBSET WindowSlot
      /\ \A s \in T : ~ResolvedAt(w, s) /\ s \in WindowSlot
  BY <1>1, Unrejected
<1>3. F \in [T -> BallotOption] /\ DOMAIN F = T /\ \A s \in T : F[s] = b
  BY <1>1 DEF Const
<1>4. ASSUME NEW s \in T
      PROVE  /\ GoodAcceptor(A[s], BallotOption) /\ Settled(A[s])
             /\ s = MaxSlot + 1 => ~HasValue(A[s])
             /\ F[s] \in BallotOption
             /\ AtMost(F[s], A[s].promised)
             /\ AtMost(A[s].promised, FreshPromise(w, F, s + 1))
  <2>1. PICK a : a = w.acc[s]
    OBVIOUS
  <2>2. /\ GoodAcceptor(a, BallotOption) /\ ~IsResolved(a) /\ a \in Acceptor
        /\ s = MaxSlot + 1 => ~HasValue(a)
        /\ Settled(a)
    BY <1>1, <1>2, <2>1 DEF GoodWindow, GoodAcceptor, ResolvedAt, AllSettled
  <2>3. PICK r : r = ReceivePrepare(a, b)
    OBVIOUS
  <2>4. r.promised = b /\ r.st = a.st /\ r.val = a.val
    BY <2>2, <2>3, ReceivePrepareIs
  <2>5. GoodAcceptor(r, BallotOption)
    BY <1>1, <2>2, <2>3, ReceivePrepareGood
  <2>6. Settled(r) /\ (s = MaxSlot + 1 => ~HasValue(r))
    BY <2>2, <2>4 DEF Settled, HasValue, IsResolved
  <2>7. A[s] = r /\ F[s] = b
    BY <1>3, <2>1, <2>3
  <2>8. AtMost(F[s], FreshPromise(w, F, s + 1))
    <3>1. DOMAIN F \subseteq WindowSlot /\ \A p \in DOMAIN F : F[p] \in BallotOption
      BY <1>2, <1>3
    <3>2. s \in DOMAIN F
      BY <1>3
    <3>. QED  BY <1>1, <3>1, <3>2, FreshCovers
  <2>9. AtMost(b, b)
    BY <1>1, BallotOrder
  <2>. QED  BY <1>1, <2>4, <2>5, <2>6, <2>7, <2>8, <2>9
<1>5. /\ DOMAIN A = T /\ F = [s \in DOMAIN A |-> F[s]] /\ A = [s \in DOMAIN A |-> A[s]]
  BY <1>3
<1>. QED  BY <1>2, <1>3, <1>4, <1>5 DEF Planned

LEMMA ReportIs ==
  ASSUME NEW w, NEW k
  PROVE  /\ k \in DOMAIN Report(w) <=> k \in OpenRange(w) /\ HasValue(w.acc[k])
         /\ k \in DOMAIN Report(w) => Report(w)[k] = DecisionOf(w.acc[k])
         /\ DOMAIN Report(w) \subseteq OpenRange(w)
         /\ Report(w) = [s \in DOMAIN Report(w) |-> Report(w)[s]]
<1>1. PICK D : D = {r \in OpenRange(w) : HasValue(w.acc[r])}
  OBVIOUS
<1>2. Report(w) = [s \in D |-> DecisionOf(w.acc[s])]
  BY <1>1 DEF Report, DecisionOf
<1>. QED  BY <1>1, <1>2

LEMMA PrepareFollows ==
  ASSUME NEW w, Sound(w), AllSettled(w), NEW b \in Ballot,
         NEW stops, stops = PrepareStops(w, b),
         NEW T, T = Reached(OpenSlots(w), stops),
         NEW F, F = Const(T, b), NEW A, A = [s \in T |-> ReceivePrepare(w.acc[s], b)],
         NEW c, c = [type |-> "Prepare", bal |-> b], NEW bal, bal = PreparePreempted(w, b)
  PROVE  Follows(c, w, T, F, A, OpenRange(w), Report(w), stops, "Reject", bal)
<1>1. Planned(w, T, F, A) /\ GoodWindow(w, BallotOption)
  BY PreparePlan DEF Sound
<1>2. /\ \A s \in T : ~ResolvedAt(w, s)
      /\ \A s \in stops : s \in Nat /\ ~ResolvedAt(w, s) /\ Rejects(w.acc[s], b)
      /\ \A s \in T : \A t \in stops : s <= t
      /\ stops \subseteq OpenRange(w)
  BY <1>1, Unrejected
<1>3. SUFFICES ASSUME NEW k \in OpenRange(w), NEW v, NEW out,
                      Sweep(w, T, F, A, k, v), Unstopped(stops, k)
               PROVE  Advances(c, w, T, F, A, Report(w), stops, "Reject", bal, k, v, out)
  BY DEF Follows
<1>4. PICK x : x = State(v, out, "No", NoBallot)
  OBVIOUS
<1>5. Visit(c, x, k) = PrepareVisit(x, k, b)
  BY <1>4, VisitPrepare
<1>6. x.vec = v /\ x.out = out
  BY <1>4, States
<1>7. k \in WindowSlot /\ k \in Nat /\ k < w.end
  <2>1. w.min \in Nat /\ w.end \in Nat /\ OpenRange(w) \subseteq WindowSlot
    BY <1>1, SweptNumbers, WindowRange
  <2>. QED  BY <2>1, SlotBound DEF OpenRange
<1>8. CASE ResolvedAt(w, k)
  <2>1. k \notin T /\ k \notin stops
    BY <1>2, <1>8
  <2>2. SlotMut(v, k) = "Resolved" /\ DecisionAt(v, k) = DecisionOf(w.acc[k])
    BY <1>1, <1>3, <1>7, <1>8, SlotKind
  <2>3. PICK e : e = Collect(out, k, DecisionOf(w.acc[k]))
    OBVIOUS
  <2>4. PrepareVisit(x, k, b) = Going(x, v, e)
    BY <1>6, <2>2, <2>3 DEF PrepareVisit
  <2>5. With(Report(w), k, out) = e
    <3>1. HasValue(w.acc[k])
      BY <1>8 DEF ResolvedAt, IsResolved, HasValue
    <3>2. k \in DOMAIN Report(w) /\ Report(w)[k] = DecisionOf(w.acc[k])
      BY <3>1, ReportIs
    <3>. QED  BY <2>3, <3>2 DEF With
  <2>6. Sweep(w, T, F, A, k + 1, v)
    BY <1>1, <1>3, <1>7, <2>1, PassSlot
  <2>7. Visit(c, x, k) = State(v, e, "No", NoBallot)
    BY <1>4, <1>5, <2>4, GoingIs
  <2>. QED  BY <1>4, <2>1, <2>5, <2>6, <2>7 DEF Advances
<1>9. ASSUME ~ResolvedAt(w, k)
      PROVE  /\ SlotMut(v, k) # "Resolved" /\ SlotMut(v, k) # "Empty" /\ Filled(v, k) = v
             /\ AcceptorAt(v, k) = w.acc[k]
  BY <1>1, <1>3, <1>7, <1>9, OpenFound
<1>10. CASE ~ResolvedAt(w, k) /\ Rejects(w.acc[k], b)
  <2>1. k \in stops
    BY <1>10 DEF PrepareStops
  <2>2. k \notin T
    <3>1. \A t \in stops : k \in T => k < t
      BY DEF Reached
    <3>. QED  BY <1>7, <2>1, <3>1
  <2>3. PICK a, u : a = w.acc[k] /\ u = SetAcceptor(v, k, a)
    OBVIOUS
  <2>4. Sweep(w, T, F, A, k + 1, u)
    BY <1>1, <1>3, <1>7, <1>9, <1>10, <2>2, <2>3, SameSlot
  <2>5. PrepareVisit(x, k, b) = Preempted(x, u, a.promised)
    <3>1. SlotMut(x.vec, k) # "Resolved" /\ AcceptorAt(x.vec, k) = a /\ Rejects(a, b)
      BY <1>6, <1>9, <1>10, <2>3
    <3>. QED  BY <1>6, <2>3, <3>1 DEF PrepareVisit
  <2>6. Visit(c, x, k) = State(u, out, "Reject", a.promised)
    BY <1>4, <1>5, <2>5, PreemptedIs
  <2>7. bal = a.promised
    <3>1. stops # {} /\ stops \in SUBSET Nat
      BY <1>2, <2>1
    <3>2. Min(stops) \in stops /\ \A t \in stops : Min(stops) <= t
      BY <3>1, MinIn
    <3>3. Min(stops) <= k /\ ~(Min(stops) < k) /\ Min(stops) \in Nat
      BY <1>2, <1>3, <2>1, <3>2 DEF Unstopped
    <3>4. Min(stops) = k
      BY <1>7, <3>3
    <3>. QED  BY <2>3, <3>1, <3>4 DEF PreparePreempted
  <2>. QED  BY <1>4, <2>1, <2>4, <2>6, <2>7 DEF Advances
<1>11. CASE ~ResolvedAt(w, k) /\ ~Rejects(w.acc[k], b)
  <2>1. k \notin stops
    BY <1>11 DEF PrepareStops
  <2>2. \A t \in stops : k < t
    BY <1>2, <1>3, <1>7, <2>1 DEF Unstopped
  <2>3. k \in T
    BY <1>11, <2>2 DEF Reached, OpenSlots
  <2>4. PICK a, r : a = w.acc[k] /\ r = ReceivePrepare(a, b)
    OBVIOUS
  <2>5. A[k] = r /\ k \in DOMAIN A
    BY <2>3, <2>4
  <2>6. PICK u : u = SetAcceptor(v, k, r)
    OBVIOUS
  <2>7. Sweep(w, T, F, A, k + 1, u)
    <3>1. Sweep(w, T, F, A, k + 1, SetAcceptor(Filled(v, k), k, A[k]))
      BY <1>1, <1>3, <2>5, VisitSlot
    <3>2. Filled(v, k) = v
      BY <1>9, <1>11
    <3>. QED  BY <2>5, <2>6, <3>1, <3>2
  <2>8. PICK e : e = IF HasValue(a) THEN Collect(out, k, DecisionOf(a)) ELSE out
    OBVIOUS
  <2>9. PrepareVisit(x, k, b) = Going(x, u, e)
    <3>1. SlotMut(x.vec, k) # "Resolved" /\ AcceptorAt(x.vec, k) = a /\ ~Rejects(a, b)
      BY <1>6, <1>9, <1>11, <2>4
    <3>. QED  BY <1>6, <2>4, <2>6, <2>8, <3>1 DEF PrepareVisit
  <2>10. With(Report(w), k, out) = e
    BY <2>4, <2>8, ReportIs DEF With
  <2>11. Visit(c, x, k) = State(u, e, "No", NoBallot)
    BY <1>4, <1>5, <2>9, GoingIs
  <2>. QED  BY <1>4, <2>1, <2>7, <2>10, <2>11 DEF Advances
<1>. QED  BY <1>8, <1>10, <1>11

\* A loop over the open range opens no slot.
LEMMA OpenEnd ==
  ASSUME NEW w, GoodWindow(w, BallotOption), NEW F, NEW A
  PROVE  /\ w.end - 1 \in WindowSlot /\ ~(w.end <= w.end - 1)
         /\ \A s \in OpenRange(w) : ~(w.end <= s)
         /\ Visited(w, F, A, w.end - 1) = Update(w, A)
<1>1. w.end - 1 \in WindowSlot /\ w.end \in Nat /\ w.min \in Nat /\ IsWindow(w)
  BY WindowRange, SweptNumbers
<1>2. ~(w.end <= w.end - 1)
  BY <1>1
<1>3. PICK last : last = w.end - 1
  OBVIOUS
<1>4. OpenUpTo(w, F, last) = w
  BY <1>1, <1>2, <1>3, NothingOpened
<1>5. \A s \in OpenRange(w) : ~(w.end <= s)
  BY <1>1 DEF OpenRange
<1>. QED  BY <1>1, <1>2, <1>3, <1>4, <1>5 DEF Visited

LEMMA SameReport ==
  ASSUME NEW w, NEW u, OpenRange(u) = OpenRange(w),
         \A s \in OpenRange(w) : /\ HasValue(u.acc[s]) <=> HasValue(w.acc[s])
                                 /\ u.acc[s].bal = w.acc[s].bal /\ u.acc[s].val = w.acc[s].val
  PROVE  Report(u) = Report(w)
<1>1. PICK D : D = {r \in OpenRange(w) : HasValue(w.acc[r])}
  OBVIOUS
<1>2. {r \in OpenRange(u) : HasValue(u.acc[r])} = D
  BY <1>1
<1>3. \A s \in D : [bal |-> u.acc[s].bal, val |-> u.acc[s].val]
                     = [bal |-> w.acc[s].bal, val |-> w.acc[s].val]
  BY <1>1
<1>4. [s \in D |-> [bal |-> u.acc[s].bal, val |-> u.acc[s].val]]
        = [s \in D |-> [bal |-> w.acc[s].bal, val |-> w.acc[s].val]]
  BY <1>3
<1>. QED  BY <1>1, <1>2, <1>4 DEF Report

LEMMA PrepareReport ==
  ASSUME NEW w, GoodWindow(w, BallotOption), NEW b
  PROVE  Report(PrepareWindow(w, b)) = Report(w)
<1>1. PICK T : T = Reached(OpenSlots(w), PrepareStops(w, b))
  OBVIOUS
<1>2. PICK A : A = [s \in T |-> ReceivePrepare(w.acc[s], b)]
  OBVIOUS
<1>3. PICK u : u = Update(w, A)
  OBVIOUS
<1>4. u = PrepareWindow(w, b)
  BY <1>1, <1>2, <1>3 DEF PrepareWindow
<1>5. /\ IsWindow(w) /\ OpenRange(w) \subseteq WindowSlot
      /\ \A s \in WindowSlot : w.acc[s] \in Acceptor
  BY SweptNumbers, WindowRange DEF GoodWindow, GoodAcceptor
<1>6. /\ u.min = w.min /\ u.end = w.end
      /\ \A t \in WindowSlot : u.acc[t] = IF t \in DOMAIN A THEN A[t] ELSE w.acc[t]
  <2>1. IsWindow(w)
    BY <1>5
  <2>2. LET z == Update(w, A)
        IN  /\ z.min = w.min /\ z.end = w.end
            /\ \A t \in WindowSlot : z.acc[t] = IF t \in DOMAIN A THEN A[t] ELSE w.acc[t]
    BY <2>1, UpdateIs
  <2>. QED  BY <1>3, <2>2
<1>7. ASSUME NEW s \in OpenRange(w)
      PROVE  u.acc[s].st = w.acc[s].st /\ u.acc[s].bal = w.acc[s].bal
             /\ u.acc[s].val = w.acc[s].val
  <2>1. s \in WindowSlot
    BY <1>5
  <2>2. CASE s \in T
    <3>1. ~IsResolved(w.acc[s])
      BY <1>1, <2>2 DEF Reached, OpenSlots, ResolvedAt
    <3>2. u.acc[s] = ReceivePrepare(w.acc[s], b)
      BY <1>2, <1>6, <2>1, <2>2
    <3>. QED  BY <1>5, <2>1, <3>1, <3>2, ReceivePrepareIs
  <2>3. CASE s \notin T
    BY <1>2, <1>6, <2>1, <2>3
  <2>. QED  BY <2>2, <2>3
<1>8. OpenRange(u) = OpenRange(w)
  BY <1>6 DEF OpenRange
<1>. QED  BY <1>4, <1>7, <1>8, SameReport DEF HasValue

LEMMA PrepareLoop ==
  ASSUME NEW v, NEW w, Ready(v, w), NEW b \in Ballot
  PROVE  LET x == Loop([type |-> "Prepare", bal |-> b], v, OpenIndices(v))
             u == PrepareWindow(w, b)
         IN  /\ GoodVector(x.vec) /\ AsWindow(x.vec) = u
             /\ x.preempted = PreparePreempted(w, b)
             /\ (IF x.stop = "No" THEN x.out ELSE <<>>)
                  = IF PrepareStops(w, b) = {} THEN Report(u) ELSE <<>>
<1>1. PICK c : c = [type |-> "Prepare", bal |-> b]
  OBVIOUS
<1>2. PICK stops : stops = PrepareStops(w, b)
  OBVIOUS
<1>3. PICK T : T = Reached(OpenSlots(w), stops)
  OBVIOUS
<1>4. PICK F : F = Const(T, b)
  OBVIOUS
<1>5. PICK A : A = [s \in T |-> ReceivePrepare(w.acc[s], b)]
  OBVIOUS
<1>6. PICK bal : bal = PreparePreempted(w, b)
  OBVIOUS
<1>7. PICK slots : slots = OpenRange(w)
  OBVIOUS
<1>8. /\ GoodVector(v) /\ w = AsWindow(v) /\ Sound(w) /\ AllSettled(w)
      /\ GoodWindow(w, BallotOption) /\ Logged(w) /\ OpenIndices(v) = slots
  BY <1>7, ReadySettled, OpenIndicesAs DEF Ready, Sound
<1>9. Planned(w, T, F, A)
  BY <1>2, <1>3, <1>4, <1>5, <1>8, PreparePlan
<1>10. Follows(c, w, T, F, A, slots, Report(w), stops, "Reject", bal)
  BY <1>1, <1>2, <1>3, <1>4, <1>5, <1>6, <1>7, <1>8, PrepareFollows
<1>11. /\ T \subseteq slots /\ stops \subseteq slots /\ \A s \in T : \A t \in stops : s <= t
  BY <1>2, <1>3, <1>7, <1>8, Unrejected
<1>12. Stands(w, T, F, A, slots, Report(w), stops, "Reject")
  <2>1. slots \subseteq WindowSlot
    BY <1>7, <1>8, WindowRange
  <2>2. /\ DOMAIN Report(w) \subseteq slots
        /\ Report(w) = [s \in DOMAIN Report(w) |-> Report(w)[s]]
    BY <1>7, ReportIs
  <2>. QED  BY <1>9, <1>11, <2>1, <2>2 DEF Stands
<1>13. PICK last : last = w.end - 1
  OBVIOUS
<1>14. /\ last \in WindowSlot /\ ~(w.end <= last) /\ \A s \in T : ~(w.end <= s)
       /\ Visited(w, F, A, last) = Update(w, A)
  BY <1>7, <1>8, <1>11, <1>13, OpenEnd
<1>15. PICK x : x = Loop(c, v, slots)
  OBVIOUS
<1>16. /\ GoodVector(x.vec) /\ AsWindow(x.vec) = FillDecisions(Visited(w, F, A, last))
       /\ stops = {} => x.out = Report(w) /\ x.stop = "No" /\ x.preempted = NoBallot
       /\ stops # {} => x.stop = "Reject" /\ x.preempted = bal
  BY <1>8, <1>10, <1>12, <1>14, <1>15, LoopEnds
<1>17. PICK u : u = PrepareWindow(w, b)
  OBVIOUS
<1>18. Visited(w, F, A, last) = u
  BY <1>2, <1>3, <1>5, <1>14, <1>17 DEF PrepareWindow
<1>19. FillDecisions(u) = u
  <2>1. b \in BallotOption /\ Ballots(BallotOption)
    BY AllBallots DEF Ballot, BallotOption
  <2>2. GoodWindow(u, BallotOption)
    BY <1>8, <1>17, <2>1, PrepareWindowGood
  <2>3. Logged(u)
    BY <1>8, <1>17, PrepareLogged
  <2>. QED  BY <2>2, <2>3, LoggedIsFilled
<1>20. Report(u) = Report(w)
  BY <1>8, <1>17, PrepareReport
<1>21. x.preempted = bal
  BY <1>2, <1>6, <1>16 DEF PreparePreempted
<1>22. (IF x.stop = "No" THEN x.out ELSE <<>>) = IF stops = {} THEN Report(u) ELSE <<>>
  BY <1>16, <1>20
<1>. QED  BY <1>1, <1>2, <1>6, <1>8, <1>15, <1>16, <1>17, <1>18, <1>19, <1>21, <1>22

(***************************************************************************)
(* promise, drive_accept and a proposal notice values: in the slots T, at  *)
(* the ballots F, the values X.                                            *)
(***************************************************************************)
Notices(w, T, F, X, A) ==
  /\ Sound(w) /\ AllSettled(w)
  /\ T \in SUBSET Slot /\ \A s \in T : ~ResolvedAt(w, s)
  /\ F \in [T -> BallotOption \ {NoBallot}] /\ \A s \in T : X[s] \in Value
  /\ A = [s \in T |-> NoticeValue(Opened(w, F).acc[s], F[s], X[s])]

LEMMA NoticeIs ==
  ASSUME NEW a, NEW b, NEW val, Settled(a)
  PROVE  LET n == NoticeValue(a, b, val)
         IN  /\ n.promised = a.promised \/ n.promised = b
             /\ Settled(n)
<1>1. PICK n : n = NoticeValue(a, b, val)
  OBVIOUS
<1>2. CASE ~IsResolved(a) /\ Less(a.bal, b)
  <2>1. PICK h : h = Higher(a.promised, b)
    OBVIOUS
  <2>2. n = AwaitQuorum(h, b, val)
    BY <1>1, <1>2, <2>1 DEF NoticeValue
  <2>3. h \in {a.promised, b}
    BY <2>1, HigherIn
  <2>4. n.promised = h /\ n.st = "AwaitQuorum"
    BY <2>2 DEF AwaitQuorum
  <2>. QED  BY <1>1, <2>3, <2>4 DEF Settled, IsResolved, HasValue
<1>3. CASE ~(~IsResolved(a) /\ Less(a.bal, b))
  <2>1. n = a
    BY <1>1, <1>3 DEF NoticeValue
  <2>. QED  BY <1>1, <2>1
<1>. QED  BY <1>2, <1>3

LEMMA NoticePlan ==
  ASSUME NEW w, NEW T, NEW F, NEW X, NEW A, Notices(w, T, F, X, A)
  PROVE  Planned(w, T, F, A)
<1>1. /\ Sound(w) /\ AllSettled(w) /\ Ballots(BallotOption) /\ GoodWindow(w, BallotOption)
      /\ w.max \in BallotOption
  BY AllBallots, SweptNumbers DEF Notices, Sound
<1>2. /\ T \in SUBSET WindowSlot /\ \A s \in T : s # MaxSlot + 1 /\ ~ResolvedAt(w, s)
  BY SlotBound DEF Notices
<1>3. /\ F \in [T -> BallotOption] /\ DOMAIN F = T
      /\ \A s \in T : F[s] \in BallotOption /\ F[s] # NoBallot
  BY DEF Notices
<1>4. PICK last : last = LastOf(w, DOMAIN F)
  OBVIOUS
<1>5. last \in WindowSlot /\ \A s \in T : s <= last
  BY <1>1, <1>2, <1>3, <1>4, LastIs
<1>6. \A s \in T : Found(w, F, s, OpenUpTo(w, F, last).acc[s])
  BY <1>1, <1>2, <1>3, <1>5, VisitFinds
<1>7. Opened(w, F) = OpenUpTo(w, F, last)
  BY <1>4 DEF Opened
<1>8. ASSUME NEW s \in T
      PROVE  /\ GoodAcceptor(A[s], BallotOption) /\ Settled(A[s])
             /\ s = MaxSlot + 1 => ~HasValue(A[s])
             /\ F[s] \in BallotOption
             /\ AtMost(F[s], A[s].promised)
             /\ AtMost(A[s].promised, FreshPromise(w, F, s + 1))
  <2>1. PICK a, b, x, n : /\ a = Opened(w, F).acc[s] /\ b = F[s] /\ x = X[s]
                          /\ n = NoticeValue(a, b, x)
    OBVIOUS
  <2>2. PICK h : h = FreshPromise(w, F, s + 1)
    OBVIOUS
  <2>3. /\ GoodAcceptor(a, BallotOption) /\ ~IsResolved(a) /\ Settled(a)
        /\ AtMost(a.bal, a.promised) /\ AtMost(a.promised, h) /\ AtMost(b, h)
    BY <1>6, <1>7, <2>1, <2>2 DEF Found
  <2>4. b \in BallotOption /\ b # NoBallot /\ x \in Value
    BY <1>3, <2>1 DEF Notices
  <2>5. A[s] = n
    BY <2>1 DEF Notices
  <2>6. GoodAcceptor(n, BallotOption)
    BY <1>1, <2>1, <2>3, <2>4, NoticeValueGood
  <2>7. AtMost(b, n.promised)
    BY <1>1, <2>1, <2>3, <2>4, NoticeBounds
  <2>8. (n.promised = a.promised \/ n.promised = b) /\ Settled(n)
    BY <2>1, <2>3, NoticeIs
  <2>9. AtMost(n.promised, h)
    BY <2>3, <2>8
  <2>. QED  BY <1>2, <2>1, <2>2, <2>4, <2>5, <2>6, <2>7, <2>8, <2>9
<1>9. /\ DOMAIN A = T /\ F = [s \in DOMAIN A |-> F[s]] /\ A = [s \in DOMAIN A |-> A[s]]
  BY DEF Notices
<1>. QED  BY <1>1, <1>2, <1>3, <1>8, <1>9 DEF Planned

LEMMA NoticeSlot ==
  ASSUME NEW w, NEW T, NEW F, NEW X, NEW A, Notices(w, T, F, X, A),
         NEW k \in T, NEW v, Sweep(w, T, F, A, k, v)
  PROVE  LET o == Filled(v, k)
         IN  /\ SlotMut(v, k) # "Resolved"
             /\ Sweep(w, T, F, A, k + 1,
                      SetAcceptor(o, k, NoticeValue(AcceptorAt(o, k), F[k], X[k])))
<1>1. Planned(w, T, F, A)
  BY NoticePlan
<1>2. /\ GoodWindow(w, BallotOption) /\ DOMAIN F = T /\ T \in SUBSET WindowSlot
  BY SlotBound DEF Notices, Sound
<1>3. PICK last : last = LastOf(w, DOMAIN F)
  OBVIOUS
<1>4. last \in WindowSlot /\ \A s \in T : s <= last
  BY <1>2, <1>3, LastIs
<1>5. PICK o : o = Filled(v, k)
  OBVIOUS
<1>6. AcceptorAt(Filled(v, k), k) = OpenUpTo(w, F, last).acc[k] /\ SlotMut(v, k) # "Resolved"
  BY <1>1, <1>4, FoundSlot
<1>7. AcceptorAt(o, k) = Opened(w, F).acc[k]
  BY <1>3, <1>5, <1>6 DEF Opened
<1>8. A[k] = NoticeValue(AcceptorAt(o, k), F[k], X[k]) /\ k \in DOMAIN A
  BY <1>7 DEF Notices
<1>9. Sweep(w, T, F, A, k + 1, SetAcceptor(Filled(v, k), k, A[k]))
  BY <1>1, <1>8, VisitSlot
<1>. QED  BY <1>5, <1>6, <1>8, <1>9

(***************************************************************************)
(* promise                                                                 *)
(***************************************************************************)
LEMMA VisitPromise ==
  ASSUME NEW v, NEW out, NEW s, NEW report
  PROVE  LET x == State(v, out, "No", NoBallot)
         IN  Visit([type |-> "Promise", report |-> report], x, s) = PromiseVisit(x, s, report)
<1>1. PICK x : x = State(v, out, "No", NoBallot)
  OBVIOUS
<1>2. x.stop = "No"
  BY <1>1, States
<1>. QED  BY <1>1, <1>2 DEF Visit

LEMMA PromiseFollows ==
  ASSUME NEW w, NEW report, NEW T, T = {s \in DOMAIN report : ~ResolvedAt(w, s)},
         NEW F, NEW X, NEW A, Notices(w, T, F, X, A),
         \A s \in T : F[s] = report[s].bal /\ X[s] = report[s].val,
         DOMAIN report \subseteq Slot,
         NEW c, c = [type |-> "Promise", report |-> report]
  PROVE  Follows(c, w, T, F, A, DOMAIN report, <<>>, {}, "Reject", NoBallot)
<1>1. Planned(w, T, F, A)
  BY NoticePlan
<1>2. DOMAIN report \subseteq WindowSlot
  BY SlotBound
<1>3. SUFFICES ASSUME NEW k \in DOMAIN report, NEW v, NEW out, Sweep(w, T, F, A, k, v)
               PROVE  Advances(c, w, T, F, A, <<>>, {}, "Reject", NoBallot, k, v, out)
  BY DEF Follows
<1>4. PICK x : x = State(v, out, "No", NoBallot)
  OBVIOUS
<1>5. Visit(c, x, k) = PromiseVisit(x, k, report)
  BY <1>4, VisitPromise
<1>6. x.vec = v /\ x.out = out
  BY <1>4, States
<1>7. SUFFICES \E u : /\ Sweep(w, T, F, A, k + 1, u)
                      /\ PromiseVisit(x, k, report) = State(u, out, "No", NoBallot)
  BY <1>4, <1>5, NothingCollected DEF Advances
<1>8. CASE k \in T
  <2>1. PICK o, a, u : /\ o = Filled(v, k) /\ a = AcceptorAt(o, k)
                       /\ u = SetAcceptor(o, k, NoticeValue(a, F[k], X[k]))
    OBVIOUS
  <2>2. SlotMut(v, k) # "Resolved" /\ Sweep(w, T, F, A, k + 1, u)
    BY <1>3, <1>8, <2>1, NoticeSlot
  <2>3. PromiseVisit(x, k, report) = Going(x, u, out)
    <3>1. SlotMut(x.vec, k) # "Resolved" /\ Filled(x.vec, k) = o
      BY <1>6, <2>1, <2>2
    <3>2. PromiseVisit(x, k, report)
            = Going(x, SetAcceptor(o, k, NoticeValue(AcceptorAt(o, k), report[k].bal,
                                                     report[k].val)), x.out)
      BY <3>1 DEF PromiseVisit
    <3>3. F[k] = report[k].bal /\ X[k] = report[k].val
      BY <1>8
    <3>. QED  BY <1>6, <2>1, <3>2, <3>3
  <2>4. Going(x, u, out) = State(u, out, "No", NoBallot)
    BY <1>4, GoingIs
  <2>. QED  BY <2>2, <2>3, <2>4
<1>9. CASE k \notin T
  <2>1. ResolvedAt(w, k) /\ k \in WindowSlot /\ k \in Nat
    BY <1>2, <1>9, SlotBound
  <2>2. SlotMut(v, k) = "Resolved"
    BY <1>1, <1>3, <2>1, SlotKind
  <2>3. PromiseVisit(x, k, report) = x
    BY <1>6, <2>2 DEF PromiseVisit
  <2>4. Sweep(w, T, F, A, k + 1, v)
    BY <1>1, <1>3, <1>9, <2>1, PassSlot
  <2>. QED  BY <1>4, <2>3, <2>4
<1>. QED  BY <1>8, <1>9

LEMMA PromiseLoop ==
  ASSUME NEW v, NEW w, Ready(v, w), NEW report, GoodReport(report, BallotOption)
  PROVE  LET x == Loop([type |-> "Promise", report |-> report], v, DOMAIN report)
         IN  GoodVector(x.vec) /\ AsWindow(x.vec) = NoticeReport(w, report)
<1>1. PICK c : c = [type |-> "Promise", report |-> report]
  OBVIOUS
<1>2. PICK T : T = {s \in DOMAIN report : ~ResolvedAt(w, s)}
  OBVIOUS
<1>3. PICK F : F = [s \in T |-> report[s].bal]
  OBVIOUS
<1>4. PICK X : X = [s \in T |-> report[s].val]
  OBVIOUS
<1>5. PICK A : A = [s \in T |-> NoticeValue(Opened(w, F).acc[s], F[s], X[s])]
  OBVIOUS
<1>6. /\ GoodVector(v) /\ w = AsWindow(v) /\ Sound(w) /\ AllSettled(w)
      /\ GoodWindow(w, BallotOption) /\ Logged(w)
  BY ReadySettled DEF Ready, Sound
<1>7. /\ DOMAIN report \subseteq Slot /\ T \subseteq DOMAIN report
      /\ \A s \in DOMAIN report : /\ report[s].bal \in BallotOption \ {NoBallot}
                                  /\ report[s].val \in Value
  BY <1>2, ReportSlots
<1>8. Notices(w, T, F, X, A)
  <2>1. F \in [T -> BallotOption \ {NoBallot}] /\ \A s \in T : X[s] \in Value
    BY <1>3, <1>4, <1>7
  <2>2. T \in SUBSET Slot /\ \A s \in T : ~ResolvedAt(w, s)
    BY <1>2, <1>7
  <2>. QED  BY <1>5, <1>6, <2>1, <2>2 DEF Notices
<1>9. Planned(w, T, F, A)
  BY <1>8, NoticePlan
<1>10. Follows(c, w, T, F, A, DOMAIN report, <<>>, {}, "Reject", NoBallot)
  <2>1. \A s \in T : F[s] = report[s].bal /\ X[s] = report[s].val
    BY <1>3, <1>4
  <2>. QED  BY <1>1, <1>2, <1>7, <1>8, <2>1, PromiseFollows
<1>11. Stands(w, T, F, A, DOMAIN report, <<>>, {}, "Reject")
  <2>1. DOMAIN report \subseteq WindowSlot
    BY <1>7, SlotBound
  <2>2. DOMAIN <<>> \subseteq DOMAIN report /\ <<>> = [s \in DOMAIN <<>> |-> <<>>[s]]
    BY NothingCollected
  <2>. QED  BY <1>7, <1>9, <2>1, <2>2 DEF Stands
<1>12. PICK last : last = LastOf(w, T)
  OBVIOUS
<1>13. last \in WindowSlot /\ (\A s \in T : s <= last) /\ (w.end <= last => last \in T)
  <2>1. T \in SUBSET WindowSlot
    BY <1>7, SlotBound
  <2>. QED  BY <1>6, <1>12, <2>1, LastIs
<1>14. PICK x : x = Loop(c, v, DOMAIN report)
  OBVIOUS
<1>15. GoodVector(x.vec) /\ AsWindow(x.vec) = FillDecisions(Visited(w, F, A, last))
  BY <1>6, <1>10, <1>11, <1>13, <1>14, LoopEnds
<1>16. Visited(w, F, A, last) = Update(Opened(w, F), A)
  <2>1. DOMAIN F = T
    BY <1>3
  <2>. QED  BY <1>12, <2>1, VisitedSame
<1>17. PICK u : u = NoticeReport(w, report)
  OBVIOUS
<1>18. u = Update(Opened(w, F), A)
  <2>1. A = [s \in T |-> NoticeValue(Opened(w, F).acc[s], report[s].bal, report[s].val)]
    BY <1>3, <1>4, <1>5
  <2>. QED  BY <1>2, <1>3, <1>17, <2>1 DEF NoticeReport
<1>19. FillDecisions(u) = u
  <2>1. GoodWindow(u, BallotOption) /\ Logged(u)
    BY <1>6, <1>17, AllBallots, NoticeReportGood, NoticeReportLogged
  <2>. QED  BY <2>1, LoggedIsFilled
<1>. QED  BY <1>1, <1>14, <1>15, <1>16, <1>17, <1>18, <1>19

(***************************************************************************)
(* accepted                                                                *)
(***************************************************************************)
LEMMA VisitAccepted ==
  ASSUME NEW v, NEW out, NEW s, NEW peer, NEW b, NEW slots
  PROVE  LET x == State(v, out, "No", NoBallot)
         IN  Visit([type |-> "Accepted", peer |-> peer, bal |-> b, slots |-> slots], x, s)
               = AcceptedVisit(x, s, peer, b)
<1>1. PICK x : x = State(v, out, "No", NoBallot)
  OBVIOUS
<1>2. x.stop = "No"
  BY <1>1, States
<1>. QED  BY <1>1, <1>2 DEF Visit

LEMMA ReceiveAcceptedIs ==
  ASSUME NEW a \in Acceptor, ~IsResolved(a), Settled(a), NEW peer, NEW b
  PROVE  LET r == ReceiveAccepted(a, peer, b)
         IN  Settled(r) /\ (IsResolved(r) => r.val = a.val)
<1>1. PICK q : q = a.quorum \cup {peer}
  OBVIOUS
<1>2. PICK r : r = ReceiveAccepted(a, peer, b)
  OBVIOUS
<1>3. ~HasValue(a) => a.st # "AwaitQuorum"
  BY DEF HasValue
<1>4. CASE a.st # "AwaitQuorum" \/ a.bal # b
  <2>1. r = a
    BY <1>2, <1>4 DEF ReceiveAccepted
  <2>. QED  BY <1>2, <2>1
<1>5. CASE a.st = "AwaitQuorum" /\ a.bal = b /\ EnoughAccepted(q)
  <2>1. r = Resolved(a.bal, a.val)
    BY <1>1, <1>2, <1>5 DEF ReceiveAccepted
  <2>2. r.val = a.val
    BY <2>1 DEF Resolved
  <2>. QED  BY <1>2, <1>3, <1>5, <2>1, <2>2, ResolvedSettled
<1>6. CASE a.st = "AwaitQuorum" /\ a.bal = b /\ ~EnoughAccepted(q)
  <2>1. r = [a EXCEPT !.quorum = q]
    BY <1>1, <1>2, <1>6 DEF ReceiveAccepted
  <2>2. r.st = "AwaitQuorum"
    BY <1>6, <2>1 DEF Acceptor
  <2>. QED  BY <1>2, <1>3, <1>6, <2>2 DEF Settled, IsResolved, HasValue
<1>. QED  BY <1>4, <1>5, <1>6

LEMMA Counted ==
  ASSUME NEW w, GoodWindow(w, BallotOption), NEW slots \in SUBSET Slot,
         NEW T, T = CountedSlots(w, slots), NEW stops, stops = AcceptedStops(w, slots)
  PROVE  /\ T \in SUBSET WindowSlot /\ T \subseteq slots /\ stops \subseteq slots
         /\ \A s \in T : /\ s \in OpenRange(w) /\ ~ResolvedAt(w, s) /\ s < w.end
                         /\ s # MaxSlot + 1 /\ \A t \in stops : s <= t
         /\ \A s \in slots : s \in stops <=> ResolvedAt(w, s)
<1>1. \A s \in T : /\ s \in slots /\ s \in OpenRange(w) /\ ~ResolvedAt(w, s)
                   /\ \A t \in stops : s < t
  BY DEF CountedSlots, Reached, OpenSlots
<1>2. \A s \in slots : s \in WindowSlot /\ s \in Nat /\ s # MaxSlot + 1
  BY SlotBound
<1>3. \A s \in slots : s \in stops <=> ResolvedAt(w, s)
  BY DEF AcceptedStops
<1>4. stops \subseteq slots
  BY DEF AcceptedStops
<1>5. \A s \in T : \A t \in stops : s <= t
  BY <1>1, <1>2, <1>4
<1>6. \A s \in OpenRange(w) : s < w.end
  <2>1. w.min \in Nat /\ w.end \in Nat
    BY SweptNumbers
  <2>. QED  BY <2>1 DEF OpenRange
<1>. QED  BY <1>1, <1>2, <1>3, <1>4, <1>5, <1>6

LEMMA AcceptedPlan ==
  ASSUME NEW w, Sound(w), AllSettled(w), NEW b \in Ballot, NEW peer \in Node,
         NEW slots \in SUBSET Slot, NEW T, T = CountedSlots(w, slots),
         NEW A, A = [s \in T |-> ReceiveAccepted(w.acc[s], peer, b)],
         NEW F, F = [s \in T |-> A[s].promised]
  PROVE  Planned(w, T, F, A)
<1>1. /\ b \in BallotOption /\ Ballots(BallotOption) /\ GoodWindow(w, BallotOption)
      /\ w.max \in BallotOption
  BY AllBallots, SweptNumbers DEF Sound, Ballot, BallotOption, NoBallot
<1>2. /\ T \in SUBSET WindowSlot
      /\ \A s \in T : ~ResolvedAt(w, s) /\ s \in WindowSlot /\ s # MaxSlot + 1
  BY <1>1, Counted
<1>3. DOMAIN F = T /\ DOMAIN A = T /\ \A s \in T : F[s] = A[s].promised
  OBVIOUS
<1>4. ASSUME NEW s \in T
      PROVE  /\ GoodAcceptor(A[s], BallotOption) /\ Settled(A[s])
             /\ F[s] \in BallotOption /\ AtMost(F[s], A[s].promised)
  <2>1. PICK a, r : a = w.acc[s] /\ r = ReceiveAccepted(a, peer, b)
    OBVIOUS
  <2>2. /\ GoodAcceptor(a, BallotOption) /\ ~IsResolved(a) /\ a \in Acceptor /\ Settled(a)
    BY <1>1, <1>2, <2>1 DEF GoodWindow, GoodAcceptor, ResolvedAt, AllSettled
  <2>3. GoodAcceptor(r, BallotOption)
    BY <1>1, <2>1, <2>2, ReceiveAcceptedGood
  <2>4. Settled(r)
    <3>1. Settled(ReceiveAccepted(a, peer, b))
      BY <2>2, ReceiveAcceptedIs
    <3>. QED  BY <2>1, <3>1
  <2>5. r.promised \in BallotOption
    BY <2>3 DEF GoodAcceptor
  <2>6. A[s] = r /\ F[s] = r.promised
    BY <1>3, <2>1
  <2>. QED  BY <2>3, <2>4, <2>5, <2>6, BallotOrder
<1>5. ASSUME NEW s \in T
      PROVE  AtMost(A[s].promised, FreshPromise(w, F, s + 1))
  <2>1. DOMAIN F \subseteq WindowSlot /\ \A p \in DOMAIN F : F[p] \in BallotOption
    BY <1>2, <1>3, <1>4
  <2>2. s \in DOMAIN F
    BY <1>3
  <2>3. AtMost(F[s], FreshPromise(w, F, s + 1))
    BY <1>1, <2>1, <2>2, FreshCovers
  <2>. QED  BY <1>3, <2>3
<1>6. F = [s \in DOMAIN A |-> F[s]] /\ A = [s \in DOMAIN A |-> A[s]]
  BY <1>3
<1>. QED  BY <1>2, <1>3, <1>4, <1>5, <1>6 DEF Planned

LEMMA NewlyResolvedIs ==
  ASSUME NEW w, NEW peer, NEW b, NEW slots, NEW T, T = CountedSlots(w, slots),
         NEW A, A = [s \in T |-> ReceiveAccepted(w.acc[s], peer, b)],
         NEW G, G = NewlyResolved(w, peer, b, slots), NEW k
  PROVE  /\ k \in DOMAIN G <=> k \in T /\ IsResolved(A[k])
         /\ k \in DOMAIN G => G[k] = w.acc[k].val
         /\ DOMAIN G \subseteq T
         /\ G = [s \in DOMAIN G |-> G[s]]
<1>1. PICK D : D = {r \in T : IsResolved(ReceiveAccepted(w.acc[r], peer, b))}
  OBVIOUS
<1>2. G = [s \in D |-> w.acc[s].val]
  BY <1>1 DEF NewlyResolved
<1>3. \A s \in T : A[s] = ReceiveAccepted(w.acc[s], peer, b)
  OBVIOUS
<1>4. DOMAIN G = D /\ D \subseteq T
  BY <1>1, <1>2
<1>5. k \in D <=> k \in T /\ IsResolved(A[k])
  BY <1>1, <1>3
<1>6. G = [s \in DOMAIN G |-> G[s]]
  BY <1>2
<1>7. k \in D => G[k] = w.acc[k].val
  BY <1>2
<1>. QED  BY <1>4, <1>5, <1>6, <1>7

LEMMA AcceptedFollows ==
  ASSUME NEW w, Sound(w), AllSettled(w), NEW b \in Ballot, NEW peer \in Node,
         NEW slots \in SUBSET Slot, NEW T, T = CountedSlots(w, slots),
         NEW A, A = [s \in T |-> ReceiveAccepted(w.acc[s], peer, b)],
         NEW F, F = [s \in T |-> A[s].promised],
         NEW G, G = NewlyResolved(w, peer, b, slots),
         NEW stops, stops = AcceptedStops(w, slots),
         NEW c, c = [type |-> "Accepted", peer |-> peer, bal |-> b, slots |-> slots]
  PROVE  Follows(c, w, T, F, A, slots, G, stops, "Resolved", NoBallot)
<1>1. Planned(w, T, F, A) /\ GoodWindow(w, BallotOption) /\ Logged(w)
  BY AcceptedPlan DEF Sound
<1>2. /\ \A s \in T : ~ResolvedAt(w, s) /\ s < w.end
      /\ \A s \in slots : s \in stops <=> ResolvedAt(w, s)
      /\ stops \subseteq slots
  BY <1>1, Counted
<1>3. SUFFICES ASSUME NEW k \in slots, NEW v, NEW out,
                      Sweep(w, T, F, A, k, v), Unstopped(stops, k)
               PROVE  Advances(c, w, T, F, A, G, stops, "Resolved", NoBallot, k, v, out)
  BY DEF Follows
<1>4. PICK x : x = State(v, out, "No", NoBallot)
  OBVIOUS
<1>5. Visit(c, x, k) = AcceptedVisit(x, k, peer, b)
  BY <1>4, VisitAccepted
<1>6. x.vec = v /\ x.out = out
  BY <1>4, States
<1>7. k \in WindowSlot /\ k \in Nat
  BY SlotBound
<1>8. /\ k \in DOMAIN G <=> k \in T /\ IsResolved(A[k])
      /\ k \in DOMAIN G => G[k] = w.acc[k].val
  BY NewlyResolvedIs
<1>9. CASE ResolvedAt(w, k)
  <2>1. k \notin T /\ k \in stops
    BY <1>2, <1>9
  <2>2. SlotMut(v, k) = "Resolved"
    BY <1>1, <1>3, <1>7, <1>9, SlotKind
  <2>3. AcceptedVisit(x, k, peer, b) = [x EXCEPT !.stop = "Resolved"]
    BY <1>6, <2>2 DEF AcceptedVisit
  <2>4. [x EXCEPT !.stop = "Resolved"] = State(v, out, "Resolved", NoBallot)
    BY <1>4, States
  <2>5. Sweep(w, T, F, A, k + 1, v)
    BY <1>1, <1>3, <1>7, <2>1, PassSlot
  <2>. QED  BY <1>4, <1>5, <2>1, <2>3, <2>4, <2>5 DEF Advances
<1>10. ASSUME ~ResolvedAt(w, k)
       PROVE  SlotMut(v, k) # "Resolved" /\ k \notin stops
  <2>1. SlotMut(v, k) # "Resolved"
    BY <1>1, <1>3, <1>7, <1>10, SlotKind
  <2>. QED  BY <1>2, <1>10, <2>1
<1>11. CASE ~ResolvedAt(w, k) /\ SlotMut(v, k) = "Empty"
  <2>1. k \notin T
    <3>1. k < w.end => SlotMut(v, k) # "Empty"
      BY <1>1, <1>3, <1>7, SlotKind
    <3>. QED  BY <1>2, <1>11, <3>1
  <2>2. SlotMut(x.vec, k) = "Empty" /\ SlotMut(x.vec, k) # "Resolved"
    BY <1>6, <1>10, <1>11
  <2>3. AcceptedVisit(x, k, peer, b) = x
    BY <2>2 DEF AcceptedVisit
  <2>4. Sweep(w, T, F, A, k + 1, v)
    BY <1>1, <1>3, <1>7, <2>1, PassSlot
  <2>5. With(G, k, out) = out
    BY <1>8, <2>1 DEF With
  <2>. QED  BY <1>4, <1>5, <1>10, <1>11, <2>3, <2>4, <2>5 DEF Advances
<1>12. ASSUME ~ResolvedAt(w, k), SlotMut(v, k) # "Empty",
              NEW a, a = AcceptorAt(v, k), NEW r, r = ReceiveAccepted(a, peer, b),
              NEW u, u = SetAcceptor(v, k, r), NEW e,
              e = IF IsResolved(r) THEN Collect(out, k, r.val) ELSE out
       PROVE  Visit(c, x, k) = State(u, e, "No", NoBallot)
  <2>1. /\ SlotMut(x.vec, k) # "Resolved" /\ SlotMut(x.vec, k) # "Empty"
        /\ AcceptorAt(x.vec, k) = a
    BY <1>6, <1>10, <1>12
  <2>2. AcceptedVisit(x, k, peer, b) = Going(x, u, e)
    BY <1>6, <1>12, <2>1 DEF AcceptedVisit
  <2>. QED  BY <1>4, <1>5, <2>2, GoingIs
<1>13. CASE ~ResolvedAt(w, k) /\ SlotMut(v, k) # "Empty" /\ k \in T
  <2>1. Filled(v, k) = v /\ AcceptorAt(v, k) = w.acc[k]
    BY <1>1, <1>2, <1>3, <1>7, <1>13, OpenFound
  <2>2. PICK a, r : a = AcceptorAt(v, k) /\ r = ReceiveAccepted(a, peer, b)
    OBVIOUS
  <2>3. PICK u, e : /\ u = SetAcceptor(v, k, r)
                    /\ e = IF IsResolved(r) THEN Collect(out, k, r.val) ELSE out
    OBVIOUS
  <2>4. Visit(c, x, k) = State(u, e, "No", NoBallot)
    BY <1>12, <1>13, <2>2, <2>3
  <2>5. A[k] = r /\ k \in DOMAIN A
    BY <1>13, <2>1, <2>2
  <2>6. Sweep(w, T, F, A, k + 1, SetAcceptor(Filled(v, k), k, A[k]))
    BY <1>1, <1>3, <2>5, VisitSlot
  <2>7. Sweep(w, T, F, A, k + 1, u)
    BY <2>1, <2>3, <2>5, <2>6
  <2>8. IsResolved(r) => r.val = w.acc[k].val
    <3>1. a \in Acceptor /\ ~IsResolved(a) /\ Settled(a)
      BY <1>1, <1>7, <1>13, <2>1, <2>2 DEF GoodWindow, GoodAcceptor, ResolvedAt, AllSettled
    <3>2. IsResolved(ReceiveAccepted(a, peer, b)) => ReceiveAccepted(a, peer, b).val = a.val
      BY <3>1, ReceiveAcceptedIs
    <3>. QED  BY <2>1, <2>2, <3>2
  <2>9. With(G, k, out) = e
    BY <1>8, <1>13, <2>3, <2>5, <2>8 DEF With
  <2>. QED  BY <1>4, <1>10, <1>13, <2>4, <2>7, <2>9 DEF Advances
<1>14. CASE ~ResolvedAt(w, k) /\ SlotMut(v, k) # "Empty" /\ k \notin T
  <2>1. ~(k < w.end)
    <3>1. SUFFICES ASSUME k < w.end PROVE FALSE
      OBVIOUS
    <3>2. w.min \in Nat /\ w.end \in Nat
      BY <1>1, SweptNumbers
    <3>3. w.min <= k
      BY <1>1, <1>7, <1>14, <3>2 DEF Logged, Shape
    <3>4. k \in OpenSlots(w)
      BY <1>7, <1>14, <3>1, <3>2, <3>3 DEF OpenSlots, OpenRange
    <3>5. \A t \in stops : k < t
      <4>1. \A t \in stops : t \in Nat /\ t # k /\ ~(t < k)
        BY <1>2, <1>3, <1>10, <1>14, SlotBound DEF Unstopped
      <4>. QED  BY <1>7, <4>1
    <3>6. k \in T
      BY <3>4, <3>5 DEF CountedSlots, Reached
    <3>. QED  BY <1>14, <3>6
  <2>2. Filled(v, k) = v
    BY <1>14 DEF Filled
  <2>3. AcceptorAt(v, k) = AwaitValue(FreshPromise(w, F, k))
    <3>1. w.end <= k
      BY <1>1, <1>7, <2>1, SweptNumbers
    <3>2. AcceptorAt(Filled(v, k), k) = AwaitValue(FreshPromise(w, F, k))
      BY <1>1, <1>3, <1>7, <1>14, <3>1, SlotOpened
    <3>. QED  BY <2>2, <3>2
  <2>4. PICK a, r : a = AcceptorAt(v, k) /\ r = ReceiveAccepted(a, peer, b)
    OBVIOUS
  <2>5. r = a /\ ~IsResolved(a)
    <3>1. a.st = "AwaitValue"
      BY <2>3, <2>4 DEF AwaitValue
    <3>. QED  BY <2>4, <3>1 DEF ReceiveAccepted, IsResolved
  <2>6. PICK u, e : /\ u = SetAcceptor(v, k, r)
                    /\ e = IF IsResolved(r) THEN Collect(out, k, r.val) ELSE out
    OBVIOUS
  <2>7. Visit(c, x, k) = State(u, e, "No", NoBallot)
    BY <1>12, <1>14, <2>4, <2>6
  <2>8. Sweep(w, T, F, A, k + 1, u)
    BY <1>1, <1>3, <1>7, <1>14, <2>4, <2>5, <2>6, SameSlot
  <2>9. With(G, k, out) = e
    BY <1>8, <1>14, <2>5, <2>6 DEF With
  <2>. QED  BY <1>4, <1>10, <1>14, <2>7, <2>8, <2>9 DEF Advances
<1>. QED  BY <1>9, <1>11, <1>13, <1>14

LEMMA AcceptedLoop ==
  ASSUME NEW v, NEW w, Ready(v, w), NEW b \in Ballot, NEW peer \in Node,
         NEW slots \in SUBSET Slot
  PROVE  LET x == Loop([type |-> "Accepted", peer |-> peer, bal |-> b, slots |-> slots],
                       v, slots)
         IN  /\ GoodVector(x.vec) /\ AsWindow(x.vec) = AcceptedWindow(w, peer, b, slots)
             /\ (IF x.stop = "No" THEN x.out ELSE <<>>)
                  = IF AcceptedStops(w, slots) = {} THEN NewlyResolved(w, peer, b, slots)
                                                    ELSE <<>>
<1>1. PICK c : c = [type |-> "Accepted", peer |-> peer, bal |-> b, slots |-> slots]
  OBVIOUS
<1>2. PICK stops : stops = AcceptedStops(w, slots)
  OBVIOUS
<1>3. PICK T : T = CountedSlots(w, slots)
  OBVIOUS
<1>4. PICK A : A = [s \in T |-> ReceiveAccepted(w.acc[s], peer, b)]
  OBVIOUS
<1>5. PICK F : F = [s \in T |-> A[s].promised]
  OBVIOUS
<1>6. PICK G : G = NewlyResolved(w, peer, b, slots)
  OBVIOUS
<1>7. /\ GoodVector(v) /\ w = AsWindow(v) /\ Sound(w) /\ AllSettled(w)
      /\ GoodWindow(w, BallotOption)
  BY ReadySettled DEF Ready, Sound
<1>8. Planned(w, T, F, A)
  BY <1>3, <1>4, <1>5, <1>7, AcceptedPlan
<1>9. Follows(c, w, T, F, A, slots, G, stops, "Resolved", NoBallot)
  BY <1>1, <1>2, <1>3, <1>4, <1>5, <1>6, <1>7, AcceptedFollows
<1>10. /\ T \subseteq slots /\ stops \subseteq slots
       /\ \A s \in T : s \in OpenRange(w) /\ \A t \in stops : s <= t
  BY <1>2, <1>3, <1>7, Counted
<1>11. Stands(w, T, F, A, slots, G, stops, "Resolved")
  <2>1. slots \subseteq WindowSlot
    BY SlotBound
  <2>2. DOMAIN G \subseteq slots /\ G = [s \in DOMAIN G |-> G[s]]
    BY <1>3, <1>4, <1>6, <1>10, NewlyResolvedIs
  <2>. QED  BY <1>8, <1>10, <2>1, <2>2 DEF Stands
<1>12. PICK last : last = w.end - 1
  OBVIOUS
<1>13. /\ last \in WindowSlot /\ ~(w.end <= last) /\ \A s \in T : ~(w.end <= s)
       /\ Visited(w, F, A, last) = Update(w, A)
  BY <1>7, <1>10, <1>12, OpenEnd
<1>14. PICK x : x = Loop(c, v, slots)
  OBVIOUS
<1>15. /\ GoodVector(x.vec) /\ AsWindow(x.vec) = FillDecisions(Visited(w, F, A, last))
       /\ stops = {} => x.out = G /\ x.stop = "No" /\ x.preempted = NoBallot
       /\ stops # {} => x.stop = "Resolved" /\ x.preempted = NoBallot
  BY <1>7, <1>9, <1>11, <1>13, <1>14, LoopEnds
<1>16. AcceptedWindow(w, peer, b, slots) = FillDecisions(Update(w, A))
  BY <1>3, <1>4 DEF AcceptedWindow
<1>17. (IF x.stop = "No" THEN x.out ELSE <<>>) = IF stops = {} THEN G ELSE <<>>
  BY <1>15
<1>. QED  BY <1>1, <1>2, <1>6, <1>13, <1>14, <1>15, <1>16, <1>17

(***************************************************************************)
(* accept                                                                  *)
(***************************************************************************)
LEMMA VisitAccept ==
  ASSUME NEW v, NEW out, NEW s, NEW b, NEW batch
  PROVE  LET x == State(v, out, "No", NoBallot)
         IN  Visit([type |-> "Accept", bal |-> b, batch |-> batch], x, s)
               = AcceptVisit(x, s, b, batch)
<1>1. PICK x : x = State(v, out, "No", NoBallot)
  OBVIOUS
<1>2. x.stop = "No"
  BY <1>1, States
<1>. QED  BY <1>1, <1>2 DEF Visit

\* The slots an accept handles, and the slot it opens when it stops there.
AcceptDone(w, b, batch) == Reached(DOMAIN batch, AcceptStops(w, b, batch))

AcceptFilled(w, b, batch) ==
  {s \in AcceptStops(w, b, batch) :
     EmptyAt(w, s) /\ \A t \in AcceptStops(w, b, batch) : s <= t}

LEMMA AcceptNumbers ==
  ASSUME NEW w, NEW b, NEW batch, GoodBatch(batch),
         NEW stops, stops = AcceptStops(w, b, batch),
         NEW D, D = AcceptDone(w, b, batch), NEW E, E = AcceptFilled(w, b, batch)
  PROVE  /\ D \in SUBSET Slot /\ E \in SUBSET Slot /\ DOMAIN batch \subseteq Slot
         /\ stops \subseteq DOMAIN batch /\ D \subseteq DOMAIN batch /\ E \subseteq stops
         /\ \A s \in DOMAIN batch : s \in Nat /\ s \in WindowSlot /\ s # MaxSlot + 1
                                    /\ batch[s] \in Value
         /\ \A s \in DOMAIN batch :
              s \in stops <=> ResolvedAt(w, s) \/ Less(b, PromisedAt(w, s))
         /\ \A s \in D : /\ s \notin stops /\ s \notin E
                         /\ ~ResolvedAt(w, s) /\ ~Less(b, PromisedAt(w, s))
                         /\ \A t \in stops : s < t
         /\ \A s \in E : s \in stops /\ EmptyAt(w, s) /\ \A t \in stops : s <= t
<1>1. DOMAIN batch \subseteq Slot /\ \A s \in DOMAIN batch : batch[s] \in Value
  BY BatchSlots
<1>2. \A s \in DOMAIN batch : s \in Nat /\ s \in WindowSlot /\ s # MaxSlot + 1
  BY <1>1, SlotBound
<1>3. /\ stops \subseteq DOMAIN batch
      /\ \A s \in DOMAIN batch :
           s \in stops <=> ResolvedAt(w, s) \/ Less(b, PromisedAt(w, s))
  BY DEF AcceptStops
<1>4. D \subseteq DOMAIN batch /\ \A s \in D : \A t \in stops : s < t
  BY DEF AcceptDone, Reached
<1>5. \A s \in E : s \in stops /\ EmptyAt(w, s) /\ \A t \in stops : s <= t
  BY DEF AcceptFilled
<1>6. \A s \in D : s \notin stops
  BY <1>2, <1>4
<1>7. \A s \in D : s \notin E /\ ~ResolvedAt(w, s) /\ ~Less(b, PromisedAt(w, s))
  BY <1>3, <1>4, <1>5, <1>6
<1>8. E \subseteq stops
  BY <1>5
<1>. QED  BY <1>1, <1>2, <1>3, <1>4, <1>5, <1>6, <1>7, <1>8

LEMMA ReceiveAcceptIs ==
  ASSUME NEW a \in Acceptor, ~IsResolved(a), Settled(a), NEW b, NEW val
  PROVE  Settled(ReceiveAccept(a, b, val))
<1>1. PICK e : e = [a EXCEPT !.promised = b]
  OBVIOUS
<1>2. e.st = a.st /\ e.val = a.val
  BY <1>1 DEF Acceptor
<1>3. Settled(e)
  BY <1>2 DEF Settled, IsResolved, HasValue
<1>4. Settled(NoticeValue(e, b, val))
  BY <1>3, NoticeIs
<1>. QED  BY <1>1, <1>4 DEF ReceiveAccept

LEMMA AcceptPlan ==
  ASSUME NEW w, Sound(w), AllSettled(w), NEW b \in Ballot, NEW batch, GoodBatch(batch),
         NEW D, D = AcceptDone(w, b, batch), NEW E, E = AcceptFilled(w, b, batch),
         NEW F, F = Const(D, b), NEW o, o = OpenUpTo(w, F, LastOf(w, D \cup E)),
         NEW A, A = [s \in D |-> ReceiveAccept(o.acc[s], b, batch[s])]
  PROVE  Planned(w, D \cup E, F, A)
<1>1. /\ b \in BallotOption /\ b # NoBallot /\ Ballots(BallotOption)
      /\ GoodWindow(w, BallotOption) /\ Logged(w) /\ Bounded(w)
  BY AllBallots DEF Sound, Ballot, BallotOption, NoBallot
<1>2. PICK T : T = D \cup E
  OBVIOUS
<1>3. /\ D \in SUBSET Slot /\ E \in SUBSET Slot /\ D \subseteq DOMAIN batch
      /\ \A s \in DOMAIN batch : s \in WindowSlot /\ s # MaxSlot + 1 /\ batch[s] \in Value
      /\ \A s \in D : ~ResolvedAt(w, s) /\ ~Less(b, PromisedAt(w, s))
      /\ \A s \in E : EmptyAt(w, s)
  BY AcceptNumbers
<1>4. T \in SUBSET WindowSlot /\ D \in SUBSET WindowSlot /\ D \subseteq T
  BY <1>2, <1>3, SlotBound
<1>5. \A s \in T : ~ResolvedAt(w, s)
  <2>1. \A s \in E : w.acc[s] = Unopened
    BY <1>1, <1>2, <1>3, <1>4 DEF Logged, Shape
  <2>2. \A s \in E : ~ResolvedAt(w, s)
    BY <2>1 DEF ResolvedAt, Unopened, AwaitValue, IsResolved
  <2>. QED  BY <1>2, <1>3, <2>2
<1>6. F \in [D -> BallotOption] /\ DOMAIN F = D /\ \A s \in D : F[s] = b
  BY <1>1 DEF Const
<1>7. PICK last : last = LastOf(w, T)
  OBVIOUS
<1>8. last \in WindowSlot /\ \A s \in T : s <= last
  BY <1>1, <1>4, <1>7, LastIs
<1>9. \A s \in D : Found(w, F, s, OpenUpTo(w, F, last).acc[s])
  <2>1. \A s \in D : s <= last /\ ~ResolvedAt(w, s)
    BY <1>4, <1>5, <1>8
  <2>. QED  BY <1>4, <1>6, <1>8, <2>1, VisitFinds
<1>10. o = OpenUpTo(w, F, last)
  BY <1>2, <1>7
<1>11. ASSUME NEW s \in D
       PROVE  /\ GoodAcceptor(A[s], BallotOption) /\ Settled(A[s])
              /\ s = MaxSlot + 1 => ~HasValue(A[s])
              /\ F[s] \in BallotOption
              /\ AtMost(F[s], A[s].promised)
              /\ AtMost(A[s].promised, FreshPromise(w, F, s + 1))
  <2>1. PICK a, x, r : a = o.acc[s] /\ x = batch[s] /\ r = ReceiveAccept(a, b, x)
    OBVIOUS
  <2>2. PICK h : h = FreshPromise(w, F, s + 1)
    OBVIOUS
  <2>3. /\ GoodAcceptor(a, BallotOption) /\ ~IsResolved(a) /\ Settled(a)
        /\ AtMost(a.bal, PromisedAt(w, s)) /\ AtMost(F[s], h)
    BY <1>9, <1>10, <2>1, <2>2 DEF Found
  <2>4. AtMost(a.bal, b)
    <3>1. PICK p : p = PromisedAt(w, s)
      OBVIOUS
    <3>2. p \in BallotOption /\ ~Less(b, p)
      BY <1>1, <1>3, <1>4, <3>1, WindowBallots
    <3>3. a.bal \in BallotOption /\ AtMost(a.bal, p)
      BY <2>3, <3>1 DEF GoodAcceptor
    <3>4. AtMost(p, b)
      BY <1>1, <3>2, BallotOrder
    <3>. QED  BY <1>1, <3>2, <3>3, <3>4, BallotOrder
  <2>5. r.promised = b
    BY <1>1, <2>1, <2>3, <2>4, AcceptBounds
  <2>6. GoodAcceptor(r, BallotOption)
    <3>1. x \in Value
      BY <1>3, <2>1
    <3>. QED  BY <1>1, <2>1, <2>3, <3>1, ReceiveAcceptGood
  <2>7. Settled(r)
    <3>1. a \in Acceptor
      BY <2>3 DEF GoodAcceptor
    <3>2. Settled(ReceiveAccept(a, b, x))
      BY <2>3, <3>1, ReceiveAcceptIs
    <3>. QED  BY <2>1, <3>2
  <2>8. A[s] = r /\ F[s] = b /\ s # MaxSlot + 1
    BY <1>3, <1>6, <2>1
  <2>9. AtMost(b, b)
    BY <1>1, BallotOrder
  <2>. QED  BY <1>1, <2>2, <2>3, <2>5, <2>6, <2>7, <2>8, <2>9
<1>12. DOMAIN A = D /\ F = [s \in DOMAIN A |-> F[s]] /\ A = [s \in DOMAIN A |-> A[s]]
  BY <1>6
<1>13. Planned(w, T, F, A)
  BY <1>4, <1>5, <1>6, <1>11, <1>12 DEF Planned
<1>. QED  BY <1>2, <1>13

\* A slot rejects b in the loop if it did before it.
LEMMA AcceptPromise ==
  ASSUME NEW w, Sound(w), NEW b \in Ballot, NEW D, NEW T, NEW F, F = Const(D, b),
         NEW A, Planned(w, T, F, A), NEW k \in WindowSlot, ~ResolvedAt(w, k),
         NEW v, Sweep(w, T, F, A, k, v), NEW a, a = AcceptorAt(Filled(v, k), k)
  PROVE  /\ Rejects(a, b) <=> Less(b, PromisedAt(w, k))
         /\ Less(b, PromisedAt(w, k)) => a.promised = PromisedAt(w, k)
<1>1. /\ b \in BallotOption /\ GoodWindow(w, BallotOption) /\ w.max \in BallotOption
      /\ w.end \in Nat /\ k \in Nat
  BY SweptNumbers, SlotBound DEF Sound, Ballot, BallotOption
<1>2. /\ k < w.end => a = w.acc[k]
      /\ w.end <= k => a = AwaitValue(FreshPromise(w, F, k))
  BY SlotOpened
<1>3. CASE k < w.end
  <2>1. a = w.acc[k] /\ ~(k >= w.end)
    BY <1>1, <1>2, <1>3
  <2>2. ~IsResolved(a) /\ PromisedAt(w, k) = a.promised
    BY <2>1 DEF ResolvedAt, PromisedAt, EmptyAt
  <2>. QED  BY <2>2 DEF Rejects
<1>4. CASE ~(k < w.end)
  <2>1. w.end <= k /\ k >= w.end
    BY <1>1, <1>4
  <2>2. PICK f : f = FreshPromise(w, F, k)
    OBVIOUS
  <2>3. a.promised = f /\ ~IsResolved(a)
    BY <1>2, <2>1, <2>2 DEF AwaitValue, IsResolved
  <2>4. PromisedAt(w, k) = w.max
    BY <2>1 DEF PromisedAt, EmptyAt
  <2>5. DOMAIN F = D /\ \A p \in DOMAIN F : F[p] = b /\ F[p] \in BallotOption
    BY <1>1 DEF Const
  <2>6. AtMost(w.max, f) /\ (f = w.max \/ f = b)
    BY <1>1, <2>2, <2>5, FreshPromiseIs DEF Below
  <2>7. ~Less(b, b) /\ ~(Less(b, w.max) /\ AtMost(w.max, b))
    BY <1>1, BallotOrder
  <2>8. Rejects(a, b) <=> Less(b, f)
    BY <2>3 DEF Rejects
  <2>. QED  BY <2>3, <2>4, <2>6, <2>7, <2>8
<1>. QED  BY <1>3, <1>4

AcceptKind(w, b, batch) == IF AcceptSilent(w, b, batch) THEN "Resolved" ELSE "Reject"

\* The slot where an accept stops is the least of its stops.
LEMMA AcceptStopsAt ==
  ASSUME NEW w, NEW b, NEW batch, GoodBatch(batch),
         NEW stops, stops = AcceptStops(w, b, batch), NEW k \in stops, Unstopped(stops, k)
  PROVE  /\ stops # {} /\ Min(stops) = k /\ \A t \in stops : k <= t
         /\ ResolvedAt(w, k) => /\ AcceptKind(w, b, batch) = "Resolved"
                                /\ AcceptPreempted(w, b, batch) = NoBallot
         /\ ~ResolvedAt(w, k) => /\ AcceptKind(w, b, batch) = "Reject"
                                 /\ AcceptPreempted(w, b, batch) = PromisedAt(w, k)
<1>1. stops \in SUBSET Nat /\ stops # {}
  BY AcceptNumbers
<1>2. Min(stops) \in stops /\ \A t \in stops : Min(stops) <= t
  BY <1>1, MinIn
<1>3. PICK m : m = Min(stops)
  OBVIOUS
<1>4. m \in Nat /\ k \in Nat /\ m <= k /\ ~(m < k)
  BY <1>1, <1>2, <1>3 DEF Unstopped
<1>5. m = k
  BY <1>4
<1>6. AcceptSilent(w, b, batch) <=> ResolvedAt(w, k)
  BY <1>1, <1>3, <1>5 DEF AcceptSilent
<1>7. AcceptPreempted(w, b, batch)
        = IF AcceptSilent(w, b, batch) THEN NoBallot ELSE PromisedAt(w, k)
  BY <1>1, <1>3, <1>5 DEF AcceptPreempted
<1>. QED  BY <1>1, <1>2, <1>3, <1>5, <1>6, <1>7 DEF AcceptKind

LEMMA AcceptFollows ==
  ASSUME NEW w, Sound(w), AllSettled(w), NEW b \in Ballot, NEW batch, GoodBatch(batch),
         NEW D, D = AcceptDone(w, b, batch), NEW E, E = AcceptFilled(w, b, batch),
         NEW T, T = D \cup E,
         NEW F, F = Const(D, b), NEW o, o = OpenUpTo(w, F, LastOf(w, T)),
         NEW A, A = [s \in D |-> ReceiveAccept(o.acc[s], b, batch[s])],
         NEW stops, stops = AcceptStops(w, b, batch),
         NEW kind, kind = AcceptKind(w, b, batch),
         NEW bal, bal = AcceptPreempted(w, b, batch),
         NEW c, c = [type |-> "Accept", bal |-> b, batch |-> batch]
  PROVE  Follows(c, w, T, F, A, DOMAIN batch, batch, stops, kind, bal)
<1>1. Planned(w, T, F, A) /\ GoodWindow(w, BallotOption) /\ Logged(w)
  BY AcceptPlan DEF Sound
<1>2. /\ \A s \in DOMAIN batch : s \in Nat /\ s \in WindowSlot
      /\ \A s \in DOMAIN batch :
           s \in stops <=> ResolvedAt(w, s) \/ Less(b, PromisedAt(w, s))
      /\ \A s \in D : s \notin stops /\ s \notin E
      /\ \A s \in E : s \in stops /\ EmptyAt(w, s)
      /\ stops \subseteq DOMAIN batch
  BY AcceptNumbers
<1>3. SUFFICES ASSUME NEW k \in DOMAIN batch, NEW v, NEW out,
                      Sweep(w, T, F, A, k, v), Unstopped(stops, k)
               PROVE  Advances(c, w, T, F, A, batch, stops, kind, bal, k, v, out)
  BY DEF Follows
<1>4. PICK x : x = State(v, out, "No", NoBallot)
  OBVIOUS
<1>5. Visit(c, x, k) = AcceptVisit(x, k, b, batch)
  BY <1>4, VisitAccept
<1>6. x.vec = v /\ x.out = out
  BY <1>4, States
<1>7. k \in WindowSlot /\ k \in Nat
  BY <1>2
<1>8. CASE ResolvedAt(w, k)
  <2>1. k \in stops /\ k \notin D
    BY <1>2, <1>8
  <2>2. k \notin T
    <3>1. \A s \in E : ~ResolvedAt(w, s)
      <4>1. \A s \in E : s \in T
        OBVIOUS
      <4>. QED  BY <1>1, <4>1 DEF Planned
    <3>. QED  BY <1>8, <2>1, <3>1
  <2>3. SlotMut(v, k) = "Resolved"
    BY <1>1, <1>3, <1>7, <1>8, SlotKind
  <2>4. AcceptVisit(x, k, b, batch) = [x EXCEPT !.stop = "Resolved"]
    BY <1>6, <2>3 DEF AcceptVisit
  <2>5. [x EXCEPT !.stop = "Resolved"] = State(v, out, "Resolved", NoBallot)
    BY <1>4, States
  <2>6. kind = "Resolved" /\ bal = NoBallot
    BY <1>3, <1>8, <2>1, AcceptStopsAt
  <2>7. Sweep(w, T, F, A, k + 1, v)
    BY <1>1, <1>3, <1>7, <2>2, PassSlot
  <2>. QED  BY <1>4, <1>5, <2>1, <2>4, <2>5, <2>6, <2>7 DEF Advances
<1>9. PICK p, a : p = Filled(v, k) /\ a = AcceptorAt(p, k)
  OBVIOUS
<1>10. ASSUME ~ResolvedAt(w, k)
       PROVE  /\ SlotMut(x.vec, k) # "Resolved" /\ Filled(x.vec, k) = p
              /\ Rejects(a, b) <=> Less(b, PromisedAt(w, k))
              /\ Less(b, PromisedAt(w, k)) => a.promised = PromisedAt(w, k)
              /\ k \in stops <=> Rejects(a, b)
  <2>1. SlotMut(x.vec, k) # "Resolved" /\ Filled(x.vec, k) = p
    BY <1>1, <1>3, <1>6, <1>7, <1>9, <1>10, SlotKind
  <2>2. /\ Rejects(a, b) <=> Less(b, PromisedAt(w, k))
        /\ Less(b, PromisedAt(w, k)) => a.promised = PromisedAt(w, k)
    <3>1. Sound(w)
      OBVIOUS
    <3>. QED  BY <1>1, <1>3, <1>7, <1>9, <1>10, <3>1, AcceptPromise
  <2>3. k \in stops <=> Less(b, PromisedAt(w, k))
    BY <1>2, <1>10
  <2>. QED  BY <2>1, <2>2, <2>3
<1>11. CASE ~ResolvedAt(w, k) /\ k \in stops
  <2>1. Rejects(a, b) /\ a.promised = PromisedAt(w, k)
    BY <1>10, <1>11
  <2>2. kind = "Reject" /\ bal = a.promised
    BY <1>3, <1>11, <2>1, AcceptStopsAt
  <2>3. PICK u : u = SetAcceptor(p, k, a)
    OBVIOUS
  <2>4. AcceptVisit(x, k, b, batch) = Preempted(x, u, a.promised)
    <3>1. SlotMut(x.vec, k) # "Resolved" /\ Filled(x.vec, k) = p
      BY <1>10, <1>11
    <3>. QED  BY <1>9, <2>1, <2>3, <3>1 DEF AcceptVisit
  <2>5. Preempted(x, u, a.promised) = State(u, out, "Reject", a.promised)
    BY <1>4, PreemptedIs
  <2>6. k \notin D /\ k \notin DOMAIN A
    BY <1>2, <1>11
  <2>7. Sweep(w, T, F, A, k + 1, u)
    <3>1. CASE EmptyAt(w, k)
      <4>1. k \in E
        <5>1. \A t \in stops : k <= t
          BY <1>3, <1>11, AcceptStopsAt
        <5>. QED  BY <1>11, <3>1, <5>1 DEF AcceptFilled
      <4>2. k \in T
        BY <4>1
      <4>. QED  BY <1>1, <1>3, <1>9, <2>3, <2>6, <4>2, FillSlot
    <3>2. CASE ~EmptyAt(w, k)
      <4>1. k < w.end
        BY <1>1, <1>7, <3>2, SweptNumbers DEF EmptyAt
      <4>2. k \notin T
        BY <1>2, <2>6, <3>2
      <4>3. SlotMut(v, k) # "Empty" /\ p = v
        BY <1>1, <1>3, <1>7, <1>9, <1>11, <4>1, OpenFound
      <4>4. Sweep(w, T, F, A, k + 1, SetAcceptor(v, k, AcceptorAt(v, k)))
        BY <1>1, <1>3, <1>7, <1>11, <4>2, <4>3, SameSlot
      <4>. QED  BY <1>9, <2>3, <4>3, <4>4
    <3>. QED  BY <3>1, <3>2
  <2>. QED  BY <1>4, <1>5, <1>11, <2>2, <2>4, <2>5, <2>7 DEF Advances
<1>12. CASE ~ResolvedAt(w, k) /\ k \notin stops
  <2>1. \A t \in stops : k < t
    <3>1. \A t \in stops : t \in Nat /\ t # k /\ ~(t < k)
      BY <1>2, <1>3, <1>12 DEF Unstopped
    <3>. QED  BY <1>7, <3>1
  <2>2. k \in D
    BY <2>1 DEF AcceptDone, Reached
  <2>3. k \in T /\ k \in DOMAIN A
    BY <2>2
  <2>4. PICK last : last = LastOf(w, T)
    OBVIOUS
  <2>5. last \in WindowSlot /\ k <= last
    <3>1. T \in SUBSET WindowSlot
      BY <1>1 DEF Planned
    <3>. QED  BY <1>1, <2>3, <2>4, <3>1, LastIs
  <2>6. a = o.acc[k]
    <3>1. AcceptorAt(Filled(v, k), k) = OpenUpTo(w, F, last).acc[k]
      BY <1>1, <1>3, <2>3, <2>5, FoundSlot
    <3>. QED  BY <1>9, <2>4, <3>1
  <2>7. PICK val, r, u : /\ val = batch[k] /\ r = ReceiveAccept(a, b, val)
                         /\ u = SetAcceptor(p, k, r)
    OBVIOUS
  <2>8. A[k] = r
    BY <2>2, <2>6, <2>7
  <2>9. Sweep(w, T, F, A, k + 1, u)
    <3>1. Sweep(w, T, F, A, k + 1, SetAcceptor(Filled(v, k), k, A[k]))
      BY <1>1, <1>3, <2>3, VisitSlot
    <3>. QED  BY <1>9, <2>7, <2>8, <3>1
  <2>10. PICK e : e = Collect(out, k, val)
    OBVIOUS
  <2>11. AcceptVisit(x, k, b, batch) = Going(x, u, e)
    <3>1. SlotMut(x.vec, k) # "Resolved" /\ Filled(x.vec, k) = p /\ ~Rejects(a, b)
      BY <1>10, <1>12
    <3>. QED  BY <1>6, <1>9, <2>7, <2>10, <3>1 DEF AcceptVisit
  <2>12. Going(x, u, e) = State(u, e, "No", NoBallot)
    BY <1>4, GoingIs
  <2>13. With(batch, k, out) = e
    BY <2>7, <2>10 DEF With
  <2>. QED  BY <1>4, <1>5, <1>12, <2>9, <2>11, <2>12, <2>13 DEF Advances
<1>. QED  BY <1>8, <1>11, <1>12

LEMMA AcceptLoop ==
  ASSUME NEW v, NEW w, Ready(v, w), NEW b \in Ballot, NEW batch, GoodBatch(batch)
  PROVE  LET x == Loop([type |-> "Accept", bal |-> b, batch |-> batch], v, DOMAIN batch)
         IN  /\ GoodVector(x.vec) /\ AsWindow(x.vec) = AcceptWindow(w, b, batch)
             /\ x.stop = "Resolved" <=> AcceptSilent(w, b, batch)
             /\ x.preempted = AcceptPreempted(w, b, batch)
             /\ (IF x.stop = "No" THEN DOMAIN x.out ELSE {})
                  = IF AcceptStops(w, b, batch) = {} THEN DOMAIN batch ELSE {}
<1>1. PICK c : c = [type |-> "Accept", bal |-> b, batch |-> batch]
  OBVIOUS
<1>2. PICK stops : stops = AcceptStops(w, b, batch)
  OBVIOUS
<1>3. PICK D, E : D = AcceptDone(w, b, batch) /\ E = AcceptFilled(w, b, batch)
  OBVIOUS
<1>4. PICK T : T = D \cup E
  OBVIOUS
<1>5. PICK F : F = Const(D, b)
  OBVIOUS
<1>6. PICK last : last = LastOf(w, T)
  OBVIOUS
<1>7. PICK o : o = OpenUpTo(w, F, LastOf(w, T))
  OBVIOUS
<1>8. PICK A : A = [s \in D |-> ReceiveAccept(o.acc[s], b, batch[s])]
  OBVIOUS
<1>9. PICK kind, bal : kind = AcceptKind(w, b, batch) /\ bal = AcceptPreempted(w, b, batch)
  OBVIOUS
<1>10. /\ GoodVector(v) /\ w = AsWindow(v) /\ Sound(w) /\ AllSettled(w)
       /\ GoodWindow(w, BallotOption) /\ Logged(w)
  BY ReadySettled DEF Ready, Sound
<1>11. Planned(w, T, F, A)
  BY <1>3, <1>4, <1>5, <1>7, <1>8, <1>10, AcceptPlan
<1>12. Follows(c, w, T, F, A, DOMAIN batch, batch, stops, kind, bal)
  BY <1>1, <1>2, <1>3, <1>4, <1>5, <1>7, <1>8, <1>9, <1>10, AcceptFollows, ZenonT(60)
<1>13. Stands(w, T, F, A, DOMAIN batch, batch, stops, kind)
  <2>1. /\ DOMAIN batch \subseteq WindowSlot /\ stops \subseteq DOMAIN batch
        /\ D \subseteq DOMAIN batch /\ E \subseteq stops
        /\ \A s \in D : \A t \in stops : s < t
        /\ \A s \in E : \A t \in stops : s <= t
        /\ \A s \in DOMAIN batch : s \in Nat
    BY <1>2, <1>3, AcceptNumbers
  <2>2. T \subseteq DOMAIN batch
    BY <1>4, <2>1
  <2>3. \A s \in D : \A t \in stops : s <= t
    BY <2>1
  <2>4. \A s \in T : \A t \in stops : s <= t
    BY <1>4, <2>1, <2>3
  <2>5. batch = [s \in DOMAIN batch |-> batch[s]]
    BY DEF GoodBatch
  <2>6. kind # "No"
    BY <1>9 DEF AcceptKind
  <2>. QED  BY <1>11, <2>1, <2>2, <2>4, <2>5, <2>6 DEF Stands
<1>14. last \in WindowSlot /\ (\A s \in T : s <= last) /\ (w.end <= last => last \in T)
  <2>1. T \in SUBSET WindowSlot
    BY <1>11 DEF Planned
  <2>. QED  BY <1>6, <1>10, <2>1, LastIs
<1>15. PICK x : x = Loop(c, v, DOMAIN batch)
  OBVIOUS
<1>16. /\ GoodVector(x.vec) /\ AsWindow(x.vec) = FillDecisions(Visited(w, F, A, last))
       /\ stops = {} => x.out = batch /\ x.stop = "No" /\ x.preempted = NoBallot
       /\ stops # {} => x.stop = kind /\ x.preempted = bal
  BY <1>10, <1>12, <1>13, <1>14, <1>15, LoopEnds
<1>17. PICK u : u = AcceptWindow(w, b, batch)
  OBVIOUS
<1>18. Visited(w, F, A, last) = u
  <2>1. Visited(w, F, A, last) = Update(o, A)
    BY <1>6, <1>7 DEF Visited
  <2>2. u = Update(o, A)
    BY <1>3, <1>4, <1>5, <1>7, <1>8, <1>17 DEF AcceptWindow, AcceptDone, AcceptFilled
  <2>. QED  BY <2>1, <2>2
<1>19. FillDecisions(u) = u
  <2>1. b \in BallotOption /\ b # NoBallot
    BY DEF Ballot, BallotOption, NoBallot
  <2>2. GoodWindow(u, BallotOption) /\ Logged(u)
    BY <1>10, <1>17, <2>1, AllBallots, AcceptWindowGood, AcceptLogged
  <2>. QED  BY <2>2, LoggedIsFilled
<1>20. x.stop = "Resolved" <=> AcceptSilent(w, b, batch)
  <2>1. AcceptSilent(w, b, batch) => stops # {}
    BY <1>2 DEF AcceptSilent
  <2>. QED  BY <1>9, <1>16, <2>1 DEF AcceptKind
<1>21. x.preempted = bal
  BY <1>2, <1>9, <1>16 DEF AcceptPreempted
<1>22. (IF x.stop = "No" THEN DOMAIN x.out ELSE {}) = IF stops = {} THEN DOMAIN batch ELSE {}
  BY <1>9, <1>16 DEF AcceptKind
<1>. QED  BY <1>1, <1>2, <1>9, <1>15, <1>16, <1>17, <1>18, <1>19, <1>20, <1>21, <1>22

(***************************************************************************)
(* A proposal: the loop over the queue puts its values in fresh slots.     *)
(***************************************************************************)
LEMMA OneMore ==
  ASSUME NEW T, NEW q \in Seq(T), NEW a \in T
  PROVE  q \o [i \in 1..1 |-> a] = Append(q, a)
<1>1. [i \in 1..1 |-> a] = <<a>>
  OBVIOUS
<1>2. Append(q, a) = q \o <<a>>
  BY AppendIsConcat
<1>. QED  BY <1>1, <1>2

LEMMA LastOpen ==
  ASSUME NEW v, GoodVector(v), NEW w, w = AsWindow(v), GoodWindow(w, BallotOption)
  PROVE  /\ v.open[Len(v.open)] = w.acc[w.end - 1]
         /\ w.end = v.min + Len(v.open) /\ Len(v.open) \in Nat /\ Len(v.open) > 0
         /\ v.min \in Nat /\ w.end - 1 \in WindowSlot /\ v.open \in Seq(Acceptor)
<1>1. /\ v.min \in Nat /\ Len(v.open) \in Nat /\ v.open \in Seq(Acceptor)
  BY VectorNumbers DEF GoodVector
<1>2. w.min = v.min /\ w.end = v.min + Len(v.open)
  BY AsWindowIs
<1>3. w.min < w.end /\ w.end - 1 \in WindowSlot
  BY WindowRange, SweptNumbers
<1>4. PICK s \in WindowSlot : s = w.end - 1
  BY <1>3
<1>5. w.acc[s] = IF s < v.min
                   THEN Resolved(v.decided[s + 1].bal, v.decided[s + 1].val)
                 ELSE IF s < v.min + Len(v.open) THEN v.open[s - v.min + 1]
                 ELSE Unopened
  BY AsWindowIs
<1>6. ~(s < v.min) /\ s < v.min + Len(v.open) /\ s - v.min + 1 = Len(v.open)
  BY <1>1, <1>2, <1>3, <1>4
<1>. QED  BY <1>1, <1>2, <1>3, <1>4, <1>5, <1>6

LEMMA NextOpenAs ==
  ASSUME NEW v, GoodVector(v), NEW w, w = AsWindow(v), GoodWindow(w, BallotOption),
         NEW s, s = NextSlot(w), s \in WindowSlot
  PROVE  /\ NextOpen(v) = Filled(v, s)
         /\ NextOpen(v).min + Len(NextOpen(v).open) - 1 = s
<1>1. PICK q, n, m : q = v.open /\ n = Len(v.open) /\ m = v.min
  OBVIOUS
<1>2. /\ q[n] = w.acc[w.end - 1] /\ w.end = m + n /\ n \in Nat /\ n > 0
      /\ m \in Nat /\ q \in Seq(Acceptor) /\ n = Len(q)
  BY <1>1, LastOpen
<1>3. CASE HasValue(q[n])
  <2>1. s = m + n
    BY <1>2, <1>3 DEF NextSlot
  <2>2. PICK a : a = AwaitValue(v.max)
    OBVIOUS
  <2>3. a \in Acceptor
    BY <2>2, AwaitValueIs DEF GoodVector
  <2>4. NextOpen(v) = [v EXCEPT !.open = Append(q, a)]
    BY <1>1, <1>3, <2>2, Zenon DEF NextOpen
  <2>5. SlotMut(v, s) = "Empty"
    <3>1. EmptyAt(w, s)
      BY <1>2, <2>1 DEF EmptyAt
    <3>. QED  BY <3>1, SlotMutAs
  <2>6. Filled(v, s) = FillOpenSlots(v, s)
    BY <2>5 DEF Filled
  <2>7. FillOpenSlots(v, s) = [v EXCEPT !.open = q \o [i \in 1..(s + 1 - m - n) |-> a]]
    BY <1>1, <2>2, Zenon DEF FillOpenSlots
  <2>8. s + 1 - m - n = 1
    BY <1>2, <2>1
  <2>9. q \o [i \in 1..1 |-> a] = Append(q, a)
    BY <1>2, <2>3, OneMore
  <2>10. NextOpen(v) = Filled(v, s)
    BY <2>4, <2>6, <2>7, <2>8, <2>9
  <2>11. NextOpen(v).open = Append(q, a) /\ NextOpen(v).min = m
    BY <1>1, <2>4 DEF GoodVector
  <2>12. Len(Append(q, a)) = n + 1
    <3>1. q \in Seq(Acceptor) /\ a \in Acceptor
      BY <1>2, <2>3
    <3>2. Len(Append(q, a)) = Len(q) + 1
      BY <3>1, AppendProperties
    <3>. QED  BY <1>2, <3>2
  <2>13. PICK z, l : z = NextOpen(v) /\ l = Len(z.open)
    OBVIOUS
  <2>14. z.min = m /\ l = n + 1
    BY <2>11, <2>12, <2>13
  <2>15. z.min + l - 1 = s
    BY <1>2, <2>1, <2>14
  <2>. QED  BY <2>10, <2>13, <2>15
<1>4. CASE ~HasValue(q[n])
  <2>1. s = m + n - 1
    BY <1>2, <1>4 DEF NextSlot
  <2>2. NextOpen(v) = v
    BY <1>1, <1>4 DEF NextOpen
  <2>3. SlotMut(v, s) # "Empty"
    <3>1. ~EmptyAt(w, s)
      BY <1>2, <2>1 DEF EmptyAt
    <3>. QED  BY <3>1, SlotMutAs
  <2>4. Filled(v, s) = v
    BY <2>3 DEF Filled
  <2>. QED  BY <1>1, <1>2, <2>1, <2>2, <2>4
<1>. QED  BY <1>3, <1>4

LEMMA PlaceAs ==
  ASSUME NEW v, GoodVector(v), NEW w, w = AsWindow(v), GoodWindow(w, BallotOption),
         NEW s, s = NextSlot(w), s \in WindowSlot, NEW b, NEW val
  PROVE  LET o == Filled(v, s)
         IN  Place(v, b, val) = SetAcceptor(o, s, NoticeValue(AcceptorAt(o, s), b, val))
<1>1. PICK o : o = NextOpen(v)
  OBVIOUS
<1>2. o = Filled(v, s) /\ o.min + Len(o.open) - 1 = s
  BY <1>1, NextOpenAs
<1>. QED  BY <1>1, <1>2 DEF Place

\* f is the recursive function of PlaceLoop, up to its n-th value.
Placements(v, b, queue, n, f) ==
  f = [k \in 0..n |-> IF k = 0 THEN v ELSE Place(f[k - 1], b, queue[k])]

LEMMA PlacementsTo ==
  ASSUME NEW v, NEW b, NEW queue, NEW n \in Nat
  PROVE  \E f : Placements(v, b, queue, n, f)
<1>. DEFINE P == {m \in Nat : \E f : Placements(v, b, queue, m, f)}
<1>1. 0 \in P
  <2>1. PICK f : f = [k \in 0..0 |-> v]
    OBVIOUS
  <2>2. f = [k \in 0..0 |-> IF k = 0 THEN v ELSE Place(f[k - 1], b, queue[k])]
    BY <2>1
  <2>. QED  BY <2>2 DEF Placements
<1>2. ASSUME NEW m \in Nat, m \in P PROVE m + 1 \in P
  <2>1. PICK f : f = [k \in 0..m |-> IF k = 0 THEN v ELSE Place(f[k - 1], b, queue[k])]
    BY <1>2 DEF Placements
  <2>2. PICK g : g = [k \in 0..(m + 1) |-> IF k = m + 1 THEN Place(f[m], b, queue[k])
                                           ELSE f[k]]
    OBVIOUS
  <2>3. \A k \in 0..(m + 1) : g[k] = IF k = 0 THEN v ELSE Place(g[k - 1], b, queue[k])
    <3>1. TAKE k \in 0..(m + 1)
    <3>2. CASE k = m + 1
      <4>1. g[k] = Place(f[m], b, queue[k]) /\ g[m] = f[m] /\ k - 1 = m /\ k # 0
        BY <2>2, <3>2
      <4>. QED  BY <4>1
    <3>3. CASE k # m + 1 /\ k # 0
      <4>1. k \in 0..m /\ k - 1 \in 0..m /\ k - 1 \in 0..(m + 1) /\ k - 1 # m + 1
        BY <3>3
      <4>2. g[k] = f[k] /\ g[k - 1] = f[k - 1]
        BY <2>2, <3>3, <4>1
      <4>3. f[k] = Place(f[k - 1], b, queue[k])
        BY <2>1, <3>3, <4>1
      <4>. QED  BY <3>3, <4>2, <4>3
    <3>4. CASE k = 0
      <4>1. g[0] = f[0] /\ f[0] = v
        BY <2>1, <2>2
      <4>. QED  BY <3>4, <4>1
    <3>. QED  BY <3>2, <3>3, <3>4
  <2>4. g = [k \in 0..(m + 1) |-> IF k = 0 THEN v ELSE Place(g[k - 1], b, queue[k])]
    BY <2>2, <2>3
  <2>. QED  BY <2>4 DEF Placements
<1>. HIDE DEF P
<1>3. n \in P
  BY <1>1, <1>2, CountUp
<1>. QED  BY <1>3 DEF P

LEMMA PlaceLoopIs ==
  ASSUME NEW v, NEW b, NEW queue, Len(queue) \in Nat
  PROVE  \E f : /\ f[0] = v
                /\ \A k \in Nat : k < Len(queue) =>
                     f[k + 1] = Place(f[k], b, queue[k + 1])
                /\ PlaceLoop(v, b, queue) = f[Len(queue)]
<1>1. PICK n \in Nat : n = Len(queue)
  OBVIOUS
<1>2. \E f : f = [k \in 0..n |-> IF k = 0 THEN v ELSE Place(f[k - 1], b, queue[k])]
  <2>1. \E f : Placements(v, b, queue, n, f)
    BY PlacementsTo
  <2>. QED  BY <2>1 DEF Placements
<1>. DEFINE after == CHOOSE f : f = [k \in 0..Len(queue) |->
                        IF k = 0 THEN v ELSE Place(f[k - 1], b, queue[k])]
<1>3. after = [k \in 0..n |-> IF k = 0 THEN v ELSE Place(after[k - 1], b, queue[k])]
  BY <1>1, <1>2
<1>4. PlaceLoop(v, b, queue) = after[n]
  BY <1>1, Zenon DEF PlaceLoop
<1>. HIDE DEF after
<1>5. after[0] = v
  BY <1>3
<1>6. ASSUME NEW k \in Nat, k < n
      PROVE  after[k + 1] = Place(after[k], b, queue[k + 1])
  <2>1. k + 1 \in 0..n /\ k + 1 # 0 /\ k + 1 - 1 = k
    BY <1>6
  <2>2. after[k + 1] = Place(after[k + 1 - 1], b, queue[k + 1])
    BY <1>3, <2>1
  <2>. QED  BY <2>1, <2>2
<1>7. \A k \in Nat : k < n => after[k + 1] = Place(after[k], b, queue[k + 1])
  BY <1>6
<1>. QED  BY <1>1, <1>4, <1>5, <1>7

Places(w, b, queue, T, F, X, A) ==
  /\ Notices(w, T, F, X, A) /\ b \in Ballot /\ queue \in Seq(Value)
  /\ T = FreshSlots(w, queue) /\ F = Const(T, b)
  /\ X = [s \in T |-> queue[s - NextSlot(w) + 1]]

LEMMA PlacesNumbers ==
  ASSUME NEW w, NEW b, NEW queue, NEW T, NEW F, NEW X, NEW A,
         Places(w, b, queue, T, F, X, A), NEW n, n = NextSlot(w)
  PROVE  /\ n \in Nat /\ w.end \in Nat /\ Len(queue) \in Nat /\ T \in SUBSET Slot
         /\ \A k \in Nat : k \in T <=> n <= k /\ k < n + Len(queue)
         /\ n = w.end \/ (n = w.end - 1 /\ ~HasValue(w.acc[n]))
         /\ GoodWindow(w, BallotOption) /\ Planned(w, T, F, A)
<1>1. GoodWindow(w, BallotOption) /\ T \in SUBSET Slot
  BY DEF Places, Notices, Sound
<1>2. n \in Nat /\ w.end \in Nat
  BY <1>1, WindowRange
<1>3. Len(queue) \in Nat /\ T = n..(n + Len(queue) - 1)
  BY DEF Places, FreshSlots
<1>4. \A k \in Nat : k \in T <=> n <= k /\ k < n + Len(queue)
  BY <1>2, <1>3
<1>5. n = w.end \/ (n = w.end - 1 /\ ~HasValue(w.acc[n]))
  BY DEF NextSlot
<1>6. Planned(w, T, F, A)
  BY NoticePlan DEF Places
<1>. QED  BY <1>1, <1>2, <1>3, <1>4, <1>5, <1>6

LEMMA FreshPlaced ==
  ASSUME NEW w, NEW b, NEW queue, NEW T, NEW F, NEW X, NEW A,
         Places(w, b, queue, T, F, X, A), NEW s \in T
  PROVE  HasValue(A[s]) /\ ~IsResolved(A[s])
<1>1. PICK n : n = NextSlot(w)
  OBVIOUS
<1>2. /\ n \in Nat /\ w.end \in Nat /\ T \in SUBSET Slot
      /\ \A k \in Nat : k \in T => n <= k
      /\ n = w.end \/ (n = w.end - 1 /\ ~HasValue(w.acc[n]))
      /\ GoodWindow(w, BallotOption)
  BY <1>1, PlacesNumbers
<1>3. /\ Sound(w) /\ AllSettled(w) /\ F \in [T -> BallotOption] /\ DOMAIN F = T
      /\ F[s] = b /\ b \in Ballot /\ \A t \in T : ~ResolvedAt(w, t)
      /\ A[s] = NoticeValue(Opened(w, F).acc[s], F[s], X[s])
  BY DEF Places, Notices, Const
<1>4. T \in SUBSET WindowSlot /\ s \in WindowSlot /\ s \in Nat
  BY <1>2, SlotBound
<1>5. PICK last : last = LastOf(w, DOMAIN F)
  OBVIOUS
<1>6. last \in WindowSlot /\ \A t \in T : t <= last
  BY <1>2, <1>3, <1>4, <1>5, LastIs
<1>7. PICK a : a = OpenUpTo(w, F, last).acc[s]
  OBVIOUS
<1>8. Found(w, F, s, a)
  BY <1>3, <1>4, <1>6, <1>7, VisitFinds
<1>9. IsWindow(w)
  BY <1>2, SweptNumbers
<1>10. a = IF w.end <= s /\ s <= last THEN AwaitValue(FreshPromise(w, F, s)) ELSE w.acc[s]
  BY <1>4, <1>7, <1>9, OpenUpToIs
<1>11. ~HasValue(a)
  <2>1. CASE w.end <= s
    <3>1. s <= last
      BY <1>6
    <3>2. a = AwaitValue(FreshPromise(w, F, s))
      BY <1>10, <2>1, <3>1
    <3>. QED  BY <3>2 DEF AwaitValue, HasValue
  <2>2. CASE ~(w.end <= s)
    <3>1. s = n /\ n = w.end - 1
      BY <1>2, <1>4, <2>2
    <3>2. w.end # w.end - 1
      BY <1>2
    <3>. QED  BY <1>2, <1>10, <2>2, <3>1, <3>2
  <2>. QED  BY <2>1, <2>2
<1>12. ~IsResolved(a) /\ a.bal = NoBallot
  BY <1>8, <1>11 DEF Found, GoodAcceptor
<1>13. Less(NoBallot, b)
  BY <1>3, MaxRoundAssumption DEF Less, NoBallot, Ballot
<1>14. A[s] = NoticeValue(a, b, X[s])
  BY <1>3, <1>5, <1>7 DEF Opened
<1>15. A[s] = AwaitQuorum(Higher(a.promised, b), b, X[s])
  BY <1>12, <1>13, <1>14 DEF NoticeValue
<1>. QED  BY <1>15 DEF AwaitQuorum, HasValue, IsResolved

LEMMA PlacedNext ==
  ASSUME NEW w, NEW b, NEW queue, NEW T, NEW F, NEW X, NEW A,
         Places(w, b, queue, T, F, X, A), NEW k \in T,
         NEW v, Sweep(w, T, F, A, k + 1, v)
  PROVE  AsWindow(v).end = k + 1 /\ NextSlot(AsWindow(v)) = k + 1
<1>1. PICK n : n = NextSlot(w)
  OBVIOUS
<1>2. PICK x : x = AsWindow(v)
  OBVIOUS
<1>3. /\ n \in Nat /\ w.end \in Nat /\ T \in SUBSET Slot
      /\ \A t \in Nat : t \in T => n <= t
      /\ n = w.end \/ n = w.end - 1
  BY <1>1, PlacesNumbers
<1>4. k \in Nat /\ k \in WindowSlot
  BY <1>3, SlotBound
<1>5. HasValue(A[k]) /\ ~IsResolved(A[k]) /\ k \in DOMAIN A
  BY FreshPlaced DEF Places, Notices
<1>6. Swept(w, T, F, A, k + 1, x)
  BY <1>2 DEF Sweep
<1>7. GoodWindow(x, BallotOption) /\ Logged(x)
  BY <1>6 DEF Swept
<1>8. x.min \in Nat /\ x.end \in Nat
  BY <1>7, SweptNumbers
<1>9. k < k + 1
  BY <1>4
<1>10. k < x.end /\ x.acc[k] = A[k]
  BY <1>4, <1>5, <1>6, <1>9 DEF Swept
<1>11. x.end = w.end \/ x.end - 1 = x.min \/ x.end - 1 < k + 1
  BY <1>6 DEF Swept
<1>12. ~(k < x.min)
  BY <1>4, <1>5, <1>7, <1>10 DEF Logged, Shape, ResolvedAt
<1>13. x.end = k + 1
  <2>1. n <= k
    BY <1>3, <1>4
  <2>. QED  BY <1>3, <1>4, <1>8, <1>10, <1>11, <1>12, <2>1
<1>14. x.end - 1 = k
  BY <1>4, <1>13
<1>15. NextSlot(x) = x.end
  BY <1>5, <1>10, <1>14 DEF NextSlot
<1>. QED  BY <1>2, <1>13, <1>15

\* The vectors with the first j values of the queue in place.
Placed(w, T, F, A, n, j, v) ==
  /\ GoodVector(v) /\ NextSlot(AsWindow(v)) = n + j
  /\ Sweep(w, T, F, A, n + j, v)
  /\ j > 0 => AsWindow(v).end = n + j

LEMMA PlaceOne ==
  ASSUME NEW w, NEW b, NEW queue, NEW T, NEW F, NEW X, NEW A,
         Places(w, b, queue, T, F, X, A), NEW n, n = NextSlot(w),
         NEW j \in Nat, j < Len(queue), NEW v, Placed(w, T, F, A, n, j, v)
  PROVE  Placed(w, T, F, A, n, j + 1, Place(v, b, queue[j + 1]))
<1>1. /\ n \in Nat /\ Len(queue) \in Nat /\ T \in SUBSET Slot
      /\ \A k \in Nat : k \in T <=> n <= k /\ k < n + Len(queue)
  BY PlacesNumbers
<1>2. PICK k \in Nat : k = n + j
  BY <1>1
<1>3. k \in T /\ k \in WindowSlot /\ k - n + 1 = j + 1
  <2>1. n <= k /\ k < n + Len(queue) /\ k - n + 1 = j + 1
    BY <1>1, <1>2
  <2>2. k \in T
    BY <1>1, <2>1
  <2>. QED  BY <1>1, <2>1, <2>2, SlotBound
<1>4. Sweep(w, T, F, A, k, v) /\ GoodVector(v) /\ NextSlot(AsWindow(v)) = k
  BY <1>2 DEF Placed
<1>5. PICK x : x = AsWindow(v)
  OBVIOUS
<1>6. GoodWindow(x, BallotOption)
  BY <1>4, <1>5 DEF Sweep, Swept
<1>7. PICK val : val = queue[j + 1]
  OBVIOUS
<1>8. PICK o : o = Filled(v, k)
  OBVIOUS
<1>9. Place(v, b, val) = SetAcceptor(o, k, NoticeValue(AcceptorAt(o, k), b, val))
  BY <1>3, <1>4, <1>5, <1>6, <1>8, PlaceAs
<1>10. F[k] = b /\ X[k] = val /\ Notices(w, T, F, X, A)
  BY <1>3, <1>7 DEF Places, Const
<1>11. PICK u : u = Place(v, b, val)
  OBVIOUS
<1>12. Sweep(w, T, F, A, k + 1, u)
  <2>1. Sweep(w, T, F, A, k + 1,
              SetAcceptor(Filled(v, k), k, NoticeValue(AcceptorAt(Filled(v, k), k), F[k], X[k])))
    BY <1>3, <1>4, <1>10, NoticeSlot
  <2>. QED  BY <1>8, <1>9, <1>10, <1>11, <2>1
<1>13. AsWindow(u).end = k + 1 /\ NextSlot(AsWindow(u)) = k + 1
  BY <1>3, <1>12, PlacedNext
<1>14. k + 1 = n + (j + 1)
  BY <1>1, <1>2
<1>15. GoodVector(u)
  BY <1>12 DEF Sweep
<1>. QED  BY <1>7, <1>11, <1>12, <1>13, <1>14, <1>15 DEF Placed

LEMMA PlaceAll ==
  ASSUME NEW v, GoodVector(v), NEW w, w = AsWindow(v),
         NEW b, NEW queue, NEW T, NEW F, NEW X, NEW A,
         Places(w, b, queue, T, F, X, A), NEW n, n = NextSlot(w)
  PROVE  Placed(w, T, F, A, n, Len(queue), PlaceLoop(v, b, queue))
<1>1. /\ n \in Nat /\ Len(queue) \in Nat /\ Planned(w, T, F, A) /\ T \in SUBSET Slot
      /\ \A k \in Nat : k \in T => n <= k
  BY PlacesNumbers
<1>2. PICK m \in Nat : m = Len(queue)
  BY <1>1
<1>3. PICK f : /\ f[0] = v
               /\ \A k \in Nat : k < Len(queue) => f[k + 1] = Place(f[k], b, queue[k + 1])
               /\ PlaceLoop(v, b, queue) = f[Len(queue)]
  <2>1. Len(queue) \in Nat
    BY <1>1
  <2>. QED  BY <2>1, PlaceLoopIs
<1>. DEFINE P == {j \in Nat : Placed(w, T, F, A, n, j, f[j])}
<1>4. 0 \in P
  <2>1. n + 0 = n
    BY <1>1
  <2>2. \A s \in T : ~(s < n)
    <3>1. \A s \in T : s \in Nat /\ n <= s
      BY <1>1, SlotBound
    <3>. QED  BY <1>1, <3>1
  <2>3. Swept(w, T, F, A, n, w)
    BY <1>1, <2>2, SweptStart
  <2>4. Placed(w, T, F, A, n, 0, v)
    BY <2>1, <2>3 DEF Placed, Sweep
  <2>. QED  BY <1>3, <2>4
<1>5. ASSUME NEW j \in Nat, j < m, j \in P
      PROVE  j + 1 \in P
  <2>1. PICK y : y = f[j]
    OBVIOUS
  <2>2. Placed(w, T, F, A, n, j, y)
    BY <1>5, <2>1
  <2>3. Placed(w, T, F, A, n, j + 1, Place(y, b, queue[j + 1]))
    BY <1>2, <1>5, <2>2, PlaceOne
  <2>4. f[j + 1] = Place(y, b, queue[j + 1])
    BY <1>2, <1>3, <1>5, <2>1
  <2>. QED  BY <2>3, <2>4
<1>. HIDE DEF P
<1>6. m \in P
  BY <1>4, <1>5, CountUp
<1>. QED  BY <1>2, <1>3, <1>6 DEF P

LEMMA PlaceLoopAs ==
  ASSUME NEW v, NEW w, Ready(v, w), NEW b \in Ballot, NEW queue \in Seq(Value),
         FreshSlots(w, queue) \subseteq Slot
  PROVE  LET p == PlaceLoop(v, b, queue)
         IN  /\ GoodVector(p) /\ AsWindow(p) = ProposeWindow(w, b, queue)
             /\ Len(queue) > 0 => AsWindow(p).end = NextSlot(w) + Len(queue)
<1>1. PICK n : n = NextSlot(w)
  OBVIOUS
<1>2. PICK T : T = FreshSlots(w, queue)
  OBVIOUS
<1>3. PICK F : F = Const(T, b)
  OBVIOUS
<1>4. PICK X : X = [s \in T |-> queue[s - NextSlot(w) + 1]]
  OBVIOUS
<1>5. PICK A : A = [s \in T |-> NoticeValue(Opened(w, F).acc[s], F[s], X[s])]
  OBVIOUS
<1>6. /\ GoodVector(v) /\ w = AsWindow(v) /\ Sound(w) /\ AllSettled(w)
      /\ GoodWindow(w, BallotOption) /\ Logged(w) /\ Shape(w)
      /\ b \in BallotOption /\ b # NoBallot
  <2>1. b \in BallotOption /\ b # NoBallot
    BY DEF Ballot, BallotOption, NoBallot
  <2>2. GoodVector(v) /\ w = AsWindow(v) /\ Sound(w) /\ AllSettled(w)
    BY ReadySettled DEF Ready
  <2>3. GoodWindow(w, BallotOption) /\ Logged(w) /\ Shape(w)
    BY <2>2 DEF Sound, Logged
  <2>. QED  BY <2>1, <2>2, <2>3
<1>7. n \in Nat /\ Len(queue) \in Nat /\ T = n..(n + Len(queue) - 1)
      /\ T \in SUBSET Slot /\ T \in SUBSET WindowSlot
  BY <1>1, <1>2, <1>6, WindowRange, SlotBound DEF FreshSlots
<1>8. Notices(w, T, F, X, A)
  <2>1. \A s \in T : ~ResolvedAt(w, s)
    <3>1. \A s \in T : s \in WindowSlot /\ s >= n
      BY <1>7
    <3>. QED  BY <1>1, <1>6, <3>1, FreshUnresolved
  <2>2. F \in [T -> BallotOption \ {NoBallot}]
    BY <1>3, <1>6 DEF Const
  <2>3. \A s \in T : X[s] \in Value
    <3>1. \A s \in T : s - n + 1 \in 1..Len(queue)
      BY <1>7
    <3>2. \A i \in 1..Len(queue) : queue[i] \in Value
      OBVIOUS
    <3>. QED  BY <1>1, <1>4, <3>1, <3>2
  <2>. QED  BY <1>5, <1>6, <1>7, <2>1, <2>2, <2>3 DEF Notices
<1>9. Places(w, b, queue, T, F, X, A)
  BY <1>2, <1>3, <1>4, <1>8 DEF Places
<1>10. PICK p : p = PlaceLoop(v, b, queue)
  OBVIOUS
<1>11. Placed(w, T, F, A, n, Len(queue), p)
  BY <1>1, <1>6, <1>9, <1>10, PlaceAll
<1>12. PICK k \in Nat : k = n + Len(queue)
  BY <1>7
<1>13. /\ GoodVector(p) /\ Swept(w, T, F, A, k, AsWindow(p))
       /\ Len(queue) > 0 => AsWindow(p).end = k
  BY <1>11, <1>12 DEF Placed, Sweep
<1>14. PICK last : last = LastOf(w, T)
  OBVIOUS
<1>15. last \in WindowSlot /\ (\A s \in T : s <= last) /\ (w.end <= last => last \in T)
  BY <1>6, <1>7, <1>14, LastIs
<1>16. \A s \in T : s < k
  BY <1>7, <1>12
<1>17. AsWindow(p) = FillDecisions(Visited(w, F, A, last))
  <2>1. Planned(w, T, F, A)
    BY <1>8, NoticePlan
  <2>. QED  BY <1>13, <1>15, <1>16, <2>1, SweptEnd
<1>18. PICK u : u = ProposeWindow(w, b, queue)
  OBVIOUS
<1>19. Visited(w, F, A, last) = u
  <2>1. DOMAIN F = T
    BY <1>3 DEF Const
  <2>2. Visited(w, F, A, last) = Update(Opened(w, F), A)
    BY <1>14, <2>1, VisitedSame
  <2>3. A = [s \in T |-> NoticeValue(Opened(w, F).acc[s], b, queue[s - NextSlot(w) + 1])]
    BY <1>3, <1>4, <1>5 DEF Const
  <2>. QED  BY <1>2, <1>3, <1>18, <2>2, <2>3 DEF ProposeWindow
<1>20. FillDecisions(u) = u
  <2>1. GoodWindow(u, BallotOption) /\ Logged(u)
    BY <1>6, <1>18, AllBallots, ProposeWindowGood, ProposeLogged
  <2>. QED  BY <2>1, LoggedIsFilled
<1>. QED  BY <1>1, <1>10, <1>12, <1>13, <1>17, <1>18, <1>19, <1>20

(***************************************************************************)
(* drive_accept: the loop over the open range, after the queued values     *)
(* have their slots                                                        *)
(***************************************************************************)
LEMMA VisitDrive ==
  ASSUME NEW v, NEW out, NEW s, NEW b, NEW queue
  PROVE  LET x == State(v, out, "No", NoBallot)
         IN  Visit([type |-> "Drive", bal |-> b, queue |-> queue], x, s) = DriveVisit(x, s, b)
<1>1. PICK x : x = State(v, out, "No", NoBallot)
  OBVIOUS
<1>2. x.stop = "No"
  BY <1>1, States
<1>. QED  BY <1>1, <1>2 DEF Visit

\* What a drive notices in the window w: its own values, at the ballot b.
Drives(w, b, T, F, X, A) ==
  /\ Notices(w, T, F, X, A) /\ b \in Ballot
  /\ T = OpenSlots(w) /\ F = Const(T, b) /\ X = [s \in T |-> w.acc[s].val]

LEMMA DriveOpens ==
  ASSUME NEW w, GoodWindow(w, BallotOption), NEW b, NEW T, T = OpenSlots(w),
         NEW F, F = Const(T, b)
  PROVE  Opened(w, F) = w /\ T \in SUBSET WindowSlot /\ \A s \in T : s < w.end
<1>1. /\ OpenRange(w) \subseteq WindowSlot /\ T \subseteq OpenRange(w)
      /\ w.end \in Nat /\ w.min \in Nat /\ IsWindow(w)
  BY WindowRange, SweptNumbers
<1>2. T \in SUBSET WindowSlot /\ \A s \in T : s < w.end
  <2>1. \A s \in OpenRange(w) : s < w.end
    BY <1>1 DEF OpenRange
  <2>. QED  BY <1>1, <2>1
<1>3. PICK last : last = LastOf(w, T)
  OBVIOUS
<1>4. last \in WindowSlot /\ (w.end <= last => last \in T)
  BY <1>2, <1>3, LastIs
<1>5. last \in Nat
  BY <1>4, SlotBound
<1>6. ~(w.end <= last)
  BY <1>1, <1>2, <1>4, <1>5
<1>7. OpenUpTo(w, F, last) = w
  BY <1>1, <1>4, <1>6, NothingOpened
<1>8. DOMAIN F = T
  BY DEF Const
<1>. QED  BY <1>2, <1>3, <1>7, <1>8 DEF Opened

LEMMA DriveNotices ==
  ASSUME NEW w, Sound(w), AllSettled(w), OpenRange(w) \subseteq Slot, NEW b \in Ballot,
         NEW T, T = OpenSlots(w), NEW F, F = Const(T, b), NEW X, X = [s \in T |-> w.acc[s].val],
         NEW A, A = [s \in T |-> NoticeValue(w.acc[s], b, w.acc[s].val)]
  PROVE  Drives(w, b, T, F, X, A)
<1>1. GoodWindow(w, BallotOption)
  BY DEF Sound
<1>2. Opened(w, F) = w /\ T \in SUBSET WindowSlot
  BY <1>1, DriveOpens
<1>3. T \in SUBSET Slot /\ \A s \in T : ~ResolvedAt(w, s)
  BY DEF OpenSlots
<1>4. F \in [T -> BallotOption \ {NoBallot}]
  BY DEF Const, Ballot, BallotOption, NoBallot
<1>5. \A s \in T : X[s] \in Value
  <2>1. \A s \in WindowSlot : w.acc[s] \in Acceptor
    BY <1>1 DEF GoodWindow, GoodAcceptor
  <2>2. \A a \in Acceptor : a.val \in Value
    BY DEF Acceptor
  <2>. QED  BY <1>2, <2>1, <2>2
<1>6. A = [s \in T |-> NoticeValue(Opened(w, F).acc[s], F[s], X[s])]
  BY <1>2 DEF Const
<1>7. Notices(w, T, F, X, A)
  BY <1>3, <1>4, <1>5, <1>6 DEF Notices
<1>. QED  BY <1>7 DEF Drives

LEMMA DriveFollows ==
  ASSUME NEW w, NEW b, NEW T, NEW F, NEW X, NEW A, Drives(w, b, T, F, X, A), NEW queue,
         NEW c, c = [type |-> "Drive", bal |-> b, queue |-> queue]
  PROVE  Follows(c, w, T, F, A, OpenRange(w), DriveValues(w), {}, "Reject", NoBallot)
<1>1. /\ Notices(w, T, F, X, A) /\ GoodWindow(w, BallotOption) /\ AllSettled(w)
      /\ T = OpenSlots(w)
  BY DEF Drives, Notices, Sound
<1>2. Planned(w, T, F, A)
  BY <1>1, NoticePlan
<1>3. SUFFICES ASSUME NEW k \in OpenRange(w), NEW v, NEW out, Sweep(w, T, F, A, k, v)
               PROVE  Advances(c, w, T, F, A, DriveValues(w), {}, "Reject", NoBallot, k, v, out)
  BY DEF Follows
<1>4. PICK x : x = State(v, out, "No", NoBallot)
  OBVIOUS
<1>5. Visit(c, x, k) = DriveVisit(x, k, b)
  BY <1>4, VisitDrive
<1>6. x.vec = v /\ x.out = out
  BY <1>4, States
<1>7. k \in WindowSlot /\ k \in Nat /\ k < w.end
  <2>1. w.min \in Nat /\ w.end \in Nat /\ OpenRange(w) \subseteq WindowSlot
    BY <1>1, SweptNumbers, WindowRange
  <2>. QED  BY <2>1, SlotBound DEF OpenRange
<1>8. CASE k \notin T
  <2>1. ResolvedAt(w, k)
    BY <1>1, <1>3, <1>8 DEF OpenSlots
  <2>2. SlotMut(v, k) = "Resolved"
    BY <1>2, <1>3, <1>7, <2>1, SlotKind
  <2>3. DriveVisit(x, k, b) = x
    BY <1>6, <2>2 DEF DriveVisit
  <2>4. Sweep(w, T, F, A, k + 1, v)
    BY <1>2, <1>3, <1>7, <1>8, PassSlot
  <2>5. With(DriveValues(w), k, out) = out
    BY <1>1, <1>8 DEF With, DriveValues
  <2>. QED  BY <1>4, <1>5, <2>3, <2>4, <2>5 DEF Advances
<1>9. CASE k \in T
  <2>1. ~ResolvedAt(w, k)
    BY <1>1, <1>9 DEF OpenSlots
  <2>2. PICK a : a = w.acc[k]
    OBVIOUS
  <2>3. PICK u, e : u = SetAcceptor(v, k, NoticeValue(a, b, a.val)) /\ e = Collect(out, k, a.val)
    OBVIOUS
  <2>4. SlotMut(v, k) # "Resolved" /\ Filled(v, k) = v /\ AcceptorAt(v, k) = a
    BY <1>2, <1>3, <1>7, <2>1, <2>2, OpenFound
  <2>5. Sweep(w, T, F, A, k + 1,
              SetAcceptor(Filled(v, k), k, NoticeValue(AcceptorAt(Filled(v, k), k), F[k], X[k])))
    BY <1>1, <1>3, <1>9, NoticeSlot
  <2>6. F[k] = b /\ X[k] = a.val
    BY <1>9, <2>2 DEF Drives, Const
  <2>7. Sweep(w, T, F, A, k + 1, u)
    BY <2>3, <2>4, <2>5, <2>6
  <2>8. (IF HasValue(a) THEN a.val ELSE Noop) = a.val
    BY <1>1, <1>7, <2>2 DEF AllSettled, Settled
  <2>9. DriveVisit(x, k, b) = Going(x, u, e)
    <3>1. SlotMut(x.vec, k) # "Resolved" /\ AcceptorAt(x.vec, k) = a
      BY <1>6, <2>4
    <3>2. DriveVisit(x, k, b)
            = Going(x, SetAcceptor(x.vec, k, NoticeValue(a, b, a.val)),
                    Collect(x.out, k, a.val))
      BY <2>8, <3>1, Zenon DEF DriveVisit
    <3>. QED  BY <1>6, <2>3, <3>2
  <2>10. With(DriveValues(w), k, out) = e
    BY <1>1, <1>9, <2>2, <2>3 DEF With, DriveValues
  <2>11. Going(x, u, e) = State(u, e, "No", NoBallot)
    BY <1>4, GoingIs
  <2>. QED  BY <1>4, <1>5, <2>7, <2>9, <2>10, <2>11 DEF Advances
<1>. QED  BY <1>8, <1>9

\* The window after the loop over the open range of a drive.
Driven(w, b) ==
  Update(w, [s \in OpenSlots(w) |-> NoticeValue(w.acc[s], b, w.acc[s].val)])

LEMMA DriveLoop ==
  ASSUME NEW v, NEW w, Ready(v, w), OpenRange(w) \subseteq Slot, NEW b \in Ballot, NEW queue
  PROVE  LET x == Loop([type |-> "Drive", bal |-> b, queue |-> queue], v, OpenIndices(v))
         IN  /\ GoodVector(x.vec) /\ AsWindow(x.vec) = FillDecisions(Driven(w, b))
             /\ x.out = DriveValues(w)
<1>1. PICK c : c = [type |-> "Drive", bal |-> b, queue |-> queue]
  OBVIOUS
<1>2. PICK T : T = OpenSlots(w)
  OBVIOUS
<1>3. PICK F : F = Const(T, b)
  OBVIOUS
<1>4. PICK X : X = [s \in T |-> w.acc[s].val]
  OBVIOUS
<1>5. PICK A : A = [s \in T |-> NoticeValue(w.acc[s], b, w.acc[s].val)]
  OBVIOUS
<1>6. PICK slots, G : slots = OpenRange(w) /\ G = DriveValues(w)
  OBVIOUS
<1>7. /\ GoodVector(v) /\ w = AsWindow(v) /\ Sound(w) /\ AllSettled(w)
      /\ GoodWindow(w, BallotOption) /\ OpenIndices(v) = slots
  BY <1>6, ReadySettled, OpenIndicesAs DEF Ready, Sound
<1>8. Drives(w, b, T, F, X, A)
  BY <1>2, <1>3, <1>4, <1>5, <1>7, DriveNotices
<1>9. Planned(w, T, F, A)
  BY <1>8, NoticePlan DEF Drives
<1>10. Follows(c, w, T, F, A, slots, G, {}, "Reject", NoBallot)
  BY <1>1, <1>6, <1>8, DriveFollows
<1>11. T \subseteq slots /\ DOMAIN G = T /\ G = [s \in DOMAIN G |-> G[s]]
  BY <1>2, <1>6 DEF OpenSlots, DriveValues
<1>12. Stands(w, T, F, A, slots, G, {}, "Reject")
  <2>1. slots \subseteq WindowSlot
    BY <1>6, <1>7, WindowRange
  <2>. QED  BY <1>9, <1>11, <2>1 DEF Stands
<1>13. PICK last : last = w.end - 1
  OBVIOUS
<1>14. /\ last \in WindowSlot /\ ~(w.end <= last) /\ \A s \in T : ~(w.end <= s)
       /\ Visited(w, F, A, last) = Update(w, A)
  BY <1>6, <1>7, <1>11, <1>13, OpenEnd
<1>15. PICK x : x = Loop(c, v, slots)
  OBVIOUS
<1>16. /\ GoodVector(x.vec) /\ AsWindow(x.vec) = FillDecisions(Visited(w, F, A, last))
       /\ x.out = G
  BY <1>7, <1>10, <1>12, <1>14, <1>15, LoopEnds
<1>17. Visited(w, F, A, last) = Driven(w, b)
  BY <1>2, <1>5, <1>14 DEF Driven
<1>. QED  BY <1>1, <1>6, <1>7, <1>15, <1>16, <1>17

LEMMA DrivenSame ==
  ASSUME NEW w, GoodWindow(w, BallotOption), NEW b
  PROVE  /\ OpenSlots(Driven(w, b)) = OpenSlots(w)
         /\ DriveValues(Driven(w, b)) = DriveValues(w)
<1>1. PICK T : T = OpenSlots(w)
  OBVIOUS
<1>2. PICK A : A = [s \in T |-> NoticeValue(w.acc[s], b, w.acc[s].val)]
  OBVIOUS
<1>3. PICK u : u = Update(w, A)
  OBVIOUS
<1>4. u = Driven(w, b)
  BY <1>1, <1>2, <1>3 DEF Driven
<1>5. OpenRange(w) \subseteq WindowSlot
  BY WindowRange
<1>6. IsWindow(w)
  BY SweptNumbers
<1>7. /\ u.min = w.min /\ u.end = w.end
      /\ \A t \in WindowSlot : u.acc[t] = IF t \in DOMAIN A THEN A[t] ELSE w.acc[t]
  <2>1. LET z == Update(w, A)
        IN  /\ z.min = w.min /\ z.end = w.end
            /\ \A t \in WindowSlot : z.acc[t] = IF t \in DOMAIN A THEN A[t] ELSE w.acc[t]
    BY <1>6, UpdateIs
  <2>. QED  BY <1>3, <2>1
<1>8. \A a : \A val : ~IsResolved(a) => ~IsResolved(NoticeValue(a, b, val))
  BY DEF NoticeValue, IsResolved, AwaitQuorum
<1>9. \A a : NoticeValue(a, b, a.val).val = a.val
  BY DEF NoticeValue, AwaitQuorum
<1>10. OpenRange(u) = OpenRange(w)
  BY <1>7 DEF OpenRange
<1>11. ASSUME NEW s \in OpenRange(w)
       PROVE  (ResolvedAt(u, s) <=> ResolvedAt(w, s)) /\ u.acc[s].val = w.acc[s].val
  <2>1. CASE s \in T
    <3>1. u.acc[s] = NoticeValue(w.acc[s], b, w.acc[s].val)
      BY <1>2, <1>5, <1>7, <1>11, <2>1
    <3>2. ~IsResolved(w.acc[s])
      BY <1>1, <2>1 DEF OpenSlots, ResolvedAt
    <3>. QED  BY <1>8, <1>9, <3>1, <3>2 DEF ResolvedAt
  <2>2. CASE s \notin T
    <3>1. u.acc[s] = w.acc[s]
      BY <1>2, <1>5, <1>7, <1>11, <2>2
    <3>. QED  BY <3>1 DEF ResolvedAt
  <2>. QED  BY <2>1, <2>2
<1>12. OpenSlots(u) = OpenSlots(w)
  BY <1>10, <1>11 DEF OpenSlots
<1>13. \A s \in OpenSlots(w) : u.acc[s].val = w.acc[s].val
  BY <1>11 DEF OpenSlots
<1>14. DriveValues(u) = DriveValues(w)
  BY <1>12, <1>13 DEF DriveValues
<1>. QED  BY <1>4, <1>12, <1>14

\* The values a leader places open no slot above the last one of Slot.
LEMMA ProposeRange ==
  ASSUME NEW w, GoodWindow(w, BallotOption), NEW b, NEW queue,
         FreshSlots(w, queue) \subseteq Slot, OpenRange(w) \subseteq Slot,
         NEW p, p = ProposeWindow(w, b, queue), GoodWindow(p, BallotOption)
  PROVE  OpenRange(p) \subseteq Slot
<1>1. PICK T : T = FreshSlots(w, queue)
  OBVIOUS
<1>2. PICK F : F = Const(T, b)
  OBVIOUS
<1>3. PICK A : A = [s \in T |-> NoticeValue(Opened(w, F).acc[s], b, queue[s - NextSlot(w) + 1])]
  OBVIOUS
<1>4. PICK last : last = LastOf(w, T)
  OBVIOUS
<1>5. Visited(w, F, A, last) = p
  <2>1. DOMAIN F = T
    BY <1>2 DEF Const
  <2>2. Visited(w, F, A, last) = Update(Opened(w, F), A)
    BY <1>4, <2>1, VisitedSame
  <2>. QED  BY <1>1, <1>2, <1>3, <2>2 DEF ProposeWindow
<1>6. last \in WindowSlot /\ (w.end <= last => last \in T)
  <2>1. T \in SUBSET WindowSlot
    BY <1>1, SlotBound
  <2>. QED  BY <1>4, <2>1, LastIs
<1>7. (w.end <= last => p.end = last + 1) /\ (~(w.end <= last) => p.end = w.end)
  <2>1. IsWindow(w)
    BY SweptNumbers
  <2>2. PICK z : z = Visited(w, F, A, last)
    OBVIOUS
  <2>3. /\ z.min = w.min
        /\ z.max = Highest({w.max} \cup {A[s].promised : s \in DOMAIN A})
        /\ (w.end <= last => z.end = last + 1) /\ (~(w.end <= last) => z.end = w.end)
    BY <2>1, <2>2, VisitedFields
  <2>. QED  BY <1>5, <2>2, <2>3
<1>8. w.end \in Nat /\ w.min \in Nat /\ w.min < w.end /\ p.min \in Nat /\ p.end \in Nat
  BY SweptNumbers
<1>9. p.end - 1 <= MaxSlot
  <2>1. CASE w.end <= last
    BY <1>1, <1>6, <1>7, <1>8, <2>1, MaxSlotAssumption DEF Slot
  <2>2. CASE ~(w.end <= last)
    <3>1. w.end - 1 \in OpenRange(w)
      BY <1>8 DEF OpenRange
    <3>. QED  BY <1>7, <1>8, <2>2, <3>1, MaxSlotAssumption DEF Slot
  <2>. QED  BY <2>1, <2>2
<1>. QED  BY <1>8, <1>9, MaxSlotAssumption DEF OpenRange, Slot

LEMMA DriveAs ==
  ASSUME NEW v, NEW w, Ready(v, w), OpenRange(w) \subseteq Slot, NEW b \in Ballot,
         NEW queue \in Seq(Value), FreshSlots(w, queue) \subseteq Slot
  PROVE  LET placed == PlaceLoop(v, b, queue)
             x == Loop([type |-> "Drive", bal |-> b, queue |-> queue], placed,
                       OpenIndices(placed))
             u == DriveWindow(w, b, queue)
         IN  /\ GoodVector(x.vec) /\ AsWindow(x.vec) = u /\ x.out = DriveValues(u)
             /\ DOMAIN DriveValues(u) \subseteq Slot
<1>1. PICK q : q = PlaceLoop(v, b, queue)
  OBVIOUS
<1>2. PICK p : p = ProposeWindow(w, b, queue)
  OBVIOUS
<1>3. PICK u : u = DriveWindow(w, b, queue)
  OBVIOUS
<1>4. GoodWindow(w, BallotOption) /\ Logged(w) /\ Bounded(w)
  BY DEF Ready, Sound
<1>5. b \in BallotOption /\ b # NoBallot
  BY DEF Ballot, BallotOption, NoBallot
<1>6. GoodVector(q) /\ AsWindow(q) = p
  <2>1. LET z == PlaceLoop(v, b, queue)
        IN  GoodVector(z) /\ AsWindow(z) = ProposeWindow(w, b, queue)
    BY PlaceLoopAs
  <2>. QED  BY <1>1, <1>2, <2>1
<1>7. GoodWindow(p, BallotOption)
  BY <1>2, <1>4, <1>5, AllBallots, ProposeWindowGood
<1>8. Logged(p)
  BY <1>2, <1>4, <1>5, AllBallots, ProposeLogged
<1>9. Bounded(p)
  BY <1>2, <1>4, <1>5, AllBallots, ProposeRaises
<1>10. Ready(q, p)
  BY <1>6, <1>7, <1>8, <1>9 DEF Ready, Sound
<1>11. OpenRange(p) \subseteq Slot
  BY <1>2, <1>4, <1>7, ProposeRange
<1>12. PICK x : x = Loop([type |-> "Drive", bal |-> b, queue |-> queue], q, OpenIndices(q))
  OBVIOUS
<1>13. /\ GoodVector(x.vec) /\ AsWindow(x.vec) = FillDecisions(Driven(p, b))
       /\ x.out = DriveValues(p)
  BY <1>10, <1>11, <1>12, DriveLoop
<1>14. Driven(p, b) = u
  BY <1>2, <1>3 DEF Driven, DriveWindow
<1>15. OpenSlots(u) = OpenSlots(p) /\ DriveValues(u) = DriveValues(p)
  BY <1>7, <1>14, DrivenSame
<1>16. DOMAIN DriveValues(u) \subseteq Slot
  <2>1. DOMAIN DriveValues(u) = OpenSlots(u)
    BY DEF DriveValues
  <2>2. OpenSlots(p) \subseteq OpenRange(p)
    BY DEF OpenSlots
  <2>. QED  BY <1>11, <1>15, <2>1, <2>2
<1>17. FillDecisions(u) = u
  <2>1. GoodWindow(u, BallotOption)
    BY <1>3, <1>4, <1>5, <1>16, AllBallots, DriveWindowGood
  <2>2. Logged(u)
    BY <1>3, <1>4, <1>5, AllBallots, DriveLogged
  <2>. QED  BY <2>1, <2>2, LoggedIsFilled
<1>. QED  BY <1>1, <1>3, <1>12, <1>13, <1>14, <1>15, <1>16, <1>17

(***************************************************************************)
(* The guards and the replies of the calls                                 *)
(***************************************************************************)
LEMMA FitsIs ==
  ASSUME NEW v, NEW w, Ready(v, w), NEW queue \in Seq(Value), Fits(v, queue)
  PROVE  FreshSlots(w, queue) \subseteq Slot
<1>1. GoodVector(v) /\ w = AsWindow(v) /\ GoodWindow(w, BallotOption)
  BY DEF Ready, Sound
<1>2. /\ v.open[Len(v.open)] = w.acc[w.end - 1]
      /\ w.end = v.min + Len(v.open) /\ Len(v.open) \in Nat /\ Len(v.open) > 0
      /\ v.min \in Nat
  BY <1>1, LastOpen
<1>3. PICK n : n = NextSlot(w)
  OBVIOUS
<1>4. n \in Nat /\ Len(queue) \in Nat
  BY <1>1, <1>3, WindowRange
<1>5. PICK last, used : /\ last = v.min + Len(v.open) - 1
                        /\ used = IF HasValue(v.open[Len(v.open)]) THEN last ELSE last - 1
  OBVIOUS
<1>6. used + Len(queue) <= MaxSlot
  BY <1>5 DEF Fits
<1>7. used = n - 1
  BY <1>2, <1>3, <1>5 DEF NextSlot
<1>. QED  BY <1>3, <1>4, <1>6, <1>7, MaxSlotAssumption DEF FreshSlots, Slot

LEMMA ProposedSlot ==
  ASSUME NEW v, NEW w, Ready(v, w), NEW b \in Ballot, NEW val \in Value,
         FreshSlots(w, <<val>>) \subseteq Slot
  PROVE  LET p == PlaceLoop(v, b, <<val>>)
         IN  p.min + Len(p.open) - 1 = NextSlot(w)
<1>1. PICK queue : queue = <<val>>
  OBVIOUS
<1>2. queue \in Seq(Value) /\ Len(queue) = 1
  BY <1>1
<1>3. PICK p : p = PlaceLoop(v, b, queue)
  OBVIOUS
<1>4. GoodVector(p) /\ (Len(queue) > 0 => AsWindow(p).end = NextSlot(w) + Len(queue))
  BY <1>1, <1>2, <1>3, PlaceLoopAs
<1>5. NextSlot(w) \in Nat
  BY WindowRange DEF Ready, Sound
<1>6. AsWindow(p).end = p.min + Len(p.open)
  BY AsWindowIs
<1>7. AsWindow(p).end = NextSlot(w) + 1
  BY <1>2, <1>4
<1>8. p.min \in Nat /\ Len(p.open) \in Nat
  BY <1>4, VectorNumbers
<1>9. p.min + Len(p.open) - 1 = NextSlot(w)
  BY <1>5, <1>6, <1>7, <1>8
<1>. QED  BY <1>1, <1>3, <1>9

LEMMA UnresolvedIs ==
  ASSUME NEW v, GoodVector(v), NEW w, w = AsWindow(v), GoodWindow(w, BallotOption)
  PROVE  /\ UnresolvedSlots(v) = OpenSlots(w)
         /\ Len(v.open) > 1 <=> w.end > w.min + 1
<1>1. OpenIndices(v) = OpenRange(w)
  BY OpenIndicesAs
<1>2. OpenRange(w) \subseteq WindowSlot
  BY WindowRange
<1>3. \A s \in WindowSlot : SlotMut(v, s) = "Resolved" <=> ResolvedAt(w, s)
  BY SlotMutAs
<1>4. UnresolvedSlots(v) = OpenSlots(w)
  BY <1>1, <1>2, <1>3 DEF UnresolvedSlots, OpenSlots
<1>5. w.min = v.min /\ w.end = v.min + Len(v.open)
  BY AsWindowIs
<1>6. v.min \in Nat /\ Len(v.open) \in Nat
  BY VectorNumbers
<1>. QED  BY <1>4, <1>5, <1>6

(***************************************************************************)
(* Module WindowCalls states the calls with its own instances of the       *)
(* operators of module Handlers: they are the same operators.              *)
(***************************************************************************)
LEMMA SameNewWindow ==
  Calls!NewWindow = NewWindow
  BY Zenon DEF Calls!NewWindow, NewWindow, Calls!WindowSlot, WindowSlot,
      Calls!Unopened, Unopened, Calls!AwaitValue, AwaitValue, Calls!NoBallot,
      NoBallot

LEMMA SameSlots ==
  Calls!Slot = Slot
  BY Zenon DEF Calls!Slot, Slot

LEMMA SameValue ==
  Calls!Value = Value
  BY Zenon DEF Calls!Value, Value

LEMMA SamePrepareWindow ==
  ASSUME NEW u, NEW b
  PROVE  Calls!PrepareWindow(u, b) = PrepareWindow(u, b)
  BY Zenon DEF Calls!PrepareWindow, PrepareWindow, Calls!Reached, Reached,
      Calls!OpenSlots, OpenSlots, Calls!OpenRange, OpenRange,
      Calls!ResolvedAt, ResolvedAt, Calls!IsResolved, IsResolved,
      Calls!Resolved, Resolved, Calls!PrepareStops, PrepareStops,
      Calls!Rejects, Rejects, Calls!Less, Less, Calls!Update, Update,
      Calls!WindowSlot, WindowSlot, Calls!Highest, Highest, Calls!AtMost,
      AtMost, Calls!ReceivePrepare, ReceivePrepare

LEMMA SamePreparePreempted ==
  ASSUME NEW u, NEW b
  PROVE  Calls!PreparePreempted(u, b) = PreparePreempted(u, b)
  BY Zenon DEF Calls!PreparePreempted, PreparePreempted, Calls!PrepareStops,
      PrepareStops, Calls!OpenRange, OpenRange, Calls!Rejects, Rejects,
      Calls!IsResolved, IsResolved, Calls!Resolved, Resolved, Calls!Less,
      Less, Calls!NoBallot, NoBallot, Calls!Min, Min

LEMMA SamePrepareStops ==
  ASSUME NEW u, NEW b
  PROVE  Calls!PrepareStops(u, b) = PrepareStops(u, b)
  BY Zenon DEF Calls!PrepareStops, PrepareStops, Calls!OpenRange, OpenRange,
      Calls!Rejects, Rejects, Calls!IsResolved, IsResolved, Calls!Resolved,
      Resolved, Calls!Less, Less

LEMMA SameReported ==
  ASSUME NEW u
  PROVE  Calls!Report(u) = Report(u)
  BY Zenon DEF Calls!Report, Report, Calls!OpenRange, OpenRange,
      Calls!HasValue, HasValue, Calls!AwaitValue, AwaitValue, Calls!NoBallot,
      NoBallot

LEMMA SameNoticeReport ==
  ASSUME NEW u, NEW report
  PROVE  Calls!NoticeReport(u, report) = NoticeReport(u, report)
  BY Zenon DEF Calls!NoticeReport, NoticeReport, Calls!ResolvedAt, ResolvedAt,
      Calls!IsResolved, IsResolved, Calls!Resolved, Resolved, Calls!Opened,
      Opened, Calls!OpenUpTo, OpenUpTo, Calls!WindowSlot, WindowSlot,
      Calls!AwaitValue, AwaitValue, Calls!NoBallot, NoBallot,
      Calls!FreshPromise, FreshPromise, Calls!Highest, Highest, Calls!AtMost,
      AtMost, Calls!Less, Less, Calls!Below, Below, Calls!LastOf, LastOf,
      Calls!Max, Max, Calls!Update, Update, Calls!NoticeValue, NoticeValue,
      Calls!AwaitQuorum, AwaitQuorum, Calls!Higher, Higher

LEMMA SameFreshSlots ==
  ASSUME NEW u, NEW queue
  PROVE  Calls!FreshSlots(u, queue) = FreshSlots(u, queue)
  BY Zenon DEF Calls!FreshSlots, FreshSlots, Calls!NextSlot, NextSlot,
      Calls!HasValue, HasValue, Calls!AwaitValue, AwaitValue, Calls!NoBallot,
      NoBallot

LEMMA SameNextSlot ==
  ASSUME NEW u
  PROVE  Calls!NextSlot(u) = NextSlot(u)
  BY Zenon DEF Calls!NextSlot, NextSlot, Calls!HasValue, HasValue,
      Calls!AwaitValue, AwaitValue, Calls!NoBallot, NoBallot

LEMMA SameOpened ==
  ASSUME NEW u, NEW seen
  PROVE  Calls!Opened(u, seen) = Opened(u, seen)
  BY Zenon DEF Calls!Opened, Opened, Calls!OpenUpTo, OpenUpTo, Calls!WindowSlot,
      WindowSlot, Calls!FreshPromise, FreshPromise, Calls!Highest, Highest,
      Calls!AtMost, AtMost, Calls!Less, Less, Calls!Below, Below, Calls!LastOf,
      LastOf, Calls!Max, Max, Calls!AwaitValue, AwaitValue, Calls!NoBallot, NoBallot

LEMMA SameUpdate ==
  ASSUME NEW u, NEW accs
  PROVE  Calls!Update(u, accs) = Update(u, accs)
  BY Zenon DEF Calls!Update, Update, Calls!WindowSlot, WindowSlot, Calls!Highest,
      Highest, Calls!AtMost, AtMost, Calls!Less, Less

LEMMA SameNoticeValue ==
  ASSUME NEW a, NEW b, NEW val
  PROVE  Calls!NoticeValue(a, b, val) = NoticeValue(a, b, val)
  BY Zenon DEF Calls!NoticeValue, NoticeValue, Calls!IsResolved, IsResolved,
      Calls!AwaitQuorum, AwaitQuorum, Calls!Higher, Higher, Calls!Less, Less

LEMMA SameProposeWindow ==
  ASSUME NEW u, NEW b, NEW queue
  PROVE  Calls!ProposeWindow(u, b, queue) = ProposeWindow(u, b, queue)
<1>1. PICK S : S = FreshSlots(u, queue)
  OBVIOUS
<1>2. PICK n : n = NextSlot(u)
  OBVIOUS
<1>3. PICK F : F = Const(S, b)
  OBVIOUS
<1>4. PICK o : o = Opened(u, F)
  OBVIOUS
<1>5. PICK A : A = [s \in S |-> NoticeValue(o.acc[s], b, queue[s - n + 1])]
  OBVIOUS
<1>6. ProposeWindow(u, b, queue) = Update(o, A)
  BY <1>1, <1>2, <1>3, <1>4, <1>5 DEF ProposeWindow
<1>7. Calls!FreshSlots(u, queue) = S /\ Calls!NextSlot(u) = n
  BY <1>1, <1>2, SameFreshSlots, SameNextSlot
<1>8. Calls!Const(S, b) = F
  BY <1>3, Zenon DEF Const, Calls!Const
<1>9. Calls!Opened(u, F) = o
  BY <1>4, SameOpened
<1>10. [s \in S |-> Calls!NoticeValue(o.acc[s], b, queue[s - n + 1])] = A
  BY <1>5, SameNoticeValue
<1>11. Calls!ProposeWindow(u, b, queue) = Calls!Update(o, A)
  BY <1>7, <1>8, <1>9, <1>10 DEF Calls!ProposeWindow
<1>. QED  BY <1>6, <1>11, SameUpdate

LEMMA SameDriveWindow ==
  ASSUME NEW u, NEW b, NEW queue
  PROVE  Calls!DriveWindow(u, b, queue) = DriveWindow(u, b, queue)
<1>1. PICK p : p = ProposeWindow(u, b, queue)
  OBVIOUS
<1>2. PICK S : S = OpenSlots(p)
  OBVIOUS
<1>3. PICK A : A = [s \in S |-> NoticeValue(p.acc[s], b, p.acc[s].val)]
  OBVIOUS
<1>4. DriveWindow(u, b, queue) = Update(p, A)
  BY <1>1, <1>2, <1>3 DEF DriveWindow
<1>5. Calls!ProposeWindow(u, b, queue) = p
  BY <1>1, SameProposeWindow
<1>6. Calls!OpenSlots(p) = S
  BY <1>2, Zenon DEF Calls!OpenSlots, OpenSlots, Calls!OpenRange, OpenRange,
      Calls!ResolvedAt, ResolvedAt, Calls!IsResolved, IsResolved
<1>7. [s \in S |-> Calls!NoticeValue(p.acc[s], b, p.acc[s].val)] = A
  BY <1>3, SameNoticeValue
<1>8. Calls!DriveWindow(u, b, queue) = Calls!Update(p, A)
  BY <1>5, <1>6, <1>7 DEF Calls!DriveWindow
<1>. QED  BY <1>4, <1>8, SameUpdate

LEMMA SameDriveValues ==
  ASSUME NEW u
  PROVE  Calls!DriveValues(u) = DriveValues(u)
  BY Zenon DEF Calls!DriveValues, DriveValues, Calls!OpenSlots, OpenSlots,
      Calls!OpenRange, OpenRange, Calls!ResolvedAt, ResolvedAt,
      Calls!IsResolved, IsResolved, Calls!Resolved, Resolved

LEMMA SameAcceptWindow ==
  ASSUME NEW u, NEW b, NEW batch
  PROVE  Calls!AcceptWindow(u, b, batch) = AcceptWindow(u, b, batch)
  BY ZenonT(40) DEF Calls!AcceptWindow, AcceptWindow, Calls!AcceptStops,
      AcceptStops, Calls!ResolvedAt, ResolvedAt, Calls!IsResolved, IsResolved,
      Calls!Resolved, Resolved, Calls!Less, Less, Calls!PromisedAt,
      PromisedAt, Calls!EmptyAt, EmptyAt, Calls!Reached, Reached,
      Calls!OpenUpTo, OpenUpTo, Calls!WindowSlot, WindowSlot,
      Calls!AwaitValue, AwaitValue, Calls!NoBallot, NoBallot,
      Calls!FreshPromise, FreshPromise, Calls!Highest, Highest, Calls!AtMost,
      AtMost, Calls!Below, Below, Calls!Const, Const, Calls!LastOf, LastOf,
      Calls!Max, Max, Calls!Update, Update, Calls!ReceiveAccept,
      ReceiveAccept, Calls!NoticeValue, NoticeValue, Calls!AwaitQuorum,
      AwaitQuorum, Calls!Higher, Higher

LEMMA SameAcceptSilent ==
  ASSUME NEW u, NEW b, NEW batch
  PROVE  Calls!AcceptSilent(u, b, batch) = AcceptSilent(u, b, batch)
  BY Zenon DEF Calls!AcceptSilent, AcceptSilent, Calls!AcceptStops,
      AcceptStops, Calls!ResolvedAt, ResolvedAt, Calls!IsResolved, IsResolved,
      Calls!Resolved, Resolved, Calls!Less, Less, Calls!PromisedAt,
      PromisedAt, Calls!EmptyAt, EmptyAt, Calls!Min, Min

LEMMA SameAcceptPreempted ==
  ASSUME NEW u, NEW b, NEW batch
  PROVE  Calls!AcceptPreempted(u, b, batch) = AcceptPreempted(u, b, batch)
  BY Zenon DEF Calls!AcceptPreempted, AcceptPreempted, Calls!AcceptStops,
      AcceptStops, Calls!ResolvedAt, ResolvedAt, Calls!IsResolved, IsResolved,
      Calls!Resolved, Resolved, Calls!Less, Less, Calls!PromisedAt,
      PromisedAt, Calls!EmptyAt, EmptyAt, Calls!AcceptSilent, AcceptSilent,
      Calls!Min, Min, Calls!NoBallot, NoBallot

LEMMA SameAcceptStops ==
  ASSUME NEW u, NEW b, NEW batch
  PROVE  Calls!AcceptStops(u, b, batch) = AcceptStops(u, b, batch)
  BY Zenon DEF Calls!AcceptStops, AcceptStops, Calls!ResolvedAt, ResolvedAt,
      Calls!IsResolved, IsResolved, Calls!Resolved, Resolved, Calls!Less,
      Less, Calls!PromisedAt, PromisedAt, Calls!EmptyAt, EmptyAt

LEMMA SameAcceptedWindow ==
  ASSUME NEW u, NEW peer, NEW b, NEW slots
  PROVE  Calls!AcceptedWindow(u, peer, b, slots) = AcceptedWindow(u, peer, b, slots)
  BY Zenon DEF Calls!AcceptedWindow, AcceptedWindow, Calls!FillDecisions,
      FillDecisions, Calls!FirstUnresolved, FirstUnresolved, Calls!ResolvedAt,
      ResolvedAt, Calls!IsResolved, IsResolved, Calls!Resolved, Resolved,
      Calls!OpenUpTo, OpenUpTo, Calls!WindowSlot, WindowSlot,
      Calls!AwaitValue, AwaitValue, Calls!NoBallot, NoBallot,
      Calls!FreshPromise, FreshPromise, Calls!Highest, Highest, Calls!AtMost,
      AtMost, Calls!Less, Less, Calls!Below, Below, Calls!Update, Update,
      Calls!CountedSlots, CountedSlots, Calls!Reached, Reached,
      Calls!OpenSlots, OpenSlots, Calls!OpenRange, OpenRange,
      Calls!AcceptedStops, AcceptedStops, Calls!ReceiveAccepted,
      ReceiveAccepted, Calls!AwaitQuorum, AwaitQuorum, Calls!EnoughAccepted,
      EnoughAccepted, Calls!Cardinality, Cardinality, Calls!QuorumSize,
      QuorumSize

LEMMA SameAcceptedStops ==
  ASSUME NEW u, NEW slots
  PROVE  Calls!AcceptedStops(u, slots) = AcceptedStops(u, slots)
  BY Zenon DEF Calls!AcceptedStops, AcceptedStops, Calls!ResolvedAt,
      ResolvedAt, Calls!IsResolved, IsResolved, Calls!Resolved, Resolved

LEMMA SameNewlyResolved ==
  ASSUME NEW u, NEW peer, NEW b, NEW slots
  PROVE  Calls!NewlyResolved(u, peer, b, slots) = NewlyResolved(u, peer, b, slots)
  BY Zenon DEF Calls!NewlyResolved, NewlyResolved, Calls!CountedSlots,
      CountedSlots, Calls!Reached, Reached, Calls!OpenSlots, OpenSlots,
      Calls!OpenRange, OpenRange, Calls!ResolvedAt, ResolvedAt,
      Calls!IsResolved, IsResolved, Calls!Resolved, Resolved,
      Calls!AcceptedStops, AcceptedStops, Calls!ReceiveAccepted,
      ReceiveAccepted, Calls!AwaitQuorum, AwaitQuorum, Calls!EnoughAccepted,
      EnoughAccepted, Calls!Cardinality, Cardinality, Calls!QuorumSize,
      QuorumSize

LEMMA SameFillDecisions ==
  ASSUME NEW u
  PROVE  Calls!FillDecisions(u) = FillDecisions(u)
  BY Zenon DEF Calls!FillDecisions, FillDecisions, Calls!FirstUnresolved,
      FirstUnresolved, Calls!ResolvedAt, ResolvedAt, Calls!IsResolved, IsResolved,
      Calls!OpenUpTo, OpenUpTo, Calls!WindowSlot, WindowSlot,
      Calls!AwaitValue, AwaitValue, Calls!NoBallot, NoBallot,
      Calls!FreshPromise, FreshPromise, Calls!Highest, Highest, Calls!AtMost,
      AtMost, Calls!Less, Less, Calls!Below, Below

LEMMA SameResolutionWindow ==
  ASSUME NEW u, NEW b, NEW batch
  PROVE  Calls!ResolutionWindow(u, b, batch) = ResolutionWindow(u, b, batch)
<1>1. PICK S : S = {s \in DOMAIN batch : ~ResolvedAt(u, s)}
  OBVIOUS
<1>2. PICK F : F = Const(S, b)
  OBVIOUS
<1>3. PICK o : o = Opened(u, F)
  OBVIOUS
<1>4. PICK A : A = [s \in S |-> Resolve(o.acc[s], b, batch[s])]
  OBVIOUS
<1>5. ResolutionWindow(u, b, batch) = FillDecisions(Update(o, A))
  BY <1>1, <1>2, <1>3, <1>4 DEF ResolutionWindow
<1>6. {s \in DOMAIN batch : ~Calls!ResolvedAt(u, s)} = S
  BY <1>1, Zenon DEF Calls!ResolvedAt, ResolvedAt, Calls!IsResolved, IsResolved
<1>7. Calls!Const(S, b) = F
  BY <1>2, Zenon DEF Const, Calls!Const
<1>8. Calls!Opened(u, F) = o
  BY <1>3, SameOpened
<1>9. [s \in S |-> Calls!Resolve(o.acc[s], b, batch[s])] = A
  BY <1>4, Zenon DEF Calls!Resolve, Resolve, Calls!Resolved, Resolved,
     Calls!IsResolved, IsResolved
<1>10. Calls!ResolutionWindow(u, b, batch) = Calls!FillDecisions(Calls!Update(o, A))
  BY <1>6, <1>7, <1>8, <1>9 DEF Calls!ResolutionWindow
<1>. QED  BY <1>5, <1>10, SameUpdate, SameFillDecisions

LEMMA SameMissingSlots ==
  ASSUME NEW u
  PROVE  Calls!MissingSlots(u) = MissingSlots(u)
  BY Zenon DEF Calls!MissingSlots, MissingSlots, Calls!OpenSlots, OpenSlots,
      Calls!OpenRange, OpenRange, Calls!ResolvedAt, ResolvedAt,
      Calls!IsResolved, IsResolved, Calls!Resolved, Resolved

(***************************************************************************)
(* What the inputs of the calls are                                        *)
(***************************************************************************)
LEMMA CallBallot ==
  ASSUME NEW b \in CallBallots
  PROVE  b \in Ballot /\ b \in BallotOption /\ b # NoBallot
  BY CallBallotsAssumption DEF Ballot, BallotOption, NoBallot

LEMMA CallBatch ==
  ASSUME NEW batch \in Calls!Batches
  PROVE  GoodBatch(batch)
<1>1. Calls!Batches = UNION {[S -> Value] : S \in SUBSET Slot}
  BY SameValue, SameSlots DEF Calls!Batches
<1>. QED  BY <1>1 DEF GoodBatch

LEMMA CallReport ==
  ASSUME NEW report \in Calls!Reported
  PROVE  GoodReport(report, BallotOption)
<1>1. PICK P : P = [bal : BallotOption \ {NoBallot}, val : Value]
  OBVIOUS
<1>2. Calls!Proposals \subseteq P
  BY <1>1, SameValue, CallBallot DEF Calls!Proposals
<1>3. PICK S \in SUBSET Slot : report \in [S -> Calls!Proposals]
  BY SameSlots DEF Calls!Reported
<1>4. report \in [S -> P]
  BY <1>2, <1>3
<1>. QED  BY <1>1, <1>4 DEF GoodReport

LEMMA CallQueue ==
  ASSUME NEW v \in ClientValue, NEW k \in Nat
  PROVE  [i \in 1..k |-> v] \in Seq(Value) /\ <<v>> \in Seq(Value)
  BY DEF Value

(***************************************************************************)
(* Every handler leaves a sound window.                                    *)
(***************************************************************************)
LEMMA PrepareSound ==
  ASSUME NEW w, Sound(w), NEW b \in BallotOption
  PROVE  Sound(PrepareWindow(w, b))
<1>1. GoodWindow(w, BallotOption) /\ Logged(w) /\ Bounded(w)
  BY DEF Sound
<1>2. GoodWindow(PrepareWindow(w, b), BallotOption)
  BY <1>1, AllBallots, PrepareWindowGood
<1>3. Logged(PrepareWindow(w, b))
  BY <1>1, PrepareLogged
<1>4. Bounded(PrepareWindow(w, b))
  BY <1>1, AllBallots, PrepareRaises
<1>. QED  BY <1>2, <1>3, <1>4 DEF Sound

LEMMA NoticeSound ==
  ASSUME NEW w, Sound(w), NEW report, GoodReport(report, BallotOption)
  PROVE  Sound(NoticeReport(w, report))
<1>1. GoodWindow(w, BallotOption) /\ Logged(w) /\ Bounded(w)
  BY DEF Sound
<1>. QED
  BY <1>1, AllBallots, NoticeReportGood, NoticeReportLogged, NoticeReportRaises DEF Sound

LEMMA ProposeSound ==
  ASSUME NEW w, Sound(w), NEW b \in BallotOption, b # NoBallot,
         NEW queue \in Seq(Value), FreshSlots(w, queue) \subseteq Slot
  PROVE  Sound(ProposeWindow(w, b, queue))
<1>1. GoodWindow(w, BallotOption) /\ Logged(w) /\ Bounded(w)
  BY DEF Sound
<1>. QED  BY <1>1, AllBallots, ProposeWindowGood, ProposeLogged, ProposeRaises DEF Sound

LEMMA DriveSound ==
  ASSUME NEW w, Sound(w), NEW b \in BallotOption, b # NoBallot,
         NEW queue \in Seq(Value), FreshSlots(w, queue) \subseteq Slot,
         DOMAIN DriveValues(DriveWindow(w, b, queue)) \subseteq Slot
  PROVE  Sound(DriveWindow(w, b, queue))
<1>1. GoodWindow(w, BallotOption) /\ Logged(w) /\ Bounded(w)
  BY DEF Sound
<1>. QED  BY <1>1, AllBallots, DriveWindowGood, DriveLogged, DriveRaises DEF Sound

LEMMA AcceptSound ==
  ASSUME NEW w, Sound(w), NEW b \in BallotOption, b # NoBallot, NEW batch, GoodBatch(batch)
  PROVE  Sound(AcceptWindow(w, b, batch))
<1>1. GoodWindow(w, BallotOption) /\ Logged(w) /\ Bounded(w)
  BY DEF Sound
<1>. QED  BY <1>1, AllBallots, AcceptWindowGood, AcceptLogged, AcceptRaises DEF Sound

LEMMA AcceptedSound ==
  ASSUME NEW w, Sound(w), NEW b, NEW peer \in Node, NEW slots \in SUBSET Slot
  PROVE  Sound(AcceptedWindow(w, peer, b, slots))
<1>1. GoodWindow(w, BallotOption) /\ Logged(w) /\ Bounded(w)
  BY DEF Sound
<1>. QED  BY <1>1, AllBallots, AcceptedWindowGood, AcceptedLogged, AcceptedRaises DEF Sound

LEMMA ResolutionSound ==
  ASSUME NEW w, Sound(w), NEW b \in BallotOption, b # NoBallot, NEW batch, GoodBatch(batch)
  PROVE  Sound(ResolutionWindow(w, b, batch))
<1>1. GoodWindow(w, BallotOption) /\ Logged(w) /\ Bounded(w)
  BY DEF Sound
<1>. QED  BY <1>1, AllBallots, ResolutionWindowGood, ResolutionLogged, ResolutionRaises DEF Sound

(***************************************************************************)
(* The vectors are always in order, and every call of the vectors is the   *)
(* call of the window.                                                     *)
(***************************************************************************)
VecInv == Ready(vec, AsWindow(vec))

LEMMA PrepareCalls ==
  ASSUME VecInv, NEW b \in CallBallots, PrepareStep(b)
  PROVE  VecInv' /\ Calls!PrepareCall(b)
<1>1. PICK v, w : v = vec /\ w = AsWindow(v)
  OBVIOUS
<1>2. Ready(v, w) /\ Sound(w)
  BY <1>1 DEF VecInv, Ready
<1>3. b \in Ballot /\ b \in BallotOption
  BY CallBallot
<1>4. PICK c : c = [type |-> "Prepare", bal |-> b]
  OBVIOUS
<1>5. PICK x, u : x = Loop(c, v, OpenIndices(v)) /\ u = PrepareWindow(w, b)
  OBVIOUS
<1>6. /\ GoodVector(x.vec) /\ AsWindow(x.vec) = u
      /\ x.preempted = PreparePreempted(w, b)
      /\ (IF x.stop = "No" THEN x.out ELSE <<>>)
           = IF PrepareStops(w, b) = {} THEN Report(u) ELSE <<>>
  BY <1>2, <1>3, <1>4, <1>5, PrepareLoop
<1>7. /\ call' = c /\ vec' = x.vec
      /\ reply' = [preempted |-> x.preempted,
                   report |-> IF x.stop = "No" THEN x.out ELSE <<>>]
  BY <1>1, <1>4, <1>5 DEF PrepareStep
<1>8. Sound(u)
  BY <1>2, <1>3, <1>5, PrepareSound
<1>9. AsWindow(vec') = u
  BY <1>6, <1>7
<1>10. VecInv'
  BY <1>6, <1>7, <1>8, <1>9 DEF VecInv, Ready
<1>11. /\ u = Calls!PrepareWindow(w, b)
       /\ reply' = [preempted |-> Calls!PreparePreempted(w, b),
                    report |-> IF Calls!PrepareStops(w, b) = {} THEN Calls!Report(u) ELSE <<>>]
  BY <1>5, <1>6, <1>7, SamePrepareWindow, SamePreparePreempted, SamePrepareStops, SameReported
<1>12. Calls!PrepareCall(b)
  BY <1>1, <1>4, <1>7, <1>9, <1>11 DEF Calls!PrepareCall
<1>. QED  BY <1>10, <1>12

LEMMA PromiseCalls ==
  ASSUME VecInv, NEW report \in Calls!Reported, PromiseStep(report)
  PROVE  VecInv' /\ Calls!PromiseCall(report)
<1>1. PICK v, w : v = vec /\ w = AsWindow(v)
  OBVIOUS
<1>2. Ready(v, w) /\ Sound(w) /\ GoodReport(report, BallotOption)
  BY <1>1, CallReport DEF VecInv, Ready
<1>3. PICK c : c = [type |-> "Promise", report |-> report]
  OBVIOUS
<1>4. PICK x, u : x = Loop(c, v, DOMAIN report) /\ u = NoticeReport(w, report)
  OBVIOUS
<1>5. GoodVector(x.vec) /\ AsWindow(x.vec) = u
  BY <1>2, <1>3, <1>4, PromiseLoop
<1>6. call' = c /\ vec' = x.vec /\ reply' = <<>>
  BY <1>1, <1>3, <1>4 DEF PromiseStep
<1>7. Sound(u)
  BY <1>2, <1>4, NoticeSound
<1>8. AsWindow(vec') = u
  BY <1>5, <1>6
<1>9. VecInv'
  BY <1>5, <1>6, <1>7, <1>8 DEF VecInv, Ready
<1>10. u = Calls!NoticeReport(w, report)
  BY <1>4, SameNoticeReport
<1>11. Calls!PromiseCall(report)
  BY <1>1, <1>3, <1>6, <1>8, <1>10 DEF Calls!PromiseCall
<1>. QED  BY <1>9, <1>11

LEMMA DriveCalls ==
  ASSUME VecInv, NEW b \in CallBallots, NEW queue \in Seq(Value), DriveStep(b, queue)
  PROVE  VecInv' /\ Calls!DriveCall(b, queue)
<1>1. PICK v, w : v = vec /\ w = AsWindow(v)
  OBVIOUS
<1>2. Ready(v, w) /\ Sound(w) /\ GoodVector(v)
  BY <1>1 DEF VecInv, Ready
<1>3. b \in Ballot /\ b \in BallotOption /\ b # NoBallot
  BY CallBallot
<1>4. PICK c : c = [type |-> "Drive", bal |-> b, queue |-> queue]
  OBVIOUS
<1>5. PICK placed : placed = PlaceLoop(v, b, queue)
  OBVIOUS
<1>6. PICK x, u : /\ x = Loop(c, placed, OpenIndices(placed))
                  /\ u = DriveWindow(w, b, queue)
  OBVIOUS
<1>7. /\ Fits(v, queue) /\ OpenIndices(v) \subseteq Slot
      /\ call' = c /\ vec' = x.vec /\ reply' = x.out
  BY <1>1, <1>4, <1>5, <1>6 DEF DriveStep
<1>8. FreshSlots(w, queue) \subseteq Slot /\ OpenRange(w) \subseteq Slot
  BY <1>1, <1>2, <1>7, FitsIs, OpenIndicesAs
<1>9. /\ GoodVector(x.vec) /\ AsWindow(x.vec) = u /\ x.out = DriveValues(u)
      /\ DOMAIN DriveValues(u) \subseteq Slot
  BY <1>2, <1>3, <1>4, <1>5, <1>6, <1>8, DriveAs
<1>10. Sound(u)
  BY <1>2, <1>3, <1>6, <1>8, <1>9, DriveSound
<1>11. AsWindow(vec') = u
  BY <1>7, <1>9
<1>12. VecInv'
  BY <1>7, <1>9, <1>10, <1>11 DEF VecInv, Ready
<1>13. /\ u = Calls!DriveWindow(w, b, queue) /\ reply' = Calls!DriveValues(u)
       /\ DOMAIN Calls!DriveValues(u) \subseteq Calls!Slot
       /\ Calls!Proposable(w, queue)
  BY <1>6, <1>7, <1>8, <1>9, SameDriveWindow, SameDriveValues, SameSlots, SameFreshSlots
  DEF Calls!Proposable
<1>14. Calls!DriveCall(b, queue)
  BY <1>1, <1>4, <1>7, <1>11, <1>13 DEF Calls!DriveCall
<1>. QED  BY <1>12, <1>14

LEMMA ProposeCalls ==
  ASSUME VecInv, NEW b \in CallBallots, NEW val \in ClientValue, ProposeStep(b, val)
  PROVE  VecInv' /\ Calls!ProposeCall(b, val)
<1>1. PICK v, w : v = vec /\ w = AsWindow(v)
  OBVIOUS
<1>2. Ready(v, w) /\ Sound(w) /\ GoodVector(v)
  BY <1>1 DEF VecInv, Ready
<1>3. b \in Ballot /\ b \in BallotOption /\ b # NoBallot
  BY CallBallot
<1>4. PICK queue : queue = <<val>>
  OBVIOUS
<1>5. queue \in Seq(Value) /\ val \in Value
  BY <1>4 DEF Value
<1>6. PICK p, u : p = PlaceLoop(v, b, queue) /\ u = ProposeWindow(w, b, queue)
  OBVIOUS
<1>7. /\ Fits(v, queue) /\ call' = [type |-> "Propose", bal |-> b, val |-> val]
      /\ vec' = p /\ reply' = <<p.min + Len(p.open) - 1>>
  BY <1>1, <1>4, <1>6 DEF ProposeStep
<1>8. FreshSlots(w, queue) \subseteq Slot
  BY <1>2, <1>5, <1>7, FitsIs
<1>9. GoodVector(p) /\ AsWindow(p) = u
  BY <1>2, <1>3, <1>5, <1>6, <1>8, PlaceLoopAs
<1>10. Sound(u)
  BY <1>2, <1>3, <1>5, <1>6, <1>8, ProposeSound
<1>11. AsWindow(vec') = u
  BY <1>7, <1>9
<1>12. VecInv'
  BY <1>7, <1>9, <1>10, <1>11 DEF VecInv, Ready
<1>13. reply' = <<NextSlot(w)>>
  <2>1. p.min + Len(p.open) - 1 = NextSlot(w)
    BY <1>2, <1>3, <1>4, <1>5, <1>6, <1>8, ProposedSlot
  <2>. QED  BY <1>7, <2>1
<1>14. /\ u = Calls!ProposeWindow(w, b, queue) /\ reply' = <<Calls!NextSlot(w)>>
       /\ Calls!Proposable(w, queue)
  BY <1>6, <1>8, <1>13, SameProposeWindow, SameNextSlot, SameSlots, SameFreshSlots
  DEF Calls!Proposable
<1>15. Calls!ProposeCall(b, val)
  BY <1>1, <1>4, <1>7, <1>11, <1>14 DEF Calls!ProposeCall
<1>. QED  BY <1>12, <1>15

LEMMA AcceptCalls ==
  ASSUME VecInv, NEW b \in CallBallots, NEW batch \in Calls!Batches, AcceptStep(b, batch)
  PROVE  VecInv' /\ Calls!AcceptCall(b, batch)
<1>1. PICK v, w : v = vec /\ w = AsWindow(v)
  OBVIOUS
<1>2. Ready(v, w) /\ Sound(w) /\ GoodBatch(batch)
  BY <1>1, CallBatch DEF VecInv, Ready
<1>3. b \in Ballot /\ b \in BallotOption /\ b # NoBallot
  BY CallBallot
<1>4. PICK c : c = [type |-> "Accept", bal |-> b, batch |-> batch]
  OBVIOUS
<1>5. PICK x, u : x = Loop(c, v, DOMAIN batch) /\ u = AcceptWindow(w, b, batch)
  OBVIOUS
<1>6. /\ GoodVector(x.vec) /\ AsWindow(x.vec) = u
      /\ x.stop = "Resolved" <=> AcceptSilent(w, b, batch)
      /\ x.preempted = AcceptPreempted(w, b, batch)
      /\ (IF x.stop = "No" THEN DOMAIN x.out ELSE {})
           = IF AcceptStops(w, b, batch) = {} THEN DOMAIN batch ELSE {}
  BY <1>2, <1>3, <1>4, <1>5, AcceptLoop
<1>7. /\ call' = c /\ vec' = x.vec
      /\ reply' = [silent |-> x.stop = "Resolved", preempted |-> x.preempted,
                   slots |-> IF x.stop = "No" THEN DOMAIN x.out ELSE {}]
  BY <1>1, <1>4, <1>5 DEF AcceptStep
<1>8. Sound(u)
  BY <1>2, <1>3, <1>5, AcceptSound
<1>9. AsWindow(vec') = u
  BY <1>6, <1>7
<1>10. VecInv'
  BY <1>6, <1>7, <1>8, <1>9 DEF VecInv, Ready
<1>11. (x.stop = "Resolved") = Calls!AcceptSilent(w, b, batch)
  <2>1. (x.stop = "Resolved") = AcceptSilent(w, b, batch)
    BY <1>6 DEF AcceptSilent
  <2>. QED  BY <2>1, SameAcceptSilent
<1>12. /\ u = Calls!AcceptWindow(w, b, batch)
       /\ x.preempted = Calls!AcceptPreempted(w, b, batch)
       /\ (IF x.stop = "No" THEN DOMAIN x.out ELSE {})
            = IF Calls!AcceptStops(w, b, batch) = {} THEN DOMAIN batch ELSE {}
  BY <1>5, <1>6, SameAcceptWindow, SameAcceptPreempted, SameAcceptStops
<1>13. reply' = [silent |-> Calls!AcceptSilent(w, b, batch),
                 preempted |-> Calls!AcceptPreempted(w, b, batch),
                 slots |-> IF Calls!AcceptStops(w, b, batch) = {} THEN DOMAIN batch ELSE {}]
  BY <1>7, <1>11, <1>12, Zenon
<1>14. Calls!AcceptCall(b, batch)
  BY <1>1, <1>4, <1>7, <1>9, <1>12, <1>13, Zenon DEF Calls!AcceptCall
<1>. QED  BY <1>10, <1>14

LEMMA AcceptedCalls ==
  ASSUME VecInv, NEW b \in CallBallots, NEW peer \in Peers(Owner(b)),
         NEW slots \in SUBSET Slot, AcceptedStep(peer, b, slots)
  PROVE  VecInv' /\ Calls!AcceptedCall(peer, b, slots)
<1>1. PICK v, w : v = vec /\ w = AsWindow(v)
  OBVIOUS
<1>2. Ready(v, w) /\ Sound(w) /\ peer \in Node
  BY <1>1 DEF VecInv, Ready, Peers
<1>3. b \in Ballot
  BY CallBallot
<1>4. PICK c : c = [type |-> "Accepted", peer |-> peer, bal |-> b, slots |-> slots]
  OBVIOUS
<1>5. PICK x, u : x = Loop(c, v, slots) /\ u = AcceptedWindow(w, peer, b, slots)
  OBVIOUS
<1>6. /\ GoodVector(x.vec) /\ AsWindow(x.vec) = u
      /\ (IF x.stop = "No" THEN x.out ELSE <<>>)
           = IF AcceptedStops(w, slots) = {} THEN NewlyResolved(w, peer, b, slots) ELSE <<>>
  BY <1>2, <1>3, <1>4, <1>5, AcceptedLoop
<1>7. call' = c /\ vec' = x.vec /\ reply' = IF x.stop = "No" THEN x.out ELSE <<>>
  BY <1>1, <1>4, <1>5 DEF AcceptedStep
<1>8. Sound(u)
  BY <1>2, <1>5, AcceptedSound
<1>9. AsWindow(vec') = u
  BY <1>6, <1>7
<1>10. VecInv'
  BY <1>6, <1>7, <1>8, <1>9 DEF VecInv, Ready
<1>11. /\ u = Calls!AcceptedWindow(w, peer, b, slots)
       /\ reply' = IF Calls!AcceptedStops(w, slots) = {}
                     THEN Calls!NewlyResolved(w, peer, b, slots) ELSE <<>>
  BY <1>5, <1>6, <1>7, SameAcceptedWindow, SameAcceptedStops, SameNewlyResolved
<1>12. Calls!AcceptedCall(peer, b, slots)
  BY <1>1, <1>4, <1>7, <1>9, <1>11 DEF Calls!AcceptedCall
<1>. QED  BY <1>10, <1>12

LEMMA ResolutionCalls ==
  ASSUME VecInv, NEW b \in CallBallots, NEW batch \in Calls!Batches, ResolutionStep(b, batch)
  PROVE  VecInv' /\ Calls!ResolutionCall(b, batch)
<1>1. PICK v, w : v = vec /\ w = AsWindow(v)
  OBVIOUS
<1>2. Ready(v, w) /\ Sound(w) /\ GoodBatch(batch)
  BY <1>1, CallBatch DEF VecInv, Ready
<1>3. b \in Ballot /\ b \in BallotOption /\ b # NoBallot
  BY CallBallot
<1>4. PICK c : c = [type |-> "Resolution", bal |-> b, batch |-> batch]
  OBVIOUS
<1>5. PICK x, u : x = Loop(c, v, DOMAIN batch) /\ u = ResolutionWindow(w, b, batch)
  OBVIOUS
<1>6. GoodVector(x.vec) /\ AsWindow(x.vec) = u
  BY <1>2, <1>3, <1>4, <1>5, ResolutionLoop
<1>7. /\ call' = c /\ vec' = x.vec
      /\ reply' = IF Len(x.vec.open) > 1 THEN UnresolvedSlots(x.vec) ELSE {}
  BY <1>1, <1>4, <1>5 DEF ResolutionStep
<1>8. Sound(u)
  BY <1>2, <1>3, <1>5, ResolutionSound
<1>9. AsWindow(vec') = u
  BY <1>6, <1>7
<1>10. VecInv'
  BY <1>6, <1>7, <1>8, <1>9 DEF VecInv, Ready
<1>11. reply' = IF u.end > u.min + 1 THEN OpenSlots(u) ELSE {}
  <2>1. GoodWindow(u, BallotOption)
    BY <1>8 DEF Sound
  <2>2. /\ UnresolvedSlots(x.vec) = OpenSlots(u)
        /\ Len(x.vec.open) > 1 <=> u.end > u.min + 1
    BY <1>6, <2>1, UnresolvedIs
  <2>. QED  BY <1>7, <2>2
<1>12. u = Calls!ResolutionWindow(w, b, batch) /\ Calls!MissingSlots(u) = OpenSlots(u)
  BY <1>5, SameResolutionWindow, SameMissingSlots DEF MissingSlots
<1>13. Calls!ResolutionCall(b, batch)
  BY <1>1, <1>4, <1>7, <1>9, <1>11, <1>12 DEF Calls!ResolutionCall
<1>. QED  BY <1>10, <1>13

LEMMA InitCalls ==
  ASSUME InitVectors
  PROVE  VecInv /\ Calls!InitCalls
<1>1. PICK v, w : v = NewVector /\ w = AsWindow(v)
  OBVIOUS
<1>2. PICK a : a = Unopened
  OBVIOUS
<1>3. /\ a \in Acceptor /\ ~HasValue(a) /\ ~IsResolved(a) /\ a.val = Noop
      /\ a.promised = NoBallot /\ a.bal = NoBallot
  <2>1. NoBallot \in BallotOption
    BY DEF BallotOption
  <2>. QED  BY <1>2, <2>1, AwaitValueIs DEF Unopened, AwaitValue
<1>4. v.open = <<a>> /\ v.min = 0 /\ v.max = NoBallot /\ v.decided = <<>>
  BY <1>1, <1>2 DEF NewVector, Unopened
<1>5. GoodVector(v)
  <2>1. \E o, d, i, x : v = [open |-> o, min |-> i, max |-> x, decided |-> d]
    BY <1>1 DEF NewVector
  <2>2. v.open \in Seq(Acceptor) /\ Len(v.open) = 1 /\ v.open[1] = a
    BY <1>3, <1>4
  <2>3. \A i \in 1..Len(v.open) : Settled(v.open[i])
    BY <1>3, <2>2 DEF Settled
  <2>4. v.decided \in Seq(Decision) /\ v.min = Len(v.decided)
    BY <1>4
  <2>5. v.max \in BallotOption
    BY <1>4 DEF BallotOption
  <2>6. v.min + Len(v.open) <= MaxSlot + 2
    BY <1>4, <2>2, MaxSlotAssumption
  <2>. QED  BY <2>1, <2>2, <2>3, <2>4, <2>5, <2>6 DEF GoodVector
<1>6. w = NewWindow
  <2>1. \A s \in WindowSlot : (IF s < v.min THEN Resolved(v.decided[s + 1].bal, v.decided[s + 1].val)
                               ELSE IF s < v.min + Len(v.open) THEN AcceptorAt(v, s)
                               ELSE Unopened) = a
    <3>1. SUFFICES ASSUME NEW s \in WindowSlot
                   PROVE  ~(s < v.min) /\ (s < v.min + Len(v.open) => AcceptorAt(v, s) = a)
      BY <1>2
    <3>2. s \in Nat
      BY SlotBound
    <3>3. Len(v.open) = 1 /\ v.open[1] = a
      BY <1>4
    <3>4. s < v.min + Len(v.open) => s - v.min + 1 = 1
      BY <1>4, <3>2, <3>3
    <3>. QED  BY <1>4, <3>2, <3>3, <3>4 DEF AcceptorAt
  <2>2. v.min + Len(v.open) = 1
    BY <1>4
  <2>. QED  BY <1>1, <1>2, <1>4, <2>1, <2>2 DEF AsWindow, NewWindow
<1>7. /\ IsWindow(w) /\ w.min = 0 /\ w.end = 1 /\ w.max = NoBallot
      /\ \A s \in WindowSlot : w.acc[s] = a
  BY <1>2, <1>6 DEF NewWindow, IsWindow
<1>8. GoodWindow(w, BallotOption)
  <2>1. w \in Window
    <3>1. 0 \in WindowSlot /\ 1 \in 1..(MaxSlot + 2)
      BY MaxSlotAssumption DEF WindowSlot
    <3>. QED  BY <1>2, <1>3, <1>6, <3>1 DEF NewWindow, Window, BallotOption
  <2>2. GoodAcceptor(a, BallotOption)
    BY <1>3 DEF GoodAcceptor, BallotOption
  <2>3. MaxSlot + 1 \in WindowSlot /\ w.min < w.end
    BY <1>7, MaxSlotAssumption DEF WindowSlot
  <2>4. w.max \in BallotOption
    BY <1>7 DEF BallotOption
  <2>. QED  BY <1>3, <1>7, <2>1, <2>2, <2>3, <2>4 DEF GoodWindow
<1>9. Logged(w)
  <2>1. w.min \in WindowSlot /\ \A s \in WindowSlot : s \in Nat
    BY <1>7, SlotBound, MaxSlotAssumption DEF WindowSlot
  <2>. QED  BY <1>2, <1>3, <1>7, <2>1 DEF Logged, Shape, ResolvedAt, EmptyAt
<1>10. Bounded(w)
  BY <1>3, <1>7 DEF Bounded, AtMost
<1>11. VecInv
  BY <1>1, <1>5, <1>8, <1>9, <1>10 DEF InitVectors, VecInv, Ready, Sound
<1>12. Calls!InitCalls
  BY <1>1, <1>6, SameNewWindow DEF InitVectors, Calls!InitCalls
<1>. QED  BY <1>11, <1>12

LEMMA StepCalls ==
  ASSUME VecInv, [NextVectors]_vectorVars
  PROVE  VecInv' /\ [Calls!NextCall]_(Calls!callVars)
<1>1. CASE UNCHANGED vectorVars
  <2>1. vec' = vec /\ call' = call /\ reply' = reply
    BY <1>1 DEF vectorVars
  <2>2. AsWindow(vec') = AsWindow(vec)
    BY <2>1
  <2>3. VecInv'
    BY <2>1, <2>2 DEF VecInv
  <2>4. UNCHANGED Calls!callVars
    BY <2>1, <2>2 DEF Calls!callVars
  <2>. QED  BY <2>3, <2>4
<1>2. ASSUME NEW b \in CallBallots, PrepareStep(b)
      PROVE  VecInv' /\ Calls!NextCall
  BY <1>2, PrepareCalls DEF Calls!NextCall
<1>3. ASSUME NEW b \in CallBallots, NEW batch \in Calls!Batches, AcceptStep(b, batch)
      PROVE  VecInv' /\ Calls!NextCall
  BY <1>3, AcceptCalls DEF Calls!NextCall
<1>4. ASSUME NEW b \in CallBallots, NEW batch \in Calls!Batches, ResolutionStep(b, batch)
      PROVE  VecInv' /\ Calls!NextCall
  BY <1>4, ResolutionCalls DEF Calls!NextCall
<1>5. ASSUME NEW b \in CallBallots, NEW peer \in Peers(Owner(b)), NEW slots \in SUBSET Slot,
             AcceptedStep(peer, b, slots)
      PROVE  VecInv' /\ Calls!NextCall
  <2>1. VecInv' /\ Calls!AcceptedCall(peer, b, slots)
    BY <1>5, AcceptedCalls
  <2>2. peer \in Calls!Peers(Calls!Owner(b)) /\ slots \in SUBSET Calls!Slot
    BY SameSlots DEF Peers, Owner, Calls!Peers, Calls!Owner
  <2>. QED  BY <2>1, <2>2 DEF Calls!NextCall
<1>6. ASSUME NEW b \in CallBallots, NEW v \in ClientValue, ProposeStep(b, v)
      PROVE  VecInv' /\ Calls!NextCall
  BY <1>6, ProposeCalls DEF Calls!NextCall
<1>7. ASSUME NEW b \in CallBallots, NEW v \in ClientValue, NEW k \in 0..2,
             DriveStep(b, [i \in 1..k |-> v])
      PROVE  VecInv' /\ Calls!NextCall
  <2>1. PICK queue : queue = [i \in 1..k |-> v]
    OBVIOUS
  <2>2. queue \in Seq(Value)
    BY <2>1, CallQueue
  <2>3. VecInv' /\ Calls!DriveCall(b, queue)
    BY <1>7, <2>1, <2>2, DriveCalls
  <2>. QED  BY <2>1, <2>3 DEF Calls!NextCall
<1>8. ASSUME NEW report \in Calls!Reported, PromiseStep(report)
      PROVE  VecInv' /\ Calls!NextCall
  BY <1>8, PromiseCalls DEF Calls!NextCall
<1>. QED  BY <1>1, <1>2, <1>3, <1>4, <1>5, <1>6, <1>7, <1>8 DEF NextVectors

(***************************************************************************)
(* The vectors and loops of src/window.rs and src/node.rs implement the    *)
(* closed forms the modules of the group use, call by call: the same       *)
(* window after the call, and the same slots, values and ballots to send.  *)
(***************************************************************************)
THEOREM VectorsHoldTheWindow == VectorsSpec => CallsHold
<1>1. InitVectors => VecInv /\ Calls!InitCalls
  BY InitCalls
<1>2. VecInv /\ [NextVectors]_vectorVars => VecInv' /\ [Calls!NextCall]_(Calls!callVars)
  BY StepCalls
<1>. QED  BY <1>1, <1>2, PTL DEF VectorsSpec, CallsHold, Calls!CallsSpec

(***************************************************************************)
(* DecisionSet::range                                                      *)
(***************************************************************************)
LEMMA LeastOf ==
  ASSUME NEW a \in Int, NEW b \in Int
  PROVE  Min({a, b}) = IF a <= b THEN a ELSE b
<1>1. PICK m \in Int : m = IF a <= b THEN a ELSE b
  OBVIOUS
<1>2. m \in {a, b} /\ \A y \in {a, b} : m <= y
  BY <1>1
<1>3. \A x \in {a, b} : (\A y \in {a, b} : x <= y) => x = m
  BY <1>1
<1>. QED  BY <1>1, <1>2, <1>3 DEF Min

LEMMA EndOf ==
  ASSUME NEW s \in Nat, NEW len \in Nat
  PROVE  /\ EndIndex(Excluded(s), len) = IF s <= len THEN s ELSE len
         /\ EndIndex(Unbounded, len) = len
  BY LeastOf DEF EndIndex, Excluded, Unbounded

LEMMA StartOf ==
  ASSUME NEW s \in Nat
  PROVE  /\ StartIndex(Included(s)) = s /\ StartIndex(Excluded(s)) = s + 1
         /\ StartIndex(Unbounded) = 0
  BY DEF StartIndex, Included, Excluded, Unbounded

LEMMA RangeIsExact ==
  ASSUME NEW from \in FromBounds, NEW to \in ToBounds, NEW len \in Nat
  PROVE  Yielded(from, to, len) = {s \in 0..(len - 1) : Within(s, from, to)}
<1>1. \E f \in Nat : from \in {Included(f), Excluded(f), Unbounded}
  BY MaxSlotAssumption DEF FromBounds
<1>2. \E t \in Nat : to \in {Excluded(t), Unbounded}
  BY MaxSlotAssumption DEF ToBounds
<1>3. PICK i \in Nat : /\ StartIndex(from) = i
                       /\ \A s \in Nat : i <= s <=> /\ from.kind = "Excluded" => from.slot < s
                                                    /\ from.kind = "Included" => from.slot <= s
  <2>1. PICK f \in Nat : from \in {Included(f), Excluded(f), Unbounded}
    BY <1>1
  <2>2. CASE from = Included(f)
    <3>1. StartIndex(from) = f /\ from.kind = "Included" /\ from.slot = f
      BY <2>2, StartOf DEF Included
    <3>. QED  BY <3>1
  <2>3. CASE from = Excluded(f)
    <3>1. StartIndex(from) = f + 1 /\ from.kind = "Excluded" /\ from.slot = f
      BY <2>3, StartOf DEF Excluded
    <3>. QED  BY <3>1
  <2>4. CASE from = Unbounded
    <3>1. StartIndex(from) = 0 /\ from.kind = "Unbounded"
      BY <2>4, StartOf DEF Unbounded
    <3>. QED  BY <3>1
  <2>. QED  BY <2>1, <2>2, <2>3, <2>4
<1>4. PICK e \in Nat : /\ EndIndex(to, len) = e
                       /\ \A s \in Nat : s < e <=> s < len /\ (to.kind = "Excluded" => s < to.slot)
  <2>1. PICK t \in Nat : to \in {Excluded(t), Unbounded}
    BY <1>2
  <2>2. CASE to = Excluded(t)
    <3>1. to.kind = "Excluded" /\ to.slot = t
      BY <2>2 DEF Excluded
    <3>2. EndIndex(to, len) = IF t <= len THEN t ELSE len
      BY <2>2, EndOf
    <3>3. PICK e \in Nat : e = IF t <= len THEN t ELSE len
      OBVIOUS
    <3>4. \A s \in Nat : s < e <=> s < len /\ s < t
      BY <3>3
    <3>. QED  BY <3>1, <3>2, <3>3, <3>4
  <2>3. CASE to = Unbounded
    <3>1. to.kind = "Unbounded" /\ EndIndex(to, len) = len
      BY <2>3, EndOf DEF Unbounded
    <3>. QED  BY <3>1
  <2>. QED  BY <2>1, <2>2, <2>3
<1>5. Yielded(from, to, len) = i..(e - 1)
  BY <1>3, <1>4 DEF Yielded
<1>6. \A s : s \in i..(e - 1) <=> s \in Nat /\ i <= s /\ s < e
  BY <1>3, <1>4
<1>7. \A s : s \in 0..(len - 1) <=> s \in Nat /\ s < len
  OBVIOUS
<1>8. \A s \in Nat : i <= s /\ s < e <=> s < len /\ Within(s, from, to)
  BY <1>3, <1>4 DEF Within
<1>. QED  BY <1>5, <1>6, <1>7, <1>8

(***************************************************************************)
(* DecisionSet::range of the vectors yields exactly the decided slots that *)
(* lie in a range without an inclusive end, also where its bounds lie      *)
(* behind the last decision.                                               *)
(***************************************************************************)
THEOREM DecisionRangesAreExact == VectorsSpec => []OpenRangeIsExact
<1>1. InitVectors => VecInv
  BY InitCalls
<1>2. VecInv /\ [NextVectors]_vectorVars => VecInv'
  BY StepCalls
<1>3. VecInv => OpenRangeIsExact
  <2>1. ASSUME VecInv PROVE OpenRangeIsExact
    <3>1. Len(vec.decided) \in Nat
      BY <2>1, VectorNumbers DEF VecInv, Ready
    <3>. QED  BY <3>1, RangeIsExact DEF OpenRangeIsExact
  <2>. QED  BY <2>1
<1>. QED  BY <1>1, <1>2, <1>3, PTL DEF VectorsSpec
=============================================================================
