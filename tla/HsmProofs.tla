----------------------------- MODULE HsmProofs ------------------------------
(***************************************************************************)
(* Proofs about both state machine engines, for every set of states and    *)
(* every forest on it no deeper than MAX_NEST_DEPTH.  The first half is    *)
(* about forests: what Ancestry computes, and how it relates to the set of *)
(* superstates that the properties speak of.  The second half is about the *)
(* engines.                                                                *)
(***************************************************************************)
EXTENDS HsmEngines, WellFoundedInduction, SequenceTheorems, TLAPS

-----------------------------------------------------------------------------
(* Forests *)

StatesTop == States \cup {Top}

(* d numbers the states of h from the outermost ones inward. *)
IsDepth(h, d) ==
    /\ d \in [States -> 1..MAX_NEST_DEPTH]
    /\ \A x \in States : d[x] = IF h[x] = Top THEN 1 ELSE d[h[x]] + 1

(* x and its superstates in h; nothing is above the outermost states. *)
Closed(h, C) == C \subseteq States /\ \A c \in C : h[c] \in C \cup {Top}
Up(h, x) ==
    IF x = Top THEN {}
    ELSE {a \in States : \A C \in SUBSET States :
            (x \in C /\ \A c \in C : h[c] \in C \cup {Top}) => a \in C}

LEMMA Forest ==
    ASSUME NEW h \in Hierarchies
    PROVE  /\ Top \notin States
           /\ h \in [States -> StatesTop]
           /\ \E d : IsDepth(h, d)
  BY HierarchyAssumption DEF StatesTop, IsDepth

LEMMA DepthBound ==
    ASSUME NEW h, NEW d, IsDepth(h, d), NEW x \in States
    PROVE  d[x] \in Nat /\ d[x] <= MAX_NEST_DEPTH
  <1>1. d[x] \in 1..MAX_NEST_DEPTH /\ MAX_NEST_DEPTH \in Nat
    BY HierarchyAssumption DEF IsDepth
  <1> QED BY <1>1

Lower == {p \in Nat \X Nat : p[1] < p[2]}

LEMMA LowerWellFounded == IsWellFoundedOn(Lower, Nat)
  <1>1. Lower = OpToRel(<, Nat)
    BY DEF Lower, OpToRel
  <1> QED BY <1>1, NatLessThanWellFounded

(* Induction along a forest, for a set of states. *)
LEMMA ForestInduction ==
    ASSUME NEW h \in Hierarchies, NEW S \in SUBSET States,
           \A x \in States : (h[x] = Top \/ h[x] \in S) => x \in S
    PROVE  S = States
  <1>1. PICK d : IsDepth(h, d)
    BY Forest
  <1>2. \A x \in States : d[x] \in Nat
    BY <1>1, DepthBound
  <1> DEFINE D == {d[x] : x \in States \ S}
  <1>3. SUFFICES ASSUME D # {} PROVE FALSE
    BY <1>3
  <1>4. D \subseteq Nat
    BY <1>2
  <1>5. PICK n \in D : \A m \in D : <<m, n>> \notin Lower
    <2> HIDE DEF D
    <2> QED BY <1>3, <1>4, LowerWellFounded, WFMin
  <1>6. PICK x \in States \ S : n = d[x]
    BY <1>5
  <1>7. h[x] # Top /\ h[x] \notin S /\ h[x] \in States
    BY <1>6, Forest DEF StatesTop
  <1>8. d[h[x]] \in D /\ d[x] = d[h[x]] + 1
    BY <1>1, <1>6, <1>7 DEF IsDepth
  <1>9. <<d[h[x]], d[x]>> \in Lower
    <2>1. d[h[x]] \in Nat /\ d[x] \in Nat
      BY <1>2, <1>6, <1>7
    <2>2. d[h[x]] < d[x]
      BY <2>1, <1>8
    <2> QED BY <2>1, <2>2 DEF Lower
  <1> QED BY <1>5, <1>6, <1>8, <1>9

LEMMA UpClosed ==
    ASSUME NEW h \in Hierarchies, NEW x \in StatesTop
    PROVE  /\ Closed(h, Up(h, x))
           /\ x # Top => x \in Up(h, x)
  BY Forest DEF Up, Closed, StatesTop

LEMMA UpLeast ==
    ASSUME NEW h \in Hierarchies, NEW C, Closed(h, C), NEW x \in C \cup {Top}
    PROVE  Up(h, x) \subseteq C
  BY Forest DEF Up, Closed

LEMMA UpTop ==
    ASSUME NEW h
    PROVE  Up(h, Top) = {}
  BY DEF Up

LEMMA UpTrans ==
    ASSUME NEW h \in Hierarchies, NEW x \in StatesTop, NEW y \in Up(h, x)
    PROVE  y \in States /\ Up(h, y) \subseteq Up(h, x)
  <1>1. Closed(h, Up(h, x)) /\ y \in States
    BY UpClosed DEF Closed
  <1> QED BY <1>1, UpLeast

LEMMA UpStep ==
    ASSUME NEW h \in Hierarchies, NEW x \in States
    PROVE  /\ Up(h, x) = {x} \cup Up(h, h[x])
           /\ h[x] \in StatesTop
  <1>1. x \in StatesTop /\ x # Top /\ h[x] \in StatesTop
    BY Forest DEF StatesTop
  <1>2. Closed(h, Up(h, x)) /\ x \in Up(h, x)
    BY <1>1, UpClosed
  <1>3. Closed(h, Up(h, h[x])) /\ (h[x] # Top => h[x] \in Up(h, h[x]))
    BY <1>1, UpClosed
  <1>4. Up(h, h[x]) \subseteq Up(h, x)
    <2>1. h[x] \in Up(h, x) \cup {Top}
      BY <1>2 DEF Closed
    <2> QED BY <1>2, <2>1, UpLeast
  <1>5. Closed(h, {x} \cup Up(h, h[x]))
    BY <1>3, <1>1 DEF Closed, StatesTop
  <1>6. Up(h, x) \subseteq {x} \cup Up(h, h[x])
    BY <1>5, UpLeast
  <1> QED BY <1>1, <1>2, <1>4, <1>6

(* Superstates are less deep. *)
LEMMA UpDepth ==
    ASSUME NEW h \in Hierarchies, NEW d, IsDepth(h, d), NEW x \in States, NEW y \in Up(h, x)
    PROVE  /\ d[x] \in Nat /\ d[y] \in Nat
           /\ y # x => d[y] < d[x]
  <1> DEFINE C == {z \in States : d[z] < d[x]} \cup {x}
  <1>1. \A z \in States : d[z] \in Nat
    BY DepthBound
  <1>2. Closed(h, C)
    <2>1. ASSUME NEW c \in C, h[c] # Top PROVE h[c] \in C
      <3>1. c \in States /\ h[c] \in States
        BY <2>1, Forest DEF StatesTop
      <3>2. d[c] = d[h[c]] + 1
        BY <2>1, <3>1 DEF IsDepth
      <3>3. d[c] = d[x] \/ d[c] < d[x]
        OBVIOUS
      <3>4. d[h[c]] < d[x]
        BY <3>1, <3>2, <3>3, <1>1
      <3> QED BY <3>1, <3>4
    <2> QED BY <2>1 DEF Closed
  <1>3. y \in C
    <2> HIDE DEF C
    <2>1. x \in C
      BY DEF C
    <2> QED BY <1>2, <2>1, UpLeast
  <1>4. y \in States
    BY <1>3
  <1> QED BY <1>1, <1>3, <1>4

(* A state is not among the superstates of its superstate. *)
LEMMA UpProper ==
    ASSUME NEW h \in Hierarchies, NEW x \in States
    PROVE  x \notin Up(h, h[x])
  <1>1. PICK d : IsDepth(h, d)
    BY Forest
  <1>2. ASSUME x \in Up(h, h[x]) PROVE FALSE
    <2>1. h[x] # Top
      BY <1>2, UpTop
    <2>2. h[x] \in States
      BY <2>1, Forest DEF StatesTop
    <2>3. d[x] = d[h[x]] + 1
      BY <1>1, <2>1 DEF IsDepth
    <2>4. d[h[x]] \in Nat /\ d[x] \in Nat /\ (x # h[x] => d[x] < d[h[x]])
      BY <1>1, <1>2, <2>2, UpDepth
    <2> QED BY <2>3, <2>4
  <1> QED BY <1>2

-----------------------------------------------------------------------------
(* What Ancestry computes *)

(* p goes from x up to an outermost state, one superstate at a time. *)
IsPath(h, x, p) ==
    /\ p \in Seq(States)
    /\ x = Top => p = <<>>
    /\ x # Top => /\ Len(p) >= 1
                  /\ p[1] = x
                  /\ \A i \in 1..Len(p) - 1 : p[i + 1] = h[p[i]]
                  /\ h[p[Len(p)]] = Top

(* Adding one element in front. *)
LEMMA Cons ==
    ASSUME NEW S, NEW x \in S, NEW q \in Seq(S)
    PROVE  /\ <<x>> \o q \in Seq(S)
           /\ Len(<<x>> \o q) = Len(q) + 1
           /\ (<<x>> \o q)[1] = x
           /\ \A i \in 1..Len(q) : (<<x>> \o q)[i + 1] = q[i]
           /\ Len(q) \in Nat
  <1>1. <<x>> \in Seq(S) /\ Len(<<x>>) = 1 /\ <<x>>[1] = x
    OBVIOUS
  <1>2. /\ <<x>> \o q \in Seq(S)
        /\ Len(<<x>> \o q) = Len(<<x>>) + Len(q)
        /\ \A i \in 1..(Len(<<x>>) + Len(q)) :
             (<<x>> \o q)[i] = IF i <= Len(<<x>>) THEN <<x>>[i] ELSE q[i - Len(<<x>>)]
    BY <1>1, ConcatProperties
  <1>3. Len(q) \in Nat
    BY LenProperties
  <1>4. (<<x>> \o q)[1] = x
    BY <1>1, <1>2, <1>3
  <1>5. ASSUME NEW i \in 1..Len(q)
        PROVE  (<<x>> \o q)[i + 1] = q[i]
    <2>1. PICK j : j = i + 1
      OBVIOUS
    <2>2. i \in Nat /\ j \in 1..(1 + Len(q)) /\ ~(j <= 1) /\ j - 1 = i
      BY <2>1, <1>3
    <2>3. (<<x>> \o q)[j] = q[j - 1]
      BY <1>1, <1>2, <2>2
    <2> QED BY <2>1, <2>2, <2>3
  <1> QED BY <1>1, <1>2, <1>3, <1>4, <1>5

LEMMA PathExtend ==
    ASSUME NEW h \in Hierarchies, NEW x \in States, NEW q, IsPath(h, h[x], q)
    PROVE  IsPath(h, x, <<x>> \o q)
  <1>1. q \in Seq(States) /\ x # Top /\ h[x] \in StatesTop
    BY Forest DEF IsPath
  <1>2. PICK p : p = <<x>> \o q
    OBVIOUS
  <1>3. /\ p \in Seq(States) /\ Len(p) = Len(q) + 1 /\ p[1] = x
        /\ \A i \in 1..Len(q) : p[i + 1] = q[i]
        /\ Len(q) \in Nat
    BY <1>1, <1>2, Cons
  <1>4. CASE h[x] = Top
    <2>1. Len(q) = 0 /\ Len(p) = 1
      BY <1>3, <1>4 DEF IsPath
    <2>2. h[p[Len(p)]] = Top /\ 1..Len(p) - 1 = {}
      BY <1>3, <1>4, <2>1
    <2> QED BY <1>1, <1>2, <1>3, <2>1, <2>2 DEF IsPath
  <1>5. CASE h[x] # Top
    <2>1. /\ Len(q) >= 1 /\ q[1] = h[x]
          /\ \A i \in 1..Len(q) - 1 : q[i + 1] = h[q[i]]
          /\ h[q[Len(q)]] = Top
      BY <1>5 DEF IsPath
    <2>2. ASSUME NEW i \in 1..Len(p) - 1
          PROVE  p[i + 1] = h[p[i]]
      <3>1. i \in 1..Len(q) /\ i \in Nat /\ Len(q) \in Nat
        BY <1>3
      <3>2. p[i + 1] = q[i]
        BY <3>1, <1>3
      <3>3. CASE i = 1
        BY <3>2, <3>3, <1>3, <2>1
      <3>4. CASE i # 1
        <4>1. PICK j : j = i - 1
          OBVIOUS
        <4>2. j \in 1..Len(q) - 1 /\ j \in 1..Len(q) /\ j + 1 = i
          BY <4>1, <3>1, <3>4
        <4>3. q[i] = h[q[j]] /\ p[i] = q[j]
          BY <4>2, <2>1, <1>3
        <4> QED BY <4>3, <3>2
      <3> QED BY <3>3, <3>4
    <2>3. p[Len(p)] = q[Len(q)]
      <3>1. Len(q) \in 1..Len(q)
        BY <1>3, <2>1
      <3> QED BY <3>1, <1>3
    <2>4. Len(p) >= 1
      BY <1>3
    <2> QED BY <1>1, <1>2, <1>3, <2>1, <2>2, <2>3, <2>4 DEF IsPath
  <1> QED BY <1>4, <1>5

(* Every path of x but <<>> is made that way. *)
LEMMA PathSplit ==
    ASSUME NEW h \in Hierarchies, NEW x \in States, NEW p, IsPath(h, x, p)
    PROVE  \E q : IsPath(h, h[x], q) /\ p = <<x>> \o q
  <1>1. /\ p \in Seq(States) /\ x # Top /\ h[x] \in StatesTop
        /\ Len(p) >= 1 /\ p[1] = x
        /\ \A i \in 1..Len(p) - 1 : p[i + 1] = h[p[i]]
        /\ h[p[Len(p)]] = Top
    BY Forest DEF IsPath
  <1>2. p # <<>> /\ Len(p) \in Nat
    BY <1>1
  <1>3. PICK q : q = Tail(p)
    OBVIOUS
  <1>4. /\ q \in Seq(States) /\ Len(q) = Len(p) - 1
        /\ \A i \in 1..Len(q) : q[i] = p[i + 1]
        /\ Len(q) \in Nat
    BY <1>1, <1>2, <1>3, HeadTailProperties, LenProperties
  <1>5. PICK r : r = <<x>> \o q
    OBVIOUS
  <1>6. /\ r \in Seq(States) /\ Len(r) = Len(q) + 1 /\ r[1] = x
        /\ \A i \in 1..Len(q) : r[i + 1] = q[i]
    BY <1>4, <1>5, Cons
  <1>7. p = r
    <2>1. Len(p) = Len(r)
      BY <1>2, <1>4, <1>6
    <2>2. ASSUME NEW i \in 1..Len(p) PROVE p[i] = r[i]
      <3>1. CASE i = 1
        BY <3>1, <1>1, <1>6
      <3>2. CASE i # 1
        <4>1. PICK j : j = i - 1
          OBVIOUS
        <4>2. j \in 1..Len(q) /\ j + 1 = i
          BY <4>1, <3>2, <1>2, <1>4
        <4> QED BY <4>2, <1>4, <1>6
      <3> QED BY <3>1, <3>2
    <2> QED BY <2>1, <2>2, <1>1, <1>6, SeqEqual
  <1>8. IsPath(h, h[x], q)
    <2>1. CASE h[x] = Top
      <3>1. ASSUME Len(p) # 1 PROVE FALSE
        <4>0. Len(p) \in Nat /\ Len(p) >= 2
          <5>1. PICK n : n = Len(p)
            OBVIOUS
          <5>2. n \in Nat /\ n >= 1 /\ n # 1
            BY <5>1, <3>1, <1>1, <1>2
          <5>3. n >= 2
            BY <5>2
          <5> QED BY <5>1, <5>2, <5>3
        <4>1. 1 \in 1..Len(p) - 1 /\ 2 \in 1..Len(p)
          BY <4>0
        <4>2. p[2] = h[x]
          BY <4>1, <1>1
        <4>3. p[2] \in States
          BY <4>1, <1>1, ElementOfSeq
        <4> QED BY <4>2, <4>3, <2>1, Forest
      <3>2. q = <<>>
        BY <3>1, <1>4, EmptySeq
      <3> QED BY <3>2, <2>1 DEF IsPath
    <2>2. CASE h[x] # Top
      <3>1. Len(p) # 1
        BY <2>2, <1>1
      <3>2. Len(q) >= 1 /\ 1 \in 1..Len(q) /\ 1 \in 1..Len(p) - 1 /\ Len(q) \in 1..Len(q)
        BY <3>1, <1>1, <1>2, <1>4
      <3>3. q[1] = h[x]
        BY <3>2, <1>1, <1>4
      <3>4. ASSUME NEW i \in 1..Len(q) - 1 PROVE q[i + 1] = h[q[i]]
        <4>1. PICK j : j = i + 1
          OBVIOUS
        <4>2. i \in 1..Len(q) /\ j \in 1..Len(q) /\ j \in 1..Len(p) - 1
          BY <4>1, <1>4
        <4>3. q[i] = p[j] /\ q[j] = p[j + 1] /\ p[j + 1] = h[p[j]]
          BY <4>1, <4>2, <1>1, <1>4
        <4> QED BY <4>1, <4>3
      <3>5. h[q[Len(q)]] = Top
        <4>1. Len(q) + 1 = Len(p)
          BY <1>2, <1>4
        <4>2. q[Len(q)] = p[Len(p)]
          BY <4>1, <3>2, <1>4
        <4> QED BY <4>2, <1>1
      <3> QED BY <3>2, <3>3, <3>4, <3>5, <2>2, <1>4 DEF IsPath
    <2> QED BY <2>1, <2>2
  <1> QED BY <1>5, <1>7, <1>8

LEMMA PathExists ==
    ASSUME NEW h \in Hierarchies, NEW x \in StatesTop
    PROVE  \E p : IsPath(h, x, p)
  <1> DEFINE S == {y \in States : \E p : IsPath(h, y, p)}
  <1>1. IsPath(h, Top, <<>>)
    BY DEF IsPath
  <1>2. ASSUME NEW y \in States, h[y] = Top \/ h[y] \in S
        PROVE  y \in S
    <2>1. PICK q : IsPath(h, h[y], q)
      BY <1>1, <1>2
    <2> QED BY <2>1, PathExtend
  <1>3. S = States
    <2> HIDE DEF S
    <2>1. S \in SUBSET States
      BY DEF S
    <2> QED BY <1>2, <2>1, ForestInduction
  <1> QED BY <1>1, <1>3 DEF StatesTop

LEMMA PathUnique ==
    ASSUME NEW h \in Hierarchies, NEW x \in StatesTop,
           NEW p, NEW q, IsPath(h, x, p), IsPath(h, x, q)
    PROVE  p = q
  <1> DEFINE S == {y \in States : \A u, v : IsPath(h, y, u) /\ IsPath(h, y, v) => u = v}
  <1>1. \A u, v : IsPath(h, Top, u) /\ IsPath(h, Top, v) => u = v
    BY DEF IsPath
  <1>2. ASSUME NEW y \in States, h[y] = Top \/ h[y] \in S
        PROVE  y \in S
    <2>1. SUFFICES ASSUME NEW u, NEW v, IsPath(h, y, u), IsPath(h, y, v)
                   PROVE  u = v
      OBVIOUS
    <2>2. PICK a : IsPath(h, h[y], a) /\ u = <<y>> \o a
      BY <2>1, PathSplit
    <2>3. PICK b : IsPath(h, h[y], b) /\ v = <<y>> \o b
      BY <2>1, PathSplit
    <2>4. a = b
      BY <1>1, <1>2, <2>2, <2>3
    <2> QED BY <2>2, <2>3, <2>4
  <1>3. S = States
    <2> HIDE DEF S
    <2>1. S \in SUBSET States
      BY DEF S
    <2> QED BY <1>2, <2>1, ForestInduction
  <1> QED BY <1>1, <1>3 DEF StatesTop

(* The recursive definition of Ancestry has a solution, so Ancestry is one. *)
LEMMA AncestryDefined ==
    ASSUME super \in Hierarchies
    PROVE  /\ Ancestry[Top] = <<>>
           /\ \A x \in States : Ancestry[x] = <<x>> \o Ancestry[super[x]]
  <1> DEFINE Sol(f) == f = [x \in States \cup {Top} |->
                                IF x = Top THEN <<>> ELSE <<x>> \o f[super[x]]]
             F == [x \in States \cup {Top} |-> CHOOSE p : IsPath(super, x, p)]
  <1>1. \A x \in States \cup {Top} : IsPath(super, x, F[x])
    BY PathExists DEF StatesTop
  <1>2. ASSUME NEW x \in States \cup {Top}
        PROVE  F[x] = IF x = Top THEN <<>> ELSE <<x>> \o F[super[x]]
    <2>1. CASE x = Top
      BY <1>1, <2>1 DEF IsPath
    <2>2. CASE x # Top
      <3> HIDE DEF F
      <3>1. x \in States /\ super[x] \in States \cup {Top}
        BY <2>2, Forest DEF StatesTop
      <3>2. IsPath(super, super[x], F[super[x]])
        BY <1>1, <3>1
      <3>3. IsPath(super, x, <<x>> \o F[super[x]])
        BY <3>1, <3>2, PathExtend
      <3>4. IsPath(super, x, F[x])
        BY <1>1
      <3>5. F[x] = <<x>> \o F[super[x]]
        BY <3>3, <3>4, PathUnique DEF StatesTop
      <3> QED BY <2>2, <3>5
    <2> QED BY <2>1, <2>2
  <1>3. Sol(F)
    BY <1>2
  <1>4. Ancestry = CHOOSE f : Sol(f)
    BY DEF Ancestry
  <1>5. Sol(Ancestry)
    <2> HIDE DEF F, Sol
    <2> QED BY <1>3, <1>4
  <1>6. ASSUME NEW x \in States \cup {Top}
        PROVE  Ancestry[x] = IF x = Top THEN <<>> ELSE <<x>> \o Ancestry[super[x]]
    BY <1>5
  <1> QED BY <1>6, HierarchyAssumption

LEMMA AncestryIsPath ==
    ASSUME super \in Hierarchies, NEW x \in StatesTop
    PROVE  IsPath(super, x, Ancestry[x])
  <1> DEFINE S == {y \in States : IsPath(super, y, Ancestry[y])}
  <1>1. IsPath(super, Top, Ancestry[Top])
    <2>1. Ancestry[Top] = <<>>
      BY AncestryDefined
    <2>2. IsPath(super, Top, <<>>)
      BY DEF IsPath
    <2> QED BY <2>1, <2>2
  <1>2. ASSUME NEW y \in States, super[y] = Top \/ super[y] \in S
        PROVE  y \in S
    <2>1. IsPath(super, super[y], Ancestry[super[y]])
      BY <1>1, <1>2
    <2>2. Ancestry[y] = <<y>> \o Ancestry[super[y]]
      BY AncestryDefined
    <2> QED BY <2>1, <2>2, PathExtend
  <1>3. S = States
    <2> HIDE DEF S
    <2>1. S \in SUBSET States
      BY DEF S
    <2> QED BY <1>2, <2>1, ForestInduction
  <1> QED BY <1>1, <1>3 DEF StatesTop

LEMMA AncestryCons ==
    ASSUME super \in Hierarchies, NEW x \in States
    PROVE  /\ super[x] \in StatesTop
           /\ Ancestry[x] \in Seq(States) /\ Ancestry[super[x]] \in Seq(States)
           /\ Len(Ancestry[super[x]]) \in Nat
           /\ Len(Ancestry[x]) = Len(Ancestry[super[x]]) + 1
           /\ Ancestry[x][1] = x
           /\ \A i \in 1..Len(Ancestry[super[x]]) : Ancestry[x][i + 1] = Ancestry[super[x]][i]
           /\ \A i \in 1..Len(Ancestry[x]) : i # 1 =>
                /\ i - 1 \in 1..Len(Ancestry[super[x]])
                /\ Ancestry[x][i] = Ancestry[super[x]][i - 1]
  <1>1. super[x] \in StatesTop /\ x \in StatesTop
    BY Forest DEF StatesTop
  <1>2. PICK q : q = Ancestry[super[x]]
    OBVIOUS
  <1>3. q \in Seq(States)
    BY <1>1, <1>2, AncestryIsPath DEF IsPath
  <1>4. PICK p : p = Ancestry[x]
    OBVIOUS
  <1>5. p = <<x>> \o q
    BY <1>2, <1>4, AncestryDefined
  <1>6. /\ p \in Seq(States) /\ Len(p) = Len(q) + 1 /\ p[1] = x
        /\ \A i \in 1..Len(q) : p[i + 1] = q[i]
        /\ Len(q) \in Nat
    BY <1>3, <1>5, Cons
  <1>7. ASSUME NEW i \in 1..Len(p), i # 1
        PROVE  i - 1 \in 1..Len(q) /\ p[i] = q[i - 1]
    <2>1. PICK j : j = i - 1
      OBVIOUS
    <2>2. j \in 1..Len(q) /\ j + 1 = i
      BY <2>1, <1>6, <1>7
    <2> QED BY <2>1, <2>2, <1>6
  <1> QED BY <1>1, <1>2, <1>3, <1>4, <1>6, <1>7

(* A path fits the array of MAX_NEST_DEPTH entries. *)
LEMMA AncestryLength ==
    ASSUME super \in Hierarchies, NEW x \in StatesTop
    PROVE  /\ Len(Ancestry[x]) \in Nat
           /\ Len(Ancestry[x]) <= MAX_NEST_DEPTH
  <1>1. PICK d : IsDepth(super, d)
    BY Forest
  <1>2. Len(Ancestry[Top]) = 0
    BY AncestryDefined
  <1> DEFINE S == {y \in States : Len(Ancestry[y]) = d[y]}
  <1>3. ASSUME NEW y \in States, super[y] = Top \/ super[y] \in S
        PROVE  y \in S
    <2>1. Len(Ancestry[y]) = Len(Ancestry[super[y]]) + 1
      BY AncestryCons
    <2>2. CASE super[y] = Top
      <3>1. d[y] = 1
        BY <1>1, <2>2 DEF IsDepth
      <3>2. Len(Ancestry[y]) = 0 + 1
        BY <2>1, <2>2, <1>2
      <3>3. Len(Ancestry[y]) = d[y]
        BY <3>1, <3>2
      <3> QED BY <3>3
    <2>3. CASE super[y] # Top
      <3>1. d[y] = d[super[y]] + 1
        BY <1>1, <2>3 DEF IsDepth
      <3> QED BY <1>3, <2>1, <2>3, <3>1
    <2> QED BY <2>2, <2>3
  <1>4. S = States
    <2> HIDE DEF S
    <2>1. S \in SUBSET States
      BY DEF S
    <2> QED BY <1>3, <2>1, ForestInduction
  <1>5. CASE x = Top
    BY <1>2, <1>5, HierarchyAssumption
  <1>6. CASE x \in States
    BY <1>4, <1>6, <1>1, DepthBound
  <1> QED BY <1>5, <1>6 DEF StatesTop

(* What is on the path of x: x and its superstates, inner ones first. *)
LEMMA AncestryRange ==
    ASSUME super \in Hierarchies, NEW x \in StatesTop
    PROVE  \A a : a \in Up(super, x) <=> \E i \in 1..Len(Ancestry[x]) : Ancestry[x][i] = a
  <1> DEFINE R(y) == {Ancestry[y][i] : i \in 1..Len(Ancestry[y])}
             S == {y \in States : R(y) = Up(super, y)}
  <1>1. R(Top) = Up(super, Top)
    <2>1. 1..Len(Ancestry[Top]) = {}
      BY AncestryDefined
    <2> QED BY <2>1, UpTop
  <1>2. ASSUME NEW y \in States, super[y] = Top \/ super[y] \in S
        PROVE  y \in S
    <2>1. R(super[y]) = Up(super, super[y])
      BY <1>1, <1>2
    <2>2. Up(super, y) = {y} \cup R(super[y])
      BY <2>1, UpStep
    <2>3. R(y) \subseteq {y} \cup R(super[y])
      <3>1. ASSUME NEW i \in 1..Len(Ancestry[y]) PROVE Ancestry[y][i] \in {y} \cup R(super[y])
        <4>1. CASE i = 1
          BY <4>1, AncestryCons
        <4>2. CASE i # 1
          <5>1. PICK j : j = i - 1
            OBVIOUS
          <5>2. j \in 1..Len(Ancestry[super[y]]) /\ Ancestry[y][i] = Ancestry[super[y]][j]
            BY <4>2, <5>1, AncestryCons
          <5> QED BY <5>2
        <4> QED BY <4>1, <4>2
      <3> QED BY <3>1
    <2>4. {y} \cup R(super[y]) \subseteq R(y)
      <3>1. ASSUME NEW i \in 1..Len(Ancestry[super[y]]) PROVE Ancestry[super[y]][i] \in R(y)
        <4>1. Ancestry[super[y]][i] = Ancestry[y][i + 1]
          BY AncestryCons
        <4>2. i + 1 \in 1..Len(Ancestry[y])
          <5>1. Len(Ancestry[super[y]]) \in Nat /\ Len(Ancestry[y]) = Len(Ancestry[super[y]]) + 1
            BY AncestryCons
          <5> QED BY <5>1
        <4> QED BY <4>1, <4>2
      <3>2. y \in R(y)
        <4>1. Ancestry[y][1] = y
          BY AncestryCons
        <4>2. 1 \in 1..Len(Ancestry[y])
          <5>1. Len(Ancestry[super[y]]) \in Nat /\ Len(Ancestry[y]) = Len(Ancestry[super[y]]) + 1
            BY AncestryCons
          <5> QED BY <5>1
        <4> QED BY <4>1, <4>2
      <3> QED BY <3>1, <3>2
    <2>5. R(y) = Up(super, y)
      BY <2>2, <2>3, <2>4
    <2> QED BY <2>5
  <1>3. S = States
    <2> HIDE DEF S
    <2>1. S \in SUBSET States
      BY DEF S
    <2> QED BY <1>2, <2>1, ForestInduction
  <1>4. R(x) = Up(super, x)
    BY <1>1, <1>3 DEF StatesTop
  <1> QED BY <1>4

LEMMA AncestryOrder ==
    ASSUME super \in Hierarchies, NEW x \in StatesTop
    PROVE  \A i, j \in 1..Len(Ancestry[x]) : i <= j => Ancestry[x][j] \in Up(super, Ancestry[x][i])
  <1> DEFINE S == {y \in States : \A i, j \in 1..Len(Ancestry[y]) :
                        i <= j => Ancestry[y][j] \in Up(super, Ancestry[y][i])}
  <1>1. Len(Ancestry[Top]) = 0
    BY AncestryDefined
  <1>2. ASSUME NEW y \in States, super[y] = Top \/ super[y] \in S
        PROVE  y \in S
    <2>1. SUFFICES ASSUME NEW i \in 1..Len(Ancestry[y]), NEW j \in 1..Len(Ancestry[y]), i <= j
                   PROVE  Ancestry[y][j] \in Up(super, Ancestry[y][i])
      OBVIOUS
    <2>2. CASE i = 1
      <3>1. Ancestry[y][i] = y /\ y \in StatesTop
        BY <2>2, AncestryCons DEF StatesTop
      <3> QED BY <3>1, AncestryRange
    <2>3. CASE i # 1
      <3>1. j # 1
        BY <2>1, <2>3
      <3>2. PICK a : a = i - 1
        OBVIOUS
      <3>3. PICK b : b = j - 1
        OBVIOUS
      <3>4. /\ a \in 1..Len(Ancestry[super[y]]) /\ b \in 1..Len(Ancestry[super[y]])
            /\ Ancestry[y][i] = Ancestry[super[y]][a]
            /\ Ancestry[y][j] = Ancestry[super[y]][b]
        BY <2>3, <3>1, <3>2, <3>3, AncestryCons
      <3>5. a <= b
        BY <2>1, <3>2, <3>3
      <3>6. super[y] # Top
        BY <1>1, <3>4
      <3> QED BY <1>2, <3>4, <3>5, <3>6
    <2> QED BY <2>2, <2>3
  <1>3. S = States
    <2> HIDE DEF S
    <2>1. S \in SUBSET States
      BY DEF S
    <2> QED BY <1>2, <2>1, ForestInduction
  <1>4. CASE x = Top
    BY <1>1, <1>4
  <1> QED BY <1>3, <1>4 DEF StatesTop

-----------------------------------------------------------------------------
(* The operators of the engines *)

Least(S) == CHOOSE x \in S : \A y \in S : x <= y

LEMMA LeastInSet ==
    ASSUME NEW S, S \subseteq Nat, S # {}
    PROVE  Least(S) \in S /\ \A y \in S : Least(S) <= y
  <1>1. PICK i \in S : \A j \in S : <<j, i>> \notin Lower
    BY LowerWellFounded, WFMin
  <1>2. ASSUME NEW j \in S PROVE i <= j
    <2>1. i \in Nat /\ j \in Nat /\ <<j, i>> \notin Lower
      BY <1>1
    <2>2. ~(j < i)
      BY <2>1 DEF Lower
    <2> QED BY <2>1, <2>2
  <1> QED BY <1>2 DEF Least

(* The places of path1 that hold a state of path2, and the first of them. *)
Common(path1, path2) == {i \in 1..Len(path1) : path1[i] \in {path2[j] : j \in DOMAIN path2}}
FirstCommon(path1, path2) ==
    LET I == Common(path1, path2) IN IF I = {} THEN Top ELSE path1[Least(I)]

(* What is left of a path below x. *)
CutBelow(path, x) ==
    LET I == {i \in 1..Len(path) : path[i] = x}
        p == IF I = {} THEN path ELSE SubSeq(path, 1, Least(I) - 1)
    IN  [i \in 1..Len(p) |-> p[(Len(p) - i) + 1]]

LEMMA HFind ==
    ASSUME NEW p \in Seq(States), NEW q
    PROVE  H!find_lca(p, q) = FirstCommon(p, q)
  <1> DEFINE I == Common(p, q)
  <1>1. I \subseteq Nat /\ 0 \notin I
    BY DEF Common
  <1>2. H!find_lca(p, q) = LET i == IF I # {} THEN Least(I) ELSE 0
                           IN  IF i = 0 THEN Top ELSE p[i]
    BY DEF H!find_lca, H!SelectInSeq, H!ToSet, H!Min, Least, Common
  <1>3. I # {} => Least(I) \in I
    BY <1>1, LeastInSet
  <1> QED BY <1>1, <1>2, <1>3 DEF FirstCommon

LEMMA MFind ==
    ASSUME NEW p \in Seq(States), NEW q
    PROVE  M!find_lca(p, q) = FirstCommon(p, q)
  <1> DEFINE I == Common(p, q)
  <1>1. I \subseteq Nat /\ 0 \notin I
    BY DEF Common
  <1>2. M!find_lca(p, q) = LET i == IF I # {} THEN Least(I) ELSE 0
                           IN  IF i = 0 THEN Top ELSE p[i]
    BY DEF M!find_lca, M!SelectInSeq, M!ToSet, M!Min, Least, Common
  <1>3. I # {} => Least(I) \in I
    BY <1>1, LeastInSet
  <1> QED BY <1>1, <1>2, <1>3 DEF FirstCommon

LEMMA HBelow ==
    ASSUME NEW p \in Seq(States), NEW x
    PROVE  H!Below(p, x) = CutBelow(p, x)
  <1> DEFINE I == {i \in 1..Len(p) : p[i] = x}
  <1>1. I \subseteq Nat /\ 0 \notin I
    OBVIOUS
  <1>2. H!Below(p, x) = LET i == IF I # {} THEN Least(I) ELSE 0
                            c == IF i = 0 THEN p ELSE SubSeq(p, 1, i - 1)
                        IN  [k \in 1..Len(c) |-> c[(Len(c) - k) + 1]]
    BY DEF H!Below, H!SelectInSeq, H!Reverse, H!Min, Least
  <1>3. I # {} => Least(I) \in I
    BY <1>1, LeastInSet
  <1>4. I # {} => Least(I) # 0
    BY <1>1, <1>3
  <1> QED BY <1>2, <1>4 DEF CutBelow

LEMMA MBelow ==
    ASSUME NEW p \in Seq(States), NEW x
    PROVE  M!Below(p, x) = CutBelow(p, x)
  <1> DEFINE I == {i \in 1..Len(p) : p[i] = x}
  <1>1. I \subseteq Nat /\ 0 \notin I
    OBVIOUS
  <1>2. M!Below(p, x) = LET i == IF I # {} THEN Least(I) ELSE 0
                            c == IF i = 0 THEN p ELSE SubSeq(p, 1, i - 1)
                        IN  [k \in 1..Len(c) |-> c[(Len(c) - k) + 1]]
    BY DEF M!Below, M!SelectInSeq, M!Reverse, M!Min, Least
  <1>3. I # {} => Least(I) \in I
    BY <1>1, LeastInSet
  <1>4. I # {} => Least(I) # 0
    BY <1>1, <1>3
  <1> QED BY <1>2, <1>4 DEF CutBelow

(* No path is cut off. *)
LEMMA HPath ==
    ASSUME super \in Hierarchies, NEW x \in StatesTop
    PROVE  H!path_to_top(x) = Ancestry[x] /\ Ancestry[x] \in Seq(States)
  <1>1. H!Ancestry = Ancestry
    BY DEF H!Ancestry, Ancestry
  <1>2. Ancestry[x] \in Seq(States)
    BY AncestryIsPath DEF IsPath
  <1>3. PICK p : p = Ancestry[x]
    OBVIOUS
  <1>4. Len(p) \in Nat /\ Len(p) <= MAX_NEST_DEPTH /\ MAX_NEST_DEPTH \in Nat
    BY <1>3, AncestryLength, HierarchyAssumption
  <1>5. H!path_to_top(x) = SubSeq(p, 1, IF Len(p) < MAX_NEST_DEPTH THEN Len(p) ELSE MAX_NEST_DEPTH)
    BY <1>1, <1>3 DEF H!path_to_top
  <1>6. (IF Len(p) < MAX_NEST_DEPTH THEN Len(p) ELSE MAX_NEST_DEPTH) = Len(p)
    BY <1>4
  <1>7. SubSeq(p, 1, Len(p)) = p
    BY <1>2, <1>3, SubSeqFull
  <1> QED BY <1>2, <1>3, <1>5, <1>6, <1>7

LEMMA MPath ==
    ASSUME super \in Hierarchies, NEW x \in StatesTop
    PROVE  M!path_to_top(x) = Ancestry[x] /\ Ancestry[x] \in Seq(States)
  <1>1. M!Ancestry = Ancestry
    BY DEF M!Ancestry, Ancestry
  <1>2. Ancestry[x] \in Seq(States)
    BY AncestryIsPath DEF IsPath
  <1> QED BY <1>1, <1>2 DEF M!path_to_top

(* The first common state has the superstates that both share. *)
LEMMA FirstCommonMeet ==
    ASSUME super \in Hierarchies, NEW a \in StatesTop, NEW t \in StatesTop
    PROVE  /\ FirstCommon(Ancestry[a], Ancestry[t]) \in StatesTop
           /\ Up(super, FirstCommon(Ancestry[a], Ancestry[t])) = Up(super, a) \cap Up(super, t)
  <1>1. PICK p : p = Ancestry[a]
    OBVIOUS
  <1>2. PICK q : q = Ancestry[t]
    OBVIOUS
  <1>3. p \in Seq(States) /\ q \in Seq(States)
    BY <1>1, <1>2, AncestryIsPath DEF IsPath
  <1>4. \A c : c \in Up(super, a) <=> \E i \in 1..Len(p) : p[i] = c
    BY <1>1, AncestryRange
  <1>5. \A c : c \in Up(super, t) <=> \E i \in 1..Len(q) : q[i] = c
    BY <1>2, AncestryRange
  <1>6. \A i \in 1..Len(p) : i \in Common(p, q) <=> p[i] \in Up(super, t)
    <2>1. DOMAIN q = 1..Len(q)
      BY <1>3
    <2> QED BY <1>5, <2>1 DEF Common
  <1>7. CASE Common(p, q) = {}
    <2>1. FirstCommon(p, q) = Top
      BY <1>7 DEF FirstCommon
    <2>2. Up(super, a) \cap Up(super, t) = {}
      BY <1>4, <1>6, <1>7
    <2> QED BY <1>1, <1>2, <2>1, <2>2, UpTop DEF StatesTop
  <1>8. CASE Common(p, q) # {}
    <2>1. Common(p, q) \subseteq Nat /\ Common(p, q) \subseteq 1..Len(p)
      BY DEF Common
    <2>2. PICK i : i = Least(Common(p, q))
      OBVIOUS
    <2>3. i \in Common(p, q) /\ i \in 1..Len(p) /\ \A y \in Common(p, q) : i <= y
      BY <1>8, <2>1, <2>2, LeastInSet
    <2>4. PICK l : l = p[i]
      OBVIOUS
    <2>5. FirstCommon(p, q) = l
      BY <1>8, <2>2, <2>4 DEF FirstCommon
    <2>6. l \in Up(super, a) /\ l \in Up(super, t)
      BY <2>3, <2>4, <1>4, <1>6
    <2>7. /\ Up(super, l) \subseteq Up(super, a)
          /\ Up(super, l) \subseteq Up(super, t)
          /\ l \in States
      BY <2>6, UpTrans
    <2>8. ASSUME NEW c \in Up(super, a) \cap Up(super, t)
          PROVE  c \in Up(super, l)
      <3>1. PICK j \in 1..Len(p) : p[j] = c
        BY <1>4
      <3>2. j \in Common(p, q)
        BY <3>1, <1>6
      <3>3. i <= j
        BY <3>2, <2>3
      <3>4. p[j] \in Up(super, p[i])
        BY <3>3, <2>3, <1>1, AncestryOrder
      <3> QED BY <3>1, <3>4, <2>4
    <2> QED BY <1>1, <1>2, <2>5, <2>7, <2>8 DEF StatesTop
  <1> QED BY <1>7, <1>8

(* e leads from the active state b down to t, one substate at a time. *)
Leads(h, e, b, t) ==
    /\ e \in Seq(States)
    /\ b \in StatesTop
    /\ t \in States
    /\ e = <<>> => b = t
    /\ e # <<>> => /\ h[e[1]] = b
                   /\ e[Len(e)] = t
                   /\ \A i \in 1..Len(e) - 1 : h[e[i + 1]] = e[i]

(* A path up to and without its (k+1)-th state, the other way round. *)
LEMMA CutLeads ==
    ASSUME NEW h \in Hierarchies, NEW t \in States, NEW p, IsPath(h, t, p),
           NEW k \in 0..Len(p), NEW b,
           k = Len(p) => b = Top, k # Len(p) => b = p[k + 1],
           NEW e, e = [i \in 1..k |-> p[(k - i) + 1]]
    PROVE  Leads(h, e, b, t)
  <1>1. /\ p \in Seq(States) /\ Len(p) >= 1 /\ p[1] = t
        /\ \A i \in 1..Len(p) - 1 : p[i + 1] = h[p[i]]
        /\ h[p[Len(p)]] = Top
    BY Forest DEF IsPath
  <1>2. Len(p) \in Nat /\ \A i \in 1..Len(p) : p[i] \in States
    BY <1>1, LenProperties, ElementOfSeq
  <1>3. k \in Nat /\ k <= Len(p)
    BY <1>2
  <1>4. \A i \in 1..k : (k - i) + 1 \in 1..Len(p)
    BY <1>2, <1>3
  <1>5. e \in [1..k -> States]
    BY <1>2, <1>4
  <1>6. e \in Seq(States) /\ Len(e) = k
    BY <1>3, <1>5
  <1>7. b \in StatesTop
    <2>1. CASE k = Len(p)
      BY <2>1 DEF StatesTop
    <2>2. CASE k # Len(p)
      <3>1. k + 1 \in 1..Len(p)
        BY <1>2, <1>3, <2>2
      <3> QED BY <2>2, <3>1, <1>2 DEF StatesTop
    <2> QED BY <2>1, <2>2
  <1>8. CASE k = 0
    <2>1. e = <<>> /\ b = t
      <3>1. e = <<>>
        BY <1>6, <1>8, EmptySeq
      <3>2. k # Len(p) /\ k + 1 = 1
        BY <1>1, <1>2, <1>8
      <3> QED BY <3>1, <3>2, <1>1
    <2> QED BY <2>1, <1>6, <1>7 DEF Leads
  <1>9. CASE k # 0
    <2>1. e # <<>> /\ k >= 1 /\ 1 \in 1..k /\ k \in 1..k
      BY <1>3, <1>6, <1>9
    <2>2. e[1] = p[k] /\ e[k] = p[1]
      <3>1. (k - 1) + 1 = k /\ (k - k) + 1 = 1
        BY <1>3
      <3> QED BY <3>1, <2>1
    <2>3. h[p[k]] = b
      <3>1. CASE k = Len(p)
        BY <3>1, <1>1
      <3>2. CASE k # Len(p)
        <4>1. k \in 1..Len(p) - 1
          BY <3>2, <2>1, <1>2, <1>3
        <4> QED BY <4>1, <3>2, <1>1
      <3> QED BY <3>1, <3>2
    <2>4. ASSUME NEW i \in 1..k - 1
          PROVE  h[e[i + 1]] = e[i]
      <3>1. PICK j : j = k - i
        OBVIOUS
      <3>2. j \in 1..Len(p) - 1 /\ (k - (i + 1)) + 1 = j /\ (k - i) + 1 = j + 1
        BY <3>1, <1>2, <1>3
      <3>3. i \in 1..k /\ i + 1 \in 1..k
        BY <1>3
      <3>4. e[i + 1] = p[j] /\ e[i] = p[j + 1]
        BY <3>2, <3>3
      <3> QED BY <3>2, <3>4, <1>1
    <2> QED BY <2>1, <2>2, <2>3, <2>4, <1>1, <1>6, <1>7 DEF Leads
  <1> QED BY <1>8, <1>9

LEMMA BelowLeads ==
    ASSUME super \in Hierarchies, NEW t \in States, NEW l \in StatesTop,
           l = Top \/ l \in Up(super, t)
    PROVE  Leads(super, CutBelow(Ancestry[t], l), l, t)
  <1>1. PICK p : p = Ancestry[t]
    OBVIOUS
  <1>2. IsPath(super, t, p) /\ p \in Seq(States)
    BY <1>1, AncestryIsPath DEF IsPath, StatesTop
  <1>3. Len(p) \in Nat /\ \A i \in 1..Len(p) : p[i] \in States
    BY <1>2, LenProperties, ElementOfSeq
  <1>4. PICK I : I = {i \in 1..Len(p) : p[i] = l}
    OBVIOUS
  <1>5. CASE l = Top
    <2>1. I = {}
      BY <1>3, <1>4, <1>5, HierarchyAssumption
    <2>2. CutBelow(p, l) = [i \in 1..Len(p) |-> p[(Len(p) - i) + 1]]
      BY <1>4, <2>1 DEF CutBelow
    <2>3. PICK k : k = Len(p)
      OBVIOUS
    <2>4. k \in 0..Len(p)
      BY <1>3, <2>3
    <2>5. PICK e : e = CutBelow(p, l)
      OBVIOUS
    <2>6. e = [i \in 1..k |-> p[(k - i) + 1]]
      BY <2>2, <2>3, <2>5
    <2>7. Leads(super, e, l, t)
      BY <1>2, <1>5, <2>3, <2>4, <2>6, CutLeads
    <2> QED BY <1>1, <2>5, <2>7
  <1>6. CASE l # Top
    <2>1. l \in Up(super, t)
      BY <1>6
    <2>2. PICK j \in 1..Len(p) : p[j] = l
      BY <1>1, <2>1, AncestryRange DEF StatesTop
    <2>3. I # {} /\ I \subseteq Nat
      BY <1>3, <1>4, <2>2
    <2>4. PICK i : i = Least(I)
      OBVIOUS
    <2>5. i \in 1..Len(p) /\ p[i] = l
      <3>1. i \in I
        BY <2>3, <2>4, LeastInSet
      <3> QED BY <3>1, <1>4
    <2>6. PICK k : k = i - 1
      OBVIOUS
    <2>7. k \in 0..Len(p) /\ k # Len(p) /\ k + 1 = i /\ k \in Nat
      BY <1>3, <2>5, <2>6
    <2>8. PICK c : c = SubSeq(p, 1, k)
      OBVIOUS
    <2>9. Len(c) = k /\ \A n \in 1..k : c[n] = p[n]
      <3>1. \A n \in 1..k : p[n] \in States
        BY <1>3, <2>7
      <3>2. /\ Len(c) = IF 1 <= k THEN k - 1 + 1 ELSE 0
            /\ \A n \in 1..(k - 1 + 1) : c[n] = p[1 + n - 1]
        BY <3>1, <2>7, <2>8, SubSeqProperties
      <3>3. k - 1 + 1 = k /\ \A n \in 1..k : 1 + n - 1 = n
        BY <2>7
      <3>4. Len(c) = k
        BY <3>2, <2>7
      <3> QED BY <3>2, <3>3, <3>4
    <2>10. CutBelow(p, l) = [n \in 1..Len(c) |-> c[(Len(c) - n) + 1]]
      BY <1>4, <2>3, <2>4, <2>6, <2>8 DEF CutBelow
    <2>11. \A n \in 1..k : (k - n) + 1 \in 1..k
      BY <2>7
    <2>12. CutBelow(p, l) = [n \in 1..k |-> p[(k - n) + 1]]
      BY <2>9, <2>10, <2>11
    <2> QED BY <1>1, <1>2, <2>5, <2>7, <2>12, CutLeads
  <1> QED BY <1>5, <1>6

LEMMA WholeLeads ==
    ASSUME super \in Hierarchies, NEW t \in States, NEW p, p = Ancestry[t]
    PROVE  Leads(super, [i \in 1..Len(p) |-> p[(Len(p) - i) + 1]], Top, t)
  <1>1. IsPath(super, t, p) /\ p \in Seq(States)
    BY AncestryIsPath DEF IsPath, StatesTop
  <1>2. PICK k : k = Len(p)
    OBVIOUS
  <1>3. k \in 0..Len(p)
    BY <1>1, <1>2, LenProperties
  <1>4. Leads(super, [i \in 1..k |-> p[(k - i) + 1]], Top, t)
    BY <1>1, <1>2, <1>3, CutLeads
  <1> QED BY <1>2, <1>4

(* What a transition keeps active, as the engine finds it. *)
Meet(e, h, src, t) ==
    IF src # t THEN Up(h, src) \cap Up(h, t)
    ELSE IF e = "QMsm" /\ h[src] = Top THEN Up(h, src)
    ELSE Up(h, h[src])

(* QMsm looks for the ancestor of an outermost state from the state itself, *)
(* in every other case a self-transition starts one level up.               *)
LEMMA HLca ==
    ASSUME super \in Hierarchies, source \in States, target \in States
    PROVE  H!lca \in StatesTop /\ Up(super, H!lca) = Meet("QHsm", super, source, target)
  <1>1. PICK a : a = IF source = target THEN super[source] ELSE source
    OBVIOUS
  <1>2. a \in StatesTop /\ target \in StatesTop
    BY <1>1, UpStep DEF StatesTop
  <1>3. H!path_to_top(a) = Ancestry[a] /\ Ancestry[a] \in Seq(States)
    BY <1>2, HPath
  <1>4. H!path_to_top(target) = Ancestry[target]
    BY <1>2, HPath
  <1>5. H!lca = FirstCommon(Ancestry[a], Ancestry[target])
    <2>1. H!lca = H!find_lca(Ancestry[a], Ancestry[target])
      BY <1>1, <1>3, <1>4 DEF H!lca
    <2> QED BY <1>3, <2>1, HFind
  <1>6. H!lca \in StatesTop /\ Up(super, H!lca) = Up(super, a) \cap Up(super, target)
    BY <1>2, <1>5, FirstCommonMeet
  <1>7. source = target => Up(super, a) \cap Up(super, target) = Up(super, a)
    BY <1>1, UpStep
  <1> QED BY <1>1, <1>6, <1>7 DEF Meet

LEMMA MLca ==
    ASSUME super \in Hierarchies, source \in States, target \in States
    PROVE  M!lca \in StatesTop /\ Up(super, M!lca) = Meet("QMsm", super, source, target)
  <1>1. PICK a : a = IF source = target /\ super[source] # Top THEN super[source] ELSE source
    OBVIOUS
  <1>2. a \in StatesTop /\ target \in StatesTop
    BY <1>1, UpStep DEF StatesTop
  <1>3. M!path_to_top(a) = Ancestry[a] /\ Ancestry[a] \in Seq(States)
    BY <1>2, MPath
  <1>4. M!path_to_top(target) = Ancestry[target]
    BY <1>2, MPath
  <1>5. M!lca = FirstCommon(Ancestry[a], Ancestry[target])
    <2>1. M!lca = M!find_lca(Ancestry[a], Ancestry[target])
      BY <1>1, <1>3, <1>4 DEF M!lca
    <2> QED BY <1>3, <2>1, MFind
  <1>6. M!lca \in StatesTop /\ Up(super, M!lca) = Up(super, a) \cap Up(super, target)
    BY <1>2, <1>5, FirstCommonMeet
  <1>7. source = target => Up(super, a) \cap Up(super, target) = Up(super, a)
    BY <1>1, UpStep
  <1> QED BY <1>1, <1>6, <1>7 DEF Meet

(* Up is the set that the properties speak of. *)
LEMMA UpIsAncestorsOrSelf ==
    ASSUME NEW x \in States
    PROVE  AncestorsOrSelf(x) = Up(super, x)
  BY HierarchyAssumption DEF AncestorsOrSelf, Up

-----------------------------------------------------------------------------
(* The inductive invariant *)

HsmType ==
    /\ super \in Hierarchies /\ engine \in {"QHsm", "QMsm"}
    /\ state \in StatesTop /\ s \in StatesTop
    /\ history \in [States -> StatesTop] /\ last_child \in [States -> StatesTop]
    /\ pc \in {"new", "stable", "exit", "enter", "init"}

(* At every step the active states are one state and its superstates: the   *)
(* current state between transitions, the cursor of the exit loop, or the   *)
(* state b from which `entering` leads down to the target.                  *)
ActiveBranch ==
    /\ pc = "new" => active = {} /\ (engine = "QMsm" => target \in States)
    /\ pc \in {"stable", "init"} => state \in States /\ active = Up(super, state)
    /\ pc = "exit" => /\ source \in States /\ target \in States
                      /\ active = Up(super, s)
                      /\ Meet(engine, super, source, target) \subseteq Up(super, s)
    /\ pc = "enter" => \E b \in StatesTop : /\ active = Up(super, b)
                                            /\ Leads(super, entering, b, target)

(* An active state is the child that its superstate saw last. *)
LastChildInv ==
    /\ \A x \in active : super[x] # Top => last_child[super[x]] = x
    /\ \A p \in States : last_child[p] # Top => super[last_child[p]] = p

HsmInv == HsmType /\ ActiveBranch /\ LastChildInv /\ HistoryIsLastActive

(* The steps of either engine, in terms of the forest alone. *)
StepBegin ==
    /\ pc = "new" /\ pc' = "enter"
    /\ target' \in States /\ Leads(super, entering', Top, target')
    /\ UNCHANGED <<super, engine, state, history, s, active, last_child>>
StepTran ==
    /\ pc = "stable" /\ pc' = "exit"
    /\ source' \in Up(super, state) /\ target' \in States /\ s' = state
    /\ UNCHANGED <<super, engine, state, history, entering, active, last_child>>
StepExit ==
    /\ pc = "exit" /\ s \in States
    /\ Meet(engine, super, source, target) \subseteq Up(super, super[s])
    /\ history' = IF super[s] # Top THEN [history EXCEPT ![super[s]] = s] ELSE history
    /\ active' = active \ {s} /\ s' = super[s]
    /\ UNCHANGED <<super, engine, state, pc, source, target, entering, last_child>>
StepExited ==
    /\ pc = "exit" /\ pc' = "enter"
    /\ Up(super, s) = Meet(engine, super, source, target)
    /\ Leads(super, entering', s, target)
    /\ UNCHANGED <<super, engine, state, history, source, target, s, active, last_child>>
StepEnter ==
    /\ pc = "enter" /\ entering # <<>> /\ entering' = Tail(entering)
    /\ active' = active \cup {Head(entering)}
    /\ last_child' = IF super[Head(entering)] = Top THEN last_child
                     ELSE [last_child EXCEPT ![super[Head(entering)]] = Head(entering)]
    /\ UNCHANGED <<super, engine, state, history, pc, source, target, s>>
StepEntered ==
    /\ pc = "enter" /\ pc' = "init" /\ entering = <<>> /\ state' = target
    /\ UNCHANGED <<super, engine, history, source, target, s, entering, active, last_child>>
StepInit ==
    /\ pc = "init" /\ pc' = "enter"
    /\ target' \in States /\ Leads(super, entering', state, target')
    /\ UNCHANGED <<super, engine, state, history, source, s, active, last_child>>
StepStable ==
    /\ pc = "init" /\ pc' = "stable"
    /\ UNCHANGED <<super, engine, state, history, source, target, s, entering, active, last_child>>

EngineStep ==
    \/ StepBegin \/ StepTran \/ StepExit \/ StepExited
    \/ StepEnter \/ StepEntered \/ StepInit \/ StepStable
    \/ UNCHANGED <<vars, engine>>

-----------------------------------------------------------------------------
(* Both engines take these steps *)

(* The exit loop stops at the ancestor it was given and nowhere else. *)
LEMMA ExitLoop ==
    ASSUME HsmInv, pc = "exit", NEW l \in StatesTop,
           Up(super, l) = Meet(engine, super, source, target)
    PROVE  /\ s # l /\ s # Top => /\ s \in States
                                  /\ Meet(engine, super, source, target) \subseteq Up(super, super[s])
           /\ s \in {l, Top} => s = l
           /\ l = Top \/ l \in Up(super, target)
           /\ target \in States /\ source \in States /\ super \in Hierarchies
  <1>1. /\ source \in States /\ target \in States /\ super \in Hierarchies /\ s \in StatesTop
        /\ Up(super, l) \subseteq Up(super, s)
    BY DEF HsmInv, HsmType, ActiveBranch
  <1>2. l # Top => l \in Up(super, l)
    BY <1>1, UpClosed
  <1>3. ASSUME s # l, s # Top
        PROVE  s \in States /\ Up(super, l) \subseteq Up(super, super[s])
    <2>1. s \in States
      BY <1>1, <1>3 DEF StatesTop
    <2>2. CASE l = Top
      BY <2>1, <2>2, UpTop
    <2>3. CASE l # Top
      <3>1. l \in Up(super, super[s]) /\ super[s] \in StatesTop
        BY <1>1, <1>2, <1>3, <2>1, <2>3, UpStep
      <3> QED BY <1>1, <2>1, <3>1, UpTrans
    <2> QED BY <2>2, <2>3
  <1>4. s = Top => l = Top
    BY <1>1, <1>2, UpTop
  <1>5. l = Top \/ l \in Up(super, target)
    <2>1. Meet(engine, super, source, target) \subseteq Up(super, target)
      BY <1>1, UpStep DEF Meet
    <2> QED BY <1>2, <2>1
  <1> QED BY <1>1, <1>3, <1>4, <1>5

(* The states of the path of the current state. *)
LEMMA Handlers ==
    ASSUME HsmInv, pc = "stable"
    PROVE  /\ {Ancestry[state][i] : i \in DOMAIN Ancestry[state]} = Up(super, state)
           /\ \A p \in States : history[p] # Top => history[p] \in States
  <1>1. super \in Hierarchies /\ state \in StatesTop /\ history \in [States -> StatesTop]
    BY DEF HsmInv, HsmType
  <1>2. Ancestry[state] \in Seq(States)
    BY <1>1, AncestryIsPath DEF IsPath
  <1>3. DOMAIN Ancestry[state] = 1..Len(Ancestry[state])
    BY <1>2
  <1> QED BY <1>1, <1>3, AncestryRange DEF StatesTop

(* The substates of the current state. *)
LEMMA SubstatesUp ==
    ASSUME super \in Hierarchies, NEW y \in States, NEW x, x \in AncestorsOrSelf(y)
    PROVE  x \in Up(super, y)
  BY UpIsAncestorsOrSelf

LEMMA HSteps ==
    ASSUME HsmInv, engine = "QHsm", UNCHANGED engine, H!Next
    PROVE  EngineStep
  <1>0. super \in Hierarchies
    BY DEF HsmInv, HsmType
  <1>1. CASE H!init
    <2>1. PICK t \in States : target' = t /\ entering' = H!Reverse(H!path_to_top(t))
      BY <1>1 DEF H!init
    <2>2. PICK p : p = Ancestry[t]
      OBVIOUS
    <2>3. H!path_to_top(t) = p
      BY <1>0, <2>1, <2>2, HPath DEF StatesTop
    <2>4. entering' = [i \in 1..Len(p) |-> p[(Len(p) - i) + 1]]
      BY <2>1, <2>3 DEF H!Reverse
    <2>5. Leads(super, entering', Top, target')
      BY <1>0, <2>1, <2>2, <2>4, WholeLeads
    <2>6. StepBegin
      BY <1>1, <2>1, <2>5 DEF H!init, StepBegin
    <2> QED BY <2>6 DEF EngineStep
  <1>2. ASSUME NEW src \in H!ToSet(H!Ancestry[state]), NEW t \in States, pc = "stable",
               H!execute_tran(src, t)
        PROVE  EngineStep
    <2>1. H!Ancestry = Ancestry
      BY DEF H!Ancestry, Ancestry
    <2>2. src \in Up(super, state)
      BY <1>2, <2>1, Handlers DEF H!ToSet
    <2>3. StepTran
      BY <1>2, <2>2 DEF H!execute_tran, StepTran
    <2> QED BY <2>3 DEF EngineStep
  <1>3. CASE H!dispatch_tran
    BY <1>2, <1>3 DEF H!dispatch_tran
  <1>4. CASE H!dispatch_tran_hist
    <2>1. PICK src \in H!ToSet(H!Ancestry[state]), p \in States :
            H!execute_tran(src, IF history[p] = Top THEN p ELSE history[p])
      BY <1>4 DEF H!dispatch_tran_hist
    <2>2. pc = "stable"
      BY <1>4 DEF H!dispatch_tran_hist
    <2>3. (IF history[p] = Top THEN p ELSE history[p]) \in States
      BY <2>2, Handlers
    <2> QED BY <1>2, <2>1, <2>2, <2>3
  <1>5. CASE H!dispatch_no_tran
    BY <1>5 DEF H!dispatch_no_tran, H!vars, EngineStep, vars
  <1>6. ASSUME pc = "exit"
        PROVE  /\ H!lca \in StatesTop
               /\ Up(super, H!lca) = Meet(engine, super, source, target)
    <2>1. source \in States /\ target \in States
      BY <1>6 DEF HsmInv, ActiveBranch
    <2> QED BY <1>0, <2>1, HLca
  <1>7. CASE H!exit_state
    <2>1. pc = "exit" /\ s # H!lca /\ s # Top
      BY <1>7 DEF H!exit_state, H!ExitState
    <2>2. /\ s \in States
          /\ Meet(engine, super, source, target) \subseteq Up(super, super[s])
      BY <1>6, <2>1, ExitLoop
    <2>3. StepExit
      BY <1>7, <2>1, <2>2 DEF H!exit_state, H!ExitState, StepExit
    <2> QED BY <2>3 DEF EngineStep
  <1>8. CASE H!exits_done
    <2>1. /\ pc = "exit" /\ pc' = "enter" /\ s \in {H!lca, Top}
          /\ entering' = H!Below(H!path_to_top(target), H!lca)
          /\ UNCHANGED <<super, state, history, source, target, s, active, last_child>>
      BY <1>8 DEF H!exits_done
    <2>2. PICK l : l = H!lca
      OBVIOUS
    <2>3. /\ l \in StatesTop /\ Up(super, l) = Meet(engine, super, source, target)
          /\ s = l /\ (l = Top \/ l \in Up(super, target)) /\ target \in States
      BY <1>6, <2>1, <2>2, ExitLoop
    <2>4. H!path_to_top(target) = Ancestry[target] /\ Ancestry[target] \in Seq(States)
      BY <1>0, <2>3, HPath DEF StatesTop
    <2>5. entering' = CutBelow(Ancestry[target], l)
      BY <2>1, <2>2, <2>4, HBelow
    <2>6. Leads(super, entering', l, target)
      BY <1>0, <2>3, <2>5, BelowLeads
    <2>7. StepExited
      BY <2>1, <2>3, <2>6 DEF StepExited
    <2> QED BY <2>7 DEF EngineStep
  <1>9. CASE H!enter_state
    <2>1. StepEnter
      BY <1>9 DEF H!enter_state, H!EnterNext, StepEnter
    <2> QED BY <2>1 DEF EngineStep
  <1>10. CASE H!enters_done
    BY <1>10 DEF H!enters_done, StepEntered, EngineStep
  <1>11. CASE H!handle_nested_init
    <2>1. /\ pc = "init" /\ state \in States
          /\ UNCHANGED <<super, state, history, source, s, active, last_child>>
      BY <1>11 DEF H!handle_nested_init, HsmInv, ActiveBranch
    <2>2. CASE pc' = "stable" /\ UNCHANGED <<target, entering>>
      BY <2>1, <2>2 DEF StepStable, EngineStep
    <2>3. ASSUME NEW next \in H!Substates(state), target' = next, pc' = "enter",
                 entering' = H!Below(H!path_to_top(next), state)
          PROVE  EngineStep
      <3>1. next \in States /\ state \in AncestorsOrSelf(next)
        BY <2>3 DEF H!Substates, H!AncestorsOrSelf, AncestorsOrSelf
      <3>2. state \in Up(super, next) /\ state \in StatesTop
        BY <1>0, <2>1, <3>1, SubstatesUp DEF StatesTop
      <3>3. H!path_to_top(next) = Ancestry[next] /\ Ancestry[next] \in Seq(States)
        BY <1>0, <3>1, HPath DEF StatesTop
      <3>4. entering' = CutBelow(Ancestry[next], state)
        BY <2>3, <3>3, HBelow
      <3>5. Leads(super, entering', state, next)
        BY <1>0, <3>1, <3>2, <3>4, BelowLeads
      <3>6. StepInit
        BY <2>1, <2>3, <3>1, <3>5 DEF StepInit
      <3> QED BY <3>6 DEF EngineStep
    <2> QED BY <1>11, <2>2, <2>3 DEF H!handle_nested_init
  <1> QED BY <1>1, <1>3, <1>4, <1>5, <1>7, <1>8, <1>9, <1>10, <1>11 DEF H!Next, H!Step

LEMMA MSteps ==
    ASSUME HsmInv, engine = "QMsm", UNCHANGED engine, M!Next
    PROVE  EngineStep
  <1>0. super \in Hierarchies
    BY DEF HsmInv, HsmType
  <1>1. CASE M!init
    <2>1. PICK t \in States : target = t /\ target' = t /\ entering' = M!Reverse(M!path_to_top(t))
      BY <1>1 DEF M!init, HsmInv, ActiveBranch
    <2>2. PICK p : p = Ancestry[t]
      OBVIOUS
    <2>3. M!path_to_top(t) = p
      BY <1>0, <2>1, <2>2, MPath DEF StatesTop
    <2>4. entering' = [i \in 1..Len(p) |-> p[(Len(p) - i) + 1]]
      BY <2>1, <2>3 DEF M!Reverse
    <2>5. Leads(super, entering', Top, target')
      BY <1>0, <2>1, <2>2, <2>4, WholeLeads
    <2>6. StepBegin
      BY <1>1, <2>1, <2>5 DEF M!init, StepBegin
    <2> QED BY <2>6 DEF EngineStep
  <1>2. ASSUME NEW src \in M!ToSet(M!Ancestry[state]), NEW t \in States, pc = "stable",
               M!execute_tran(src, t)
        PROVE  EngineStep
    <2>1. M!Ancestry = Ancestry
      BY DEF M!Ancestry, Ancestry
    <2>2. src \in Up(super, state)
      BY <1>2, <2>1, Handlers DEF M!ToSet
    <2>3. StepTran
      BY <1>2, <2>2 DEF M!execute_tran, StepTran
    <2> QED BY <2>3 DEF EngineStep
  <1>3. CASE M!dispatch_tran
    BY <1>2, <1>3 DEF M!dispatch_tran
  <1>4. CASE M!dispatch_tran_hist
    <2>1. PICK src \in M!ToSet(M!Ancestry[state]), p \in States :
            M!execute_tran(src, IF history[p] = Top THEN p ELSE history[p])
      BY <1>4 DEF M!dispatch_tran_hist
    <2>2. pc = "stable"
      BY <1>4 DEF M!dispatch_tran_hist
    <2>3. (IF history[p] = Top THEN p ELSE history[p]) \in States
      BY <2>2, Handlers
    <2> QED BY <1>2, <2>1, <2>2, <2>3
  <1>5. CASE M!dispatch_no_tran
    BY <1>5 DEF M!dispatch_no_tran, M!vars, EngineStep, vars
  <1>6. ASSUME pc = "exit"
        PROVE  /\ M!lca \in StatesTop
               /\ Up(super, M!lca) = Meet(engine, super, source, target)
    <2>1. source \in States /\ target \in States
      BY <1>6 DEF HsmInv, ActiveBranch
    <2> QED BY <1>0, <2>1, MLca
  <1>7. CASE M!exit_state
    <2>1. pc = "exit" /\ s # M!lca /\ s # Top
      BY <1>7 DEF M!exit_state
    <2>2. /\ s \in States
          /\ Meet(engine, super, source, target) \subseteq Up(super, super[s])
      BY <1>6, <2>1, ExitLoop
    <2>3. StepExit
      BY <1>7, <2>1, <2>2 DEF M!exit_state, StepExit
    <2> QED BY <2>3 DEF EngineStep
  <1>8. CASE M!exits_done
    <2>1. /\ pc = "exit" /\ pc' = "enter" /\ s \in {M!lca, Top}
          /\ entering' = M!Below(M!path_to_top(target), M!lca)
          /\ UNCHANGED <<super, state, history, source, target, s, active, last_child>>
      BY <1>8 DEF M!exits_done
    <2>2. PICK l : l = M!lca
      OBVIOUS
    <2>3. /\ l \in StatesTop /\ Up(super, l) = Meet(engine, super, source, target)
          /\ s = l /\ (l = Top \/ l \in Up(super, target)) /\ target \in States
      BY <1>6, <2>1, <2>2, ExitLoop
    <2>4. M!path_to_top(target) = Ancestry[target] /\ Ancestry[target] \in Seq(States)
      BY <1>0, <2>3, MPath DEF StatesTop
    <2>5. entering' = CutBelow(Ancestry[target], l)
      BY <2>1, <2>2, <2>4, MBelow
    <2>6. Leads(super, entering', l, target)
      BY <1>0, <2>3, <2>5, BelowLeads
    <2>7. StepExited
      BY <2>1, <2>3, <2>6 DEF StepExited
    <2> QED BY <2>7 DEF EngineStep
  <1>9. CASE M!enter_state
    <2>1. StepEnter
      BY <1>9 DEF M!enter_state, StepEnter
    <2> QED BY <2>1 DEF EngineStep
  <1>10. CASE M!enters_done
    BY <1>10 DEF M!enters_done, M!EntersDone, StepEntered, EngineStep
  <1>11. CASE M!handle_nested_init
    <2>1. /\ pc = "init" /\ state \in States
          /\ UNCHANGED <<super, state, history, source, s, active, last_child>>
      BY <1>11 DEF M!handle_nested_init, HsmInv, ActiveBranch
    <2>2. CASE pc' = "stable" /\ UNCHANGED <<target, entering>>
      BY <2>1, <2>2 DEF StepStable, EngineStep
    <2>3. ASSUME NEW next \in M!Substates(state), target' = next, pc' = "enter",
                 entering' = M!Below(M!path_to_top(next), state)
          PROVE  EngineStep
      <3>1. next \in States /\ state \in AncestorsOrSelf(next)
        BY <2>3 DEF M!Substates, M!AncestorsOrSelf, AncestorsOrSelf
      <3>2. state \in Up(super, next) /\ state \in StatesTop
        BY <1>0, <2>1, <3>1, SubstatesUp DEF StatesTop
      <3>3. M!path_to_top(next) = Ancestry[next] /\ Ancestry[next] \in Seq(States)
        BY <1>0, <3>1, MPath DEF StatesTop
      <3>4. entering' = CutBelow(Ancestry[next], state)
        BY <2>3, <3>3, MBelow
      <3>5. Leads(super, entering', state, next)
        BY <1>0, <3>1, <3>2, <3>4, BelowLeads
      <3>6. StepInit
        BY <2>1, <2>3, <3>1, <3>5 DEF StepInit
      <3> QED BY <3>6 DEF EngineStep
    <2> QED BY <1>11, <2>2, <2>3 DEF M!handle_nested_init
  <1> QED BY <1>1, <1>3, <1>4, <1>5, <1>7, <1>8, <1>9, <1>10, <1>11 DEF M!Next, M!Step

-----------------------------------------------------------------------------
(* The invariant is inductive *)

LEMMA InitInv ==
    ASSUME Init
    PROVE  HsmInv
  <1>1. CASE engine = "QHsm" /\ H!Init
    BY <1>1 DEF H!Init, HsmInv, HsmType, StatesTop, ActiveBranch, LastChildInv, HistoryIsLastActive
  <1>2. CASE engine = "QMsm" /\ M!Init
    BY <1>2 DEF M!Init, HsmInv, HsmType, StatesTop, ActiveBranch, LastChildInv, HistoryIsLastActive
  <1> QED BY <1>1, <1>2 DEF Init

(* The next state to be entered is a child of the innermost active one, *)
(* not active itself, and the rest leads on from it.                    *)
LEMMA LeadsStep ==
    ASSUME NEW h \in Hierarchies, NEW e, NEW b, NEW t, Leads(h, e, b, t), e # <<>>
    PROVE  /\ Head(e) \in States /\ h[Head(e)] = b
           /\ Leads(h, Tail(e), Head(e), t)
           /\ Head(e) \notin Up(h, b)
           /\ Up(h, Head(e)) = Up(h, b) \cup {Head(e)}
           /\ \A y \in Up(h, b) : h[y] # b
           /\ b = Top \/ b \in Up(h, b)
           /\ Tail(e) # e
  <1>1. /\ e \in Seq(States) /\ b \in StatesTop /\ t \in States
        /\ h[e[1]] = b /\ e[Len(e)] = t
        /\ \A i \in 1..Len(e) - 1 : h[e[i + 1]] = e[i]
    BY DEF Leads
  <1>2. PICK f : f = Tail(e)
    OBVIOUS
  <1>3. /\ Head(e) = e[1] /\ Head(e) \in States
        /\ f \in Seq(States) /\ Len(f) = Len(e) - 1
        /\ \A i \in 1..Len(f) : f[i] = e[i + 1]
        /\ Len(e) \in Nat /\ Len(f) \in Nat /\ Len(e) # 0
    BY <1>1, <1>2, HeadTailProperties, LenProperties, EmptySeq
  <1>4. Leads(h, f, Head(e), t)
    <2>1. CASE f = <<>>
      <3>1. Len(e) = 1
        BY <1>3, <2>1
      <3>2. Head(e) = t
        BY <1>1, <1>3, <3>1
      <3> QED BY <1>1, <1>3, <2>1, <3>2 DEF Leads, StatesTop
    <2>2. CASE f # <<>>
      <3>1. Len(f) # 0
        BY <1>3, <2>2, EmptySeq
      <3>2. 1 \in 1..Len(f) /\ Len(f) \in 1..Len(f) /\ Len(f) + 1 = Len(e) /\ 1 \in 1..Len(e) - 1
        BY <1>3, <3>1
      <3>3. f[Len(f)] = t
        BY <1>1, <1>3, <3>2
      <3>4. h[f[1]] = e[1]
        <4>1. f[1] = e[1 + 1] /\ h[e[1 + 1]] = e[1]
          BY <1>1, <1>3, <3>2
        <4> QED BY <4>1
      <3>5. ASSUME NEW i \in 1..Len(f) - 1 PROVE h[f[i + 1]] = f[i]
        <4>1. PICK j : j = i + 1
          OBVIOUS
        <4>2. i \in 1..Len(f) /\ j \in 1..Len(f) /\ j \in 1..Len(e) - 1
          BY <4>1, <1>3
        <4>3. f[i] = e[j] /\ f[j] = e[j + 1] /\ h[e[j + 1]] = e[j]
          BY <4>1, <4>2, <1>1, <1>3
        <4> QED BY <4>1, <4>3
      <3> QED BY <1>1, <1>3, <2>2, <3>3, <3>4, <3>5 DEF Leads, StatesTop
    <2> QED BY <2>1, <2>2
  <1>5. Head(e) \notin Up(h, b) /\ Up(h, Head(e)) = Up(h, b) \cup {Head(e)}
    BY <1>1, <1>3, UpStep, UpProper
  <1>6. ASSUME NEW y \in Up(h, b), h[y] = b PROVE FALSE
    <2>1. y \in States
      BY <1>1, <1>6, UpTrans
    <2> QED BY <1>6, <2>1, UpProper
  <1>7. b = Top \/ b \in Up(h, b)
    BY <1>1, UpClosed
  <1>8. f # e
    BY <1>3
  <1> QED BY <1>1, <1>2, <1>3, <1>4, <1>5, <1>6, <1>7, <1>8

(* A transition keeps nothing that is not above its source. *)
LEMMA MeetAbove ==
    ASSUME NEW h \in Hierarchies, NEW e, NEW x \in States, NEW src \in Up(h, x), NEW t
    PROVE  src \in States /\ Meet(e, h, src, t) \subseteq Up(h, x)
  <1>1. src \in States /\ Up(h, src) \subseteq Up(h, x)
    BY UpTrans DEF StatesTop
  <1>2. Meet(e, h, src, t) \subseteq Up(h, src)
    BY <1>1, UpStep DEF Meet
  <1> QED BY <1>1, <1>2

(* The exit loop removes the innermost active state. *)
LEMMA ExitStep ==
    ASSUME NEW h \in Hierarchies, NEW x \in States
    PROVE  /\ x \in Up(h, x) /\ Up(h, x) \ {x} = Up(h, h[x])
           /\ \A y \in Up(h, x) : h[y] # x
           /\ h[x] \in StatesTop
  <1>1. Up(h, x) \ {x} = Up(h, h[x]) /\ x \in Up(h, x) /\ h[x] \in StatesTop
    BY UpStep, UpProper
  <1>2. ASSUME NEW y \in Up(h, x), h[y] = x PROVE FALSE
    <2>1. y \in States
      BY UpTrans DEF StatesTop
    <2> QED BY <1>2, <2>1, UpProper
  <1> QED BY <1>1, <1>2

LEMMA StepInv ==
    ASSUME HsmInv, EngineStep
    PROVE  HsmInv'
  <1>0. HsmType /\ ActiveBranch /\ LastChildInv /\ HistoryIsLastActive
    BY DEF HsmInv
  <1>1. CASE StepBegin
    <2>1. HsmType'
      BY <1>0, <1>1 DEF StepBegin, HsmType
    <2>2. ActiveBranch'
      <3>1. active = Up(super, Top) /\ Top \in StatesTop
        BY <1>0, <1>1, UpTop DEF StepBegin, ActiveBranch, StatesTop
      <3> QED BY <1>1, <3>1 DEF StepBegin, ActiveBranch
    <2>3. LastChildInv' /\ HistoryIsLastActive'
      BY <1>0, <1>1 DEF StepBegin, LastChildInv, HistoryIsLastActive
    <2> QED BY <2>1, <2>2, <2>3 DEF HsmInv
  <1>2. CASE StepTran
    <2>1. state \in States /\ active = Up(super, state) /\ super \in Hierarchies
      BY <1>0, <1>2 DEF StepTran, ActiveBranch, HsmType
    <2>2. HsmType'
      BY <1>0, <1>2 DEF StepTran, HsmType
    <2>3. /\ source' \in States
          /\ Meet(engine, super, source', target') \subseteq Up(super, state)
      BY <1>2, <2>1, MeetAbove DEF StepTran
    <2>4. ActiveBranch'
      BY <1>2, <2>1, <2>3 DEF StepTran, ActiveBranch
    <2>5. LastChildInv' /\ HistoryIsLastActive'
      BY <1>0, <1>2 DEF StepTran, LastChildInv, HistoryIsLastActive
    <2> QED BY <2>2, <2>4, <2>5 DEF HsmInv
  <1>3. CASE StepExit
    <2>1. /\ super \in Hierarchies /\ s \in States
          /\ source \in States /\ target \in States
          /\ active = Up(super, s)
          /\ history \in [States -> StatesTop]
      BY <1>0, <1>3 DEF StepExit, ActiveBranch, HsmType
    <2>2. /\ s \in Up(super, s) /\ Up(super, s) \ {s} = Up(super, super[s])
          /\ super[s] \in StatesTop
      BY <2>1, ExitStep
    <2>3. history' \in [States -> StatesTop]
      BY <1>3, <2>1, <2>2 DEF StepExit, StatesTop
    <2>4. HsmType'
      BY <1>0, <1>3, <2>2, <2>3 DEF StepExit, HsmType
    <2>5. ActiveBranch'
      BY <1>3, <2>1, <2>2 DEF StepExit, ActiveBranch
    <2>6. LastChildInv'
      BY <1>0, <1>3 DEF StepExit, LastChildInv
    <2>7. HistoryIsLastActive'
      <3>1. SUFFICES ASSUME NEW p \in States, last_child[p] # Top, last_child[p] \notin active \ {s}
                     PROVE  history'[p] = last_child[p]
        BY <1>3 DEF StepExit, HistoryIsLastActive
      <3>2. super[last_child[p]] = p /\ (super[s] # Top => last_child[super[s]] = s)
        BY <1>0, <2>1, <2>2, <3>1 DEF LastChildInv
      <3>3. CASE last_child[p] = s
        <4>1. super[s] = p /\ super[s] # Top
          BY <3>2, <3>3, HierarchyAssumption
        <4>2. history' = [history EXCEPT ![p] = s]
          BY <1>3, <4>1 DEF StepExit
        <4> QED BY <2>1, <3>3, <4>2
      <3>4. CASE last_child[p] # s
        <4>1. history[p] = last_child[p]
          BY <1>0, <3>1, <3>4 DEF HistoryIsLastActive
        <4>2. super[s] # p
          BY <3>2, <3>4, HierarchyAssumption
        <4>3. history'[p] = history[p]
          BY <1>3, <2>1, <4>2 DEF StepExit
        <4> QED BY <4>1, <4>3
      <3> QED BY <3>3, <3>4
    <2> QED BY <2>4, <2>5, <2>6, <2>7 DEF HsmInv
  <1>4. CASE StepExited
    <2>1. HsmType'
      BY <1>0, <1>4 DEF StepExited, HsmType
    <2>2. active = Up(super, s) /\ s \in StatesTop
      BY <1>0, <1>4 DEF StepExited, HsmType, ActiveBranch
    <2>3. ActiveBranch'
      BY <1>4, <2>2 DEF StepExited, ActiveBranch
    <2>4. LastChildInv' /\ HistoryIsLastActive'
      BY <1>0, <1>4 DEF StepExited, LastChildInv, HistoryIsLastActive
    <2> QED BY <2>1, <2>3, <2>4 DEF HsmInv
  <1>5. CASE StepEnter
    <2>1. PICK b \in StatesTop : active = Up(super, b) /\ Leads(super, entering, b, target)
      BY <1>0, <1>5 DEF StepEnter, ActiveBranch
    <2>2. super \in Hierarchies /\ entering # <<>> /\ last_child \in [States -> StatesTop]
      BY <1>0, <1>5 DEF StepEnter, HsmType
    <2>3. PICK x : x = Head(entering)
      OBVIOUS
    <2>4. /\ x \in States /\ super[x] = b
          /\ Leads(super, Tail(entering), x, target)
          /\ Up(super, x) = Up(super, b) \cup {x}
          /\ \A y \in Up(super, b) : super[y] # b
      BY <2>1, <2>2, <2>3, LeadsStep
    <2>5. last_child' = IF b = Top THEN last_child ELSE [last_child EXCEPT ![b] = x]
      BY <1>5, <2>3, <2>4 DEF StepEnter
    <2>6. last_child' \in [States -> StatesTop] /\ x \in StatesTop
      BY <2>2, <2>4, <2>5 DEF StatesTop
    <2>7. HsmType'
      BY <1>0, <1>5, <2>6 DEF StepEnter, HsmType
    <2>8. ActiveBranch'
      <3>1. active' = Up(super, x) /\ Leads(super, entering', x, target)
        BY <1>5, <2>1, <2>3, <2>4 DEF StepEnter
      <3> QED BY <1>5, <2>6, <3>1 DEF StepEnter, ActiveBranch
    <2>9. active' = active \cup {x} /\ active \subseteq States
      BY <1>5, <2>1, <2>2, <2>3, UpTrans DEF StepEnter
    <2>10. LastChildInv'
      <3>1. ASSUME NEW y \in active', super[y] # Top
            PROVE  last_child'[super[y]] = y
        <4>0. y \in States /\ super[y] \in States
          BY <2>2, <2>4, <2>9, <3>1, Forest DEF StatesTop
        <4>1. CASE y = x
          BY <2>2, <2>4, <2>5, <3>1, <4>0, <4>1
        <4>2. CASE y # x
          <5>1. y \in active
            BY <2>9, <3>1, <4>2
          <5>2. super[y] # b
            BY <2>1, <2>4, <5>1
          <5>3. last_child[super[y]] = y
            BY <1>0, <3>1, <5>1 DEF LastChildInv
          <5> QED BY <2>2, <2>5, <4>0, <5>2, <5>3
        <4> QED BY <4>1, <4>2
      <3>2. ASSUME NEW p \in States, last_child'[p] # Top
            PROVE  super[last_child'[p]] = p
        <4>1. CASE p = b
          <5>1. last_child'[p] = x
            BY <2>2, <2>5, <4>1, HierarchyAssumption
          <5> QED BY <2>4, <4>1, <5>1
        <4>2. CASE p # b
          <5>1. last_child'[p] = last_child[p]
            BY <2>2, <2>5, <4>2
          <5> QED BY <1>0, <3>2, <5>1 DEF LastChildInv
        <4> QED BY <4>1, <4>2
      <3>3. super' = super
        BY <1>5 DEF StepEnter
      <3> QED BY <3>1, <3>2, <3>3 DEF LastChildInv
    <2>11. HistoryIsLastActive'
      <3>1. SUFFICES ASSUME NEW p \in States, last_child'[p] # Top, last_child'[p] \notin active'
                     PROVE  history[p] = last_child'[p]
        BY <1>5 DEF StepEnter, HistoryIsLastActive
      <3>2. CASE p = b
        <4>1. last_child'[p] = x
          BY <2>2, <2>5, <3>2, HierarchyAssumption
        <4> QED BY <2>9, <3>1, <4>1
      <3>3. CASE p # b
        <4>1. last_child'[p] = last_child[p]
          BY <2>2, <2>5, <3>3
        <4> QED BY <1>0, <2>9, <3>1, <4>1 DEF HistoryIsLastActive
      <3> QED BY <3>2, <3>3
    <2> QED BY <2>7, <2>8, <2>10, <2>11 DEF HsmInv
  <1>6. CASE StepEntered
    <2>1. PICK b \in StatesTop : active = Up(super, b) /\ Leads(super, entering, b, target)
      BY <1>0, <1>6 DEF StepEntered, ActiveBranch
    <2>2. b = target /\ target \in States
      BY <1>6, <2>1 DEF StepEntered, Leads
    <2>3. HsmType'
      BY <1>0, <1>6, <2>2 DEF StepEntered, HsmType, StatesTop
    <2>4. ActiveBranch'
      BY <1>6, <2>1, <2>2 DEF StepEntered, ActiveBranch
    <2>5. LastChildInv' /\ HistoryIsLastActive'
      BY <1>0, <1>6 DEF StepEntered, LastChildInv, HistoryIsLastActive
    <2> QED BY <2>3, <2>4, <2>5 DEF HsmInv
  <1>7. CASE StepInit
    <2>1. state \in States /\ active = Up(super, state)
      BY <1>0, <1>7 DEF StepInit, ActiveBranch
    <2>2. HsmType'
      BY <1>0, <1>7 DEF StepInit, HsmType
    <2>3. ActiveBranch'
      BY <1>7, <2>1 DEF StepInit, ActiveBranch, StatesTop
    <2>4. LastChildInv' /\ HistoryIsLastActive'
      BY <1>0, <1>7 DEF StepInit, LastChildInv, HistoryIsLastActive
    <2> QED BY <2>2, <2>3, <2>4 DEF HsmInv
  <1>8. CASE StepStable
    <2>1. HsmType'
      BY <1>0, <1>8 DEF StepStable, HsmType
    <2>2. ActiveBranch'
      BY <1>0, <1>8 DEF StepStable, ActiveBranch
    <2>3. LastChildInv' /\ HistoryIsLastActive'
      BY <1>0, <1>8 DEF StepStable, LastChildInv, HistoryIsLastActive
    <2> QED BY <2>1, <2>2, <2>3 DEF HsmInv
  <1>9. CASE UNCHANGED <<vars, engine>>
    BY <1>0, <1>9 DEF vars, HsmInv, HsmType, ActiveBranch, LastChildInv, HistoryIsLastActive
  <1> QED BY <1>1, <1>2, <1>3, <1>4, <1>5, <1>6, <1>7, <1>8, <1>9 DEF EngineStep

-----------------------------------------------------------------------------
(* The theorems *)

LEMMA NextStep ==
    ASSUME HsmInv, [Next]_<<vars, engine>>
    PROVE  EngineStep
  <1>1. CASE UNCHANGED <<vars, engine>>
    BY <1>1 DEF EngineStep
  <1>2. CASE Next
    BY <1>2, HSteps, MSteps DEF Next
  <1> QED BY <1>1, <1>2

(* Whatever forest the engine runs on, the active states are at every step  *)
(* one branch of it, and the ghost of the last entered child agrees.        *)
THEOREM Invariance == Spec => []HsmInv
  <1>1. Init => HsmInv
    BY InitInv
  <1>2. HsmInv /\ [Next]_<<vars, engine>> => HsmInv'
    BY NextStep, StepInv
  <1> QED BY <1>1, <1>2, PTL DEF Spec

(* init() and dispatch() of both engines return with exactly the current    *)
(* state and its superstates entered, on every forest no deeper than        *)
(* MAX_NEST_DEPTH: the array of path_to_top never cuts a path off.          *)
THEOREM ActiveConfigurationTheorem == Spec => []ActiveConfiguration
  <1>1. HsmInv => ActiveConfiguration
    <2>1. SUFFICES ASSUME HsmInv, pc = "stable" PROVE active = AncestorsOrSelf(state)
      BY DEF ActiveConfiguration
    <2>2. state \in States /\ active = Up(super, state)
      BY <2>1 DEF HsmInv, ActiveBranch
    <2> QED BY <2>2, UpIsAncestorsOrSelf
  <1> QED BY <1>1, Invariance, PTL

(* The exit loop records history at every level it passes, so TranHist of   *)
(* any state goes back to the direct child entered last.                    *)
THEOREM HistoryTheorem == Spec => []HistoryIsLastActive
  <1>1. HsmInv => HistoryIsLastActive
    BY DEF HsmInv
  <1> QED BY <1>1, Invariance, PTL

(* Entry actions run from the outside in, exit actions from the inside out, *)
(* and every round of the two loops enters or exits a state.                *)
THEOREM EntryExitOrderTheorem == Spec => EntryExitOrder
  <1> DEFINE A == /\ \A x \in active' \ active : super[x] \in active \cup {Top}
                  /\ \A x \in active \ active' : Children(x) \cap active = {}
                  /\ pc = "enter" /\ entering' # entering => active' # active
                  /\ pc = "exit" /\ s' # s => active' # active
  <1>1. ASSUME HsmInv, EngineStep
        PROVE  A
    <2>0. HsmType /\ ActiveBranch
      BY <1>1 DEF HsmInv
    <2>1. CASE StepExit
      <3>1. super \in Hierarchies /\ s \in States /\ active = Up(super, s)
        BY <2>0, <2>1 DEF StepExit, HsmType, ActiveBranch
      <3>2. s \in active /\ \A y \in active : super[y] # s
        BY <3>1, ExitStep
      <3>3. active' = active \ {s} /\ pc = "exit"
        BY <2>1 DEF StepExit
      <3>4. active' \ active = {} /\ active \ active' = {s} /\ active' # active
        BY <3>2, <3>3
      <3>5. Children(s) \cap active = {}
        BY <3>2 DEF Children
      <3> QED BY <3>3, <3>4, <3>5
    <2>2. CASE StepEnter
      <3>1. PICK b \in StatesTop : active = Up(super, b) /\ Leads(super, entering, b, target)
        BY <2>0, <2>2 DEF StepEnter, ActiveBranch
      <3>2. super \in Hierarchies /\ entering # <<>>
        BY <2>0, <2>2 DEF StepEnter, HsmType
      <3>3. PICK x : x = Head(entering)
        OBVIOUS
      <3>4. super[x] = b /\ x \notin active /\ (b = Top \/ b \in active)
        BY <3>1, <3>2, <3>3, LeadsStep
      <3>5. active' = active \cup {x} /\ pc = "enter"
        BY <2>2, <3>3 DEF StepEnter
      <3>6. active' \ active = {x} /\ active \ active' = {} /\ active' # active
        BY <3>4, <3>5
      <3> QED BY <3>4, <3>5, <3>6
    <2>3. CASE active' = active /\ (pc # "enter" \/ entering' = entering) /\ (pc # "exit" \/ s' = s)
      BY <2>3
    <2> QED BY <1>1, <2>1, <2>2, <2>3 DEF EngineStep, StepBegin, StepTran, StepExited,
                StepEntered, StepInit, StepStable, vars
  <1>2. HsmInv /\ [Next]_<<vars, engine>> => [A]_vars
    BY <1>1, NextStep
  <1>3. [][A]_vars => EntryExitOrder
    BY PTL DEF EntryExitOrder
  <1> HIDE DEF A
  <1> QED BY <1>2, <1>3, Invariance, PTL DEF Spec

(* A transition keeps exactly what source and target share, whichever level *)
(* of the hierarchy asked for it; a self-transition leaves its source, but  *)
(* for an outermost state of QMsm.                                          *)
THEOREM ScopeTheorem == Spec => ScopeOrOutermostSelf
  <1> DEFINE A == pc = "exit" /\ pc' = "enter" =>
                    \/ active = Kept
                    \/ engine = "QMsm" /\ source = target /\ super[source] = Top
  <1>1. ASSUME HsmInv, EngineStep, pc = "exit", pc' = "enter",
               ~(engine = "QMsm" /\ source = target /\ super[source] = Top)
        PROVE  active = Kept
    <2>1. /\ super \in Hierarchies /\ source \in States /\ target \in States
          /\ active = Up(super, s)
      BY <1>1 DEF HsmInv, HsmType, ActiveBranch
    <2>2. Up(super, s) = Meet(engine, super, source, target)
      BY <1>1 DEF EngineStep, StepBegin, StepTran, StepExit, StepExited, StepEnter,
                  StepEntered, StepInit, StepStable, vars
    <2>3. AncestorsOrSelf(source) = Up(super, source) /\ AncestorsOrSelf(target) = Up(super, target)
      BY <2>1, UpIsAncestorsOrSelf
    <2>4. CASE source # target
      BY <2>1, <2>2, <2>3, <2>4 DEF Meet, Kept
    <2>5. CASE source = target
      <3>1. Up(super, source) \ {source} = Up(super, super[source])
        BY <2>1, ExitStep
      <3>2. active = Up(super, super[source])
        BY <1>1, <2>1, <2>2, <2>5 DEF Meet
      <3> QED BY <2>3, <2>5, <3>1, <3>2 DEF Kept
    <2> QED BY <2>4, <2>5
  <1>2. HsmInv /\ [Next]_<<vars, engine>> => [A]_<<vars, engine>>
    BY <1>1, NextStep
  <1>3. [][A]_<<vars, engine>> => ScopeOrOutermostSelf
    BY PTL DEF ScopeOrOutermostSelf
  <1> HIDE DEF A
  <1> QED BY <1>2, <1>3, Invariance, PTL DEF Spec
=============================================================================
