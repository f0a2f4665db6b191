---------------------------- MODULE QfPoolProofs ----------------------------
(***************************************************************************)
(* Proofs about QfPool, for any number of threads, pools and blocks, any   *)
(* sizes and margins and any width of the reference count.                 *)
(***************************************************************************)
EXTENDS QfPool, FiniteSetTheorems, TLAPS

-----------------------------------------------------------------------------
(* The inductive invariant *)

(* What the locals of a thread say about the block it works on. *)
LocalInv ==
    \A t \in Threads :
        /\ pc[t] \in {"write", "free", "rehome", "clone", "drop"} => block[t] \in Blocks
        /\ pc[t] = "clone" => refs[block[t]] > 0
        /\ pc[t] = "drop" => cur[t] > 0

(* Every owner of a block knows the pool it came from. *)
PoolIdInv ==
    \A b \in Blocks : ~Unowned(b) => pool_id[b] \in Pools /\ b \in Addr(pool_id[b])

IInv ==
    /\ TypeOK
    /\ CountIsReferences
    /\ FreeListIntact
    /\ LocalInv
    /\ PoolIdInv
    /\ NoFalseFault

-----------------------------------------------------------------------------
(* Threads and the blocks they work on *)

HoldingPCs == {"write", "free", "rehome"}

(* Thread t goes to l and to block x, the others stay where they are. *)
Moves(t, l, x) ==
    \A u \in Threads : /\ pc'[u] = IF u = t THEN l ELSE pc[u]
                       /\ block'[u] = IF u = t THEN x ELSE block[u]

(* How a move changes who drops and who holds a block. *)
LEMMA MoveSets ==
    ASSUME NEW t \in Threads, NEW l, NEW x, Moves(t, l, x), NEW b \in Blocks
    PROVE  /\ Dropping(b)' = IF l = "drop" /\ x = b THEN Dropping(b) \cup {t}
                                                    ELSE Dropping(b) \ {t}
           /\ Holding(b)' = IF l \in HoldingPCs /\ x = b THEN Holding(b) \cup {t}
                                                         ELSE Holding(b) \ {t}
  <1>1. \A u : u \in Dropping(b)' <=>
               u \in Threads /\ (IF u = t THEN l = "drop" /\ x = b ELSE u \in Dropping(b))
    BY DEF Moves, Dropping
  <1>2. \A u : u \in Holding(b)' <=>
               u \in Threads /\ (IF u = t THEN l \in HoldingPCs /\ x = b ELSE u \in Holding(b))
    BY DEF Moves, Holding, HoldingPCs
  <1>3. Dropping(b) \subseteq Threads /\ Holding(b) \subseteq Threads
    BY DEF Dropping, Holding
  <1> HIDE DEF Dropping, Holding
  <1> QED
    BY <1>1, <1>2, <1>3

LEMMA DroppingIsFinite ==
    ASSUME NEW b
    PROVE  /\ IsFiniteSet(Dropping(b))
           /\ Cardinality(Dropping(b)) \in Nat
           /\ Cardinality(Dropping(b)) = 0 <=> Dropping(b) = {}
  <1>1. Dropping(b) \subseteq Threads
    BY DEF Dropping
  <1>2. IsFiniteSet(Dropping(b))
    BY <1>1, UseAssumption, FS_Subset
  <1> QED
    BY <1>2, FS_CardinalityType, FS_EmptySet

(* A block that t neither leaves nor comes to keeps its owners. *)
LEMMA OtherBlock ==
    ASSUME NEW t \in Threads, NEW l, NEW x, Moves(t, l, x), NEW b \in Blocks,
           pc[t] \in HoldingPCs \cup {"drop"} => block[t] # b,
           l \in HoldingPCs \cup {"drop"} => x # b
    PROVE  Dropping(b)' = Dropping(b) /\ Holding(b)' = Holding(b)
  <1>1. t \notin Dropping(b) /\ t \notin Holding(b)
    BY DEF Dropping, Holding, HoldingPCs
  <1>2. ~(l = "drop" /\ x = b) /\ ~(l \in HoldingPCs /\ x = b)
    BY DEF HoldingPCs
  <1> HIDE DEF Dropping, Holding
  <1> QED
    BY <1>1, <1>2, MoveSets

(* The free lists stay as they are while the same blocks have an owner. *)
LEMMA FreeListFrame ==
    ASSUME FreeListIntact, UNCHANGED pools, \A b \in Blocks : Unowned(b)' <=> Unowned(b)
    PROVE  FreeListIntact'
  <1> SUFFICES ASSUME NEW i \in Pools
               PROVE  \E l \in [1..free_cnt'[i] -> Addr(i)] : IsFreeList(i, l)'
    BY DEF FreeListIntact
  <1>1. PICK l \in [1..free_cnt[i] -> Addr(i)] : IsFreeList(i, l)
    BY DEF FreeListIntact
  <1>2. IsFreeList(i, l)'
    BY <1>1 DEF IsFreeList, pools, Blocks
  <1> QED
    BY <1>1, <1>2 DEF pools

(* Addresses. *)
LEMMA Addresses ==
    /\ Blocks \subseteq Nat
    /\ SENTINEL \notin Blocks /\ Data \notin Blocks /\ SENTINEL # Data
    /\ \A i \in Pools : Addr(i) \subseteq Blocks
    /\ \A b \in Blocks : \E i \in Pools : b \in Addr(i)
    /\ \A i, j \in Pools, b \in Blocks : b \in Addr(i) /\ b \in Addr(j) => i = j
  <1>1. \A i \in Pools : Addr(i) \subseteq Nat
    BY PoolsAssumption DEF Addr
  <1>2. \A i \in Pools : Addr(i) \subseteq Blocks
    BY DEF Blocks
  <1>3. \A b \in Blocks : \E i \in Pools : b \in Addr(i)
    BY DEF Blocks
  <1>4. \A i, j \in Pools, b \in Blocks : b \in Addr(i) /\ b \in Addr(j) => i = j
    BY PoolsAssumption
  <1> QED
    BY <1>1, <1>2, <1>3, <1>4 DEF SENTINEL, Data

-----------------------------------------------------------------------------
(* Initial states *)

LEMMA InitInv == Init => IInv
  <1> SUFFICES ASSUME Init PROVE IInv
    OBVIOUS
  <1>1. \A b \in Blocks : Dropping(b) = {} /\ Holding(b) = {} /\ Unowned(b)
    BY DEF Init, Dropping, Holding, Unowned
  <1>2. TypeOK
    <2>1. \A i \in Pools : storage[i] \in Addr(i)
      BY PoolsAssumption DEF Addr
    <2>2. free_head \in [Pools -> Blocks \cup {SENTINEL}]
      BY <2>1, PoolsAssumption, Addresses DEF Init
    <2>3. \A b \in Blocks : next[b] \in Blocks \cup {SENTINEL}
      BY Addresses DEF Init
    <2>4. next \in [Blocks -> Blocks \cup {SENTINEL, Data}]
      BY <2>3 DEF Init
    <2>5. NoRequest \in Request
      BY PoolsAssumption DEF NoRequest, Request
    <2>6. free_cnt \in [Pools -> Nat] /\ free_min \in [Pools -> Nat]
      BY PoolsAssumption DEF Init
    <2>7. 0 \in 0..MAX_COUNT /\ 0 \in 0..NPools
      BY PoolsAssumption, UseAssumption
    <2>8. req \in [Threads -> Request]
      BY <2>5 DEF Init
    <2>9. /\ ref_count \in [Blocks -> 0..MAX_COUNT]
          /\ pool_id \in [Blocks -> 0..NPools]
          /\ boxes \in SUBSET Blocks
          /\ refs \in [Blocks -> Nat]
          /\ pc \in [Threads -> PCs]
          /\ block \in [Threads -> Blocks \cup {SENTINEL}]
          /\ cur \in [Threads -> 0..MAX_COUNT]
          /\ fault = "none"
      BY <2>7 DEF Init, PCs
    <2> QED
      BY <2>2, <2>4, <2>6, <2>8, <2>9 DEF TypeOK
  <1>3. CountIsReferences
    <2>1. \A b \in Blocks : Cardinality(Dropping(b)) = 0 /\ Holding(b) = {}
      BY <1>1, FS_EmptySet
    <2> QED
      BY <2>1 DEF Init, CountIsReferences, OneOwner
  <1>4. FreeListIntact
    <2> SUFFICES ASSUME NEW i \in Pools
                 PROVE  \E l \in [1..free_cnt[i] -> Addr(i)] : IsFreeList(i, l)
      BY DEF FreeListIntact
    <2> DEFINE n == num_blocks[i]
               l == [k \in 1..n |-> storage[i] + k - 1]
    <2>1. n \in Nat \ {0} /\ storage[i] \in Nat /\ free_cnt[i] = n
      BY PoolsAssumption DEF Init
    <2>2. l \in [1..n -> Addr(i)]
      BY <2>1 DEF Addr
    <2>3. \A k \in 1..n : next[l[k]] = IF k = n THEN SENTINEL ELSE l[k + 1]
      <3> SUFFICES ASSUME NEW k \in 1..n
                   PROVE  next[l[k]] = IF k = n THEN SENTINEL ELSE l[k + 1]
        OBVIOUS
      <3>1. l[k] \in Addr(i) /\ l[k] \in Blocks /\ l[k] = storage[i] + k - 1
        BY <2>2, Addresses
      <3>2. next[l[k]] = IF \E j \in Pools : {l[k], l[k] + 1} \subseteq Addr(j)
                           THEN l[k] + 1 ELSE SENTINEL
        BY <3>1 DEF Init
      <3>3. CASE k = n
        <4>1. l[k] + 1 \notin Addr(i)
          BY <3>1, <3>3, <2>1 DEF Addr
        <4>2. ~\E j \in Pools : {l[k], l[k] + 1} \subseteq Addr(j)
          BY <4>1, <3>1, Addresses
        <4> HIDE DEF l
        <4> QED
          BY <4>2, <3>2, <3>3
      <3>4. CASE k # n
        <4>1. k + 1 \in 1..n
          BY <3>4, <2>1
        <4>2. l[k + 1] = l[k] + 1 /\ l[k + 1] \in Addr(i)
          <5>1. l[k] = storage[i] + k - 1 /\ l[k + 1] = storage[i] + (k + 1) - 1
            BY <4>1
          <5>2. l[k + 1] \in Addr(i)
            BY <4>1, <2>2
          <5> HIDE DEF l
          <5> QED
            BY <5>1, <5>2, <2>1
        <4> HIDE DEF l
        <4>3. \E j \in Pools : {l[k], l[k] + 1} \subseteq Addr(j)
          BY <4>2, <3>1
        <4> QED
          BY <4>2, <4>3, <3>2, <3>4
      <3> QED
        BY <3>3, <3>4
    <2>4. \A k, m \in 1..n : l[k] = l[m] => k = m
      BY <2>1
    <2>5. \A b \in Addr(i) : \E k \in 1..n : l[k] = b
      <3> SUFFICES ASSUME NEW b \in Addr(i) PROVE \E k \in 1..n : l[k] = b
        OBVIOUS
      <3>1. b - storage[i] + 1 \in 1..n /\ l[b - storage[i] + 1] = b
        BY <2>1 DEF Addr
      <3> QED
        BY <3>1
    <2>6. l[1] = storage[i] /\ free_head[i] = storage[i] /\ n # 0
      BY <2>1 DEF Init
    <2> HIDE DEF l
    <2>7. IsFreeList(i, l)
      BY <2>1, <2>3, <2>4, <2>5, <2>6, <1>1, Addresses DEF IsFreeList
    <2> QED
      BY <2>1, <2>2, <2>7
  <1>5. LocalInv /\ PoolIdInv /\ NoFalseFault
    BY <1>1 DEF Init, LocalInv, PoolIdInv, NoFalseFault
  <1> QED
    BY <1>2, <1>3, <1>4, <1>5 DEF IInv

-----------------------------------------------------------------------------
(* Steps that change the owners of no block, and of one block *)

(* A step of PoolAbs, or none. *)
AbsStep == [Abs!Next]_holders

LEMMA SameOwners ==
    ASSUME IInv, UNCHANGED <<pools, handles>>,
           \A b \in Blocks : Dropping(b)' = Dropping(b) /\ Holding(b)' = Holding(b)
    PROVE  CountIsReferences' /\ FreeListIntact' /\ PoolIdInv' /\ AbsStep
  <1>1. \A b \in Blocks : Unowned(b)' <=> Unowned(b)
    BY DEF Unowned, handles
  <1>a. holders' = holders
    BY DEF holders, handles
  <1>2. FreeListIntact'
    BY <1>1, FreeListFrame DEF IInv
  <1>3. \A b \in Blocks : OneOwner(b)'
    BY DEF IInv, CountIsReferences, OneOwner, handles
  <1>4. PoolIdInv'
    BY <1>1 DEF IInv, PoolIdInv, handles
  <1> QED
    BY <1>2, <1>3, <1>4, <1>a DEF CountIsReferences, AbsStep

(* t moves, and only the owners of b change. *)
OnlyBlock(t, l, x, b) ==
    /\ Moves(t, l, x)
    /\ pc[t] \in HoldingPCs \cup {"drop"} => block[t] = b
    /\ l \in HoldingPCs \cup {"drop"} => x = b
    /\ \A c \in Blocks : c # b =>
        /\ refs'[c] = refs[c]
        /\ ref_count'[c] = ref_count[c]
        /\ pool_id'[c] = pool_id[c]
        /\ c \in boxes' <=> c \in boxes

LEMMA OneBlock ==
    ASSUME IInv, NEW t \in Threads, NEW l, NEW x, NEW b \in Blocks, OnlyBlock(t, l, x, b)
    PROVE  /\ \A c \in Blocks : c # b => (Unowned(c)' <=> Unowned(c))
           /\ OneOwner(b)' => CountIsReferences'
           /\ (~Unowned(b)' => pool_id'[b] \in Pools /\ b \in Addr(pool_id'[b])) => PoolIdInv'
  <1>1. ASSUME NEW c \in Blocks, c # b
        PROVE  /\ Unowned(c)' <=> Unowned(c)
               /\ OneOwner(c)'
               /\ ~Unowned(c)' => pool_id'[c] \in Pools /\ c \in Addr(pool_id'[c])
    <2>1. Dropping(c)' = Dropping(c) /\ Holding(c)' = Holding(c)
      <3>1. /\ Moves(t, l, x)
            /\ pc[t] \in HoldingPCs \cup {"drop"} => block[t] # c
            /\ l \in HoldingPCs \cup {"drop"} => x # c
        BY <1>1 DEF OnlyBlock
      <3> QED
        BY <3>1, OtherBlock
    <2>2. /\ refs'[c] = refs[c] /\ ref_count'[c] = ref_count[c]
          /\ pool_id'[c] = pool_id[c] /\ (c \in boxes' <=> c \in boxes)
      BY <1>1 DEF OnlyBlock
    <2>3. Unowned(c)' <=> Unowned(c)
      BY <2>1, <2>2 DEF Unowned
    <2>4. OneOwner(c)
      BY DEF IInv, CountIsReferences
    <2>5. OneOwner(c)'
      <3>1. Cardinality(Dropping(c))' = Cardinality(Dropping(c))
        BY <2>1
      <3> QED
        BY <3>1, <2>1, <2>2, <2>4 DEF OneOwner
    <2>6. ~Unowned(c) => pool_id[c] \in Pools /\ c \in Addr(pool_id[c])
      BY DEF IInv, PoolIdInv
    <2> QED
      BY <2>2, <2>3, <2>5, <2>6
  <1> QED
    BY <1>1 DEF CountIsReferences, PoolIdInv

(* Then PoolAbs sees nothing, or a block taken, shared or released. *)
LEMMA OneBlockAbs ==
    ASSUME IInv, NEW t \in Threads, NEW l, NEW x, NEW b \in Blocks, OnlyBlock(t, l, x, b),
           NEW v, NEW w, v = holders[b], w = holders'[b],
           w = v \/ (v = 0 /\ w = 1) \/ (v > 0 /\ w = v + 1) \/ (v > 0 /\ w = v - 1)
    PROVE  AbsStep
  <1>1. \A c \in Blocks : c # b => holders'[c] = holders[c]
    <2> SUFFICES ASSUME NEW c \in Blocks, c # b PROVE holders'[c] = holders[c]
      OBVIOUS
    <2>1. /\ Moves(t, l, x)
          /\ pc[t] \in HoldingPCs \cup {"drop"} => block[t] # c
          /\ l \in HoldingPCs \cup {"drop"} => x # c
          /\ refs'[c] = refs[c] /\ (c \in boxes' <=> c \in boxes)
      BY DEF OnlyBlock
    <2>2. Dropping(c)' = Dropping(c) /\ Holding(c)' = Holding(c)
      BY <2>1, OtherBlock
    <2> QED
      BY <2>1, <2>2 DEF holders
  <1>2. holders \in [Blocks -> {holders[c] : c \in Blocks}] /\ DOMAIN holders' = Blocks
    BY DEF holders
  <1>3. holders' = [c \in Blocks |-> holders'[c]]
    BY DEF holders
  <1>4. holders' = [holders EXCEPT ![b] = w]
    <2>1. \A c \in Blocks : holders'[c] = [holders EXCEPT ![b] = w][c]
      BY <1>1, <1>2
    <2> QED
      BY <1>2, <1>3, <2>1
  <1>5. \/ holders' = holders
        \/ Abs!Take(b) \/ Abs!Share(b) \/ Abs!Release(b)
    BY <1>2, <1>4 DEF Abs!Take, Abs!Share, Abs!Release
  <1> QED
    BY <1>5 DEF AbsStep, Abs!Next

(* The owners of a block that PoolAbs counts. *)
LEMMA OwnerCount ==
    ASSUME NEW b \in Blocks
    PROVE  /\ Holding(b) = {} =>
                holders[b] = (IF b \in boxes THEN 1 ELSE 0) + refs[b] + Cardinality(Dropping(b))
           /\ Dropping(b) = {} /\ (\E t : Holding(b) = {t}) =>
                holders[b] = (IF b \in boxes THEN 1 ELSE 0) + refs[b] + 1
  <1>1. holders[b] = (IF b \in boxes THEN 1 ELSE 0) + refs[b]
                        + Cardinality(Dropping(b) \cup Holding(b))
    BY DEF holders
  <1>2. Holding(b) = {} => Dropping(b) \cup Holding(b) = Dropping(b)
    OBVIOUS
  <1>3. Dropping(b) = {} => Dropping(b) \cup Holding(b) = Holding(b)
    OBVIOUS
  <1>4. (\E t : Holding(b) = {t}) => Cardinality(Holding(b)) = 1
    BY FS_Singleton
  <1> QED
    BY <1>1, <1>2, <1>3, <1>4

LEMMA OwnerCountPrime ==
    ASSUME NEW b \in Blocks
    PROVE  /\ Holding(b)' = {} =>
                holders'[b] = (IF b \in boxes' THEN 1 ELSE 0) + refs'[b]
                                + Cardinality(Dropping(b)')
           /\ Dropping(b)' = {} /\ (\E t : Holding(b)' = {t}) =>
                holders'[b] = (IF b \in boxes' THEN 1 ELSE 0) + refs'[b] + 1
  <1>1. holders'[b] = (IF b \in boxes' THEN 1 ELSE 0) + refs'[b]
                        + Cardinality(Dropping(b)' \cup Holding(b)')
    BY DEF holders
  <1>2. Holding(b)' = {} => Dropping(b)' \cup Holding(b)' = Dropping(b)'
    OBVIOUS
  <1>3. Dropping(b)' = {} => Dropping(b)' \cup Holding(b)' = Holding(b)'
    OBVIOUS
  <1>4. (\E t : Holding(b)' = {t}) => Cardinality(Holding(b)') = 1
    BY FS_Singleton
  <1> QED
    BY <1>1, <1>2, <1>3, <1>4

(* What a thread that is about to free or write its block knows. *)
LEMMA Held ==
    ASSUME IInv, NEW t \in Threads, pc[t] \in HoldingPCs
    PROVE  /\ block[t] \in Blocks
           /\ Holding(block[t]) = {t} /\ Dropping(block[t]) = {}
           /\ refs[block[t]] = 0 /\ ref_count[block[t]] = 0
           /\ block[t] \notin boxes /\ ~Unowned(block[t])
           /\ pool_id[block[t]] \in Pools /\ block[t] \in Addr(pool_id[block[t]])
  <1> DEFINE b == block[t]
  <1>1. b \in Blocks /\ t \in Holding(b)
    BY DEF IInv, LocalInv, HoldingPCs, Holding
  <1>2. OneOwner(b)
    BY <1>1 DEF IInv, CountIsReferences
  <1>3. ref_count[b] = 0 /\ b \notin boxes /\ Holding(b) = {t}
    BY <1>1, <1>2 DEF OneOwner
  <1>4. refs[b] \in Nat /\ ref_count[b] = refs[b] + Cardinality(Dropping(b))
    BY <1>1, <1>2 DEF OneOwner, IInv, TypeOK
  <1>5. refs[b] = 0 /\ Dropping(b) = {}
    BY <1>3, <1>4, DroppingIsFinite
  <1>6. ~Unowned(b)
    BY <1>3 DEF Unowned
  <1> QED
    BY <1>1, <1>3, <1>5, <1>6 DEF IInv, PoolIdInv

-----------------------------------------------------------------------------
(* Allocation *)

LEMMA AskType ==
    ASSUME TypeOK, NEW t \in Threads, NEW size \in Sizes, NEW margin \in Margins \cup {0},
           NEW then \in {"box", "arc", "try_arc"}, Ask(t, size, margin, then)
    PROVE  req' \in [Threads -> Request]
  <1>1. [size |-> size, margin |-> margin, i |-> 1, then |-> then] \in Request
    BY PoolsAssumption DEF Request
  <1> QED
    BY <1>1 DEF Ask, TypeOK

LEMMA ReturnType ==
    ASSUME TypeOK, NEW t \in Threads, Return(t)
    PROVE  /\ pc' \in [Threads -> PCs]
           /\ block' \in [Threads -> Blocks \cup {SENTINEL}]
           /\ cur' \in [Threads -> 0..MAX_COUNT]
           /\ req' \in [Threads -> Request]
           /\ Moves(t, "idle", SENTINEL)
           /\ \A u \in Threads : u # t => cur'[u] = cur[u]
  <1>1. NoRequest \in Request
    BY PoolsAssumption DEF NoRequest, Request
  <1>2. "idle" \in PCs /\ 0 \in 0..MAX_COUNT
    BY UseAssumption DEF PCs
  <1> QED
    BY <1>1, <1>2 DEF Return, GoTo, TypeOK, Moves

(* The allocation begins, goes on to the next pool, or answers None. *)
LEMMA AllocQuietInv ==
    ASSUME IInv, NEW t \in Threads,
           q_new_x(t) \/ from_value(t) \/ alloc_skip(t) \/ alloc_none(t)
    PROVE  IInv' /\ AbsStep
  <1> USE DEF IInv
  <1>1. CASE q_new_x(t) \/ from_value(t)
    <2>1. /\ pc[t] = "idle" /\ pc' = [pc EXCEPT ![t] = "alloc"]
          /\ UNCHANGED <<pools, handles, block, cur, fault>>
      BY <1>1 DEF q_new_x, from_value, At, GoTo
    <2>2. req' \in [Threads -> Request]
      BY <1>1, AskType DEF q_new_x, from_value
    <2>3. Moves(t, "alloc", block[t])
      BY <2>1 DEF Moves, TypeOK
    <2>4. \A b \in Blocks : Dropping(b)' = Dropping(b) /\ Holding(b)' = Holding(b)
      BY <2>1, <2>3, OtherBlock DEF HoldingPCs
    <2>5. TypeOK'
      BY <2>1, <2>2 DEF TypeOK, PCs, pools, handles
    <2>6. LocalInv' /\ NoFalseFault'
      BY <2>1, <2>3 DEF LocalInv, NoFalseFault, handles, Moves
    <2> QED
      BY <2>1, <2>4, <2>5, <2>6, SameOwners
  <1>2. CASE alloc_skip(t)
    <2>1. /\ UNCHANGED <<pools, handles, pc, block, cur, fault>>
          /\ req' = [req EXCEPT ![t].i = @ + 1] /\ req[t].i \in Pools
      BY <1>2 DEF alloc_skip
    <2>2. req' \in [Threads -> Request]
      <3>1. req[t] \in Request /\ req[t].i + 1 \in 1..NPools + 1
        BY <2>1, PoolsAssumption DEF TypeOK, Pools
      <3>2. [req[t] EXCEPT !.i = @ + 1] \in Request
        BY <3>1 DEF Request
      <3> QED
        BY <2>1, <3>2 DEF TypeOK
    <2>3. TypeOK'
      BY <2>1, <2>2 DEF TypeOK, pools, handles
    <2>4. \A b \in Blocks : Dropping(b)' = Dropping(b) /\ Holding(b)' = Holding(b)
      BY <2>1 DEF Dropping, Holding
    <2>5. LocalInv' /\ NoFalseFault'
      BY <2>1 DEF LocalInv, NoFalseFault, handles
    <2> QED
      BY <2>1, <2>3, <2>4, <2>5, SameOwners
  <1>3. CASE alloc_none(t) /\ fault' = "exhausted" /\ UNCHANGED threads
    <2>1. UNCHANGED <<pools, handles>>
      BY <1>3 DEF alloc_none
    <2>2. \A b \in Blocks : Dropping(b)' = Dropping(b) /\ Holding(b)' = Holding(b)
      BY <1>3 DEF Dropping, Holding, threads
    <2>3. TypeOK' /\ LocalInv' /\ NoFalseFault'
      BY <1>3, <2>1 DEF TypeOK, LocalInv, NoFalseFault, pools, handles, threads
    <2> QED
      BY <2>1, <2>2, <2>3, SameOwners
  <1>4. CASE alloc_none(t) /\ Return(t) /\ UNCHANGED fault
    <2>1. UNCHANGED <<pools, handles>> /\ pc[t] = "alloc"
      BY <1>4 DEF alloc_none, At
    <2>2. \A b \in Blocks : Dropping(b)' = Dropping(b) /\ Holding(b)' = Holding(b)
      BY <1>4, <2>1, ReturnType, OtherBlock DEF HoldingPCs
    <2>3. TypeOK'
      BY <1>4, <2>1, ReturnType DEF TypeOK, pools, handles
    <2>4. LocalInv' /\ NoFalseFault'
      BY <1>4, <2>1, ReturnType DEF LocalInv, NoFalseFault, handles, Moves
    <2> QED
      BY <2>1, <2>2, <2>3, <2>4, SameOwners
  <1> QED
    BY <1>1, <1>2, <1>3, <1>4 DEF alloc_none

(* The lists of the other pools do not notice what happens to a block b of  *)
(* pool i.                                                                  *)
OtherPools(i, b) ==
    /\ \A j \in Pools : j # i => free_head'[j] = free_head[j] /\ free_cnt'[j] = free_cnt[j]
    /\ \A c \in Blocks : c # b => next'[c] = next[c] /\ (Unowned(c)' <=> Unowned(c))

LEMMA OtherFreeList ==
    ASSUME FreeListIntact, NEW i \in Pools, NEW b \in Addr(i), OtherPools(i, b),
           NEW j \in Pools, j # i
    PROVE  \E l \in [1..free_cnt'[j] -> Addr(j)] : IsFreeList(j, l)'
  <1>1. PICK l \in [1..free_cnt[j] -> Addr(j)] : IsFreeList(j, l)
    BY DEF FreeListIntact
  <1>2. \A c \in Addr(j) : c \in Blocks /\ c # b
    BY Addresses
  <1>3. /\ free_head'[j] = free_head[j] /\ free_cnt'[j] = free_cnt[j]
        /\ \A c \in Addr(j) : next'[c] = next[c] /\ (Unowned(c)' <=> Unowned(c))
    BY <1>2 DEF OtherPools
  <1>4. \A k \in 1..free_cnt[j] : l[k] \in Addr(j)
    BY <1>1
  <1>5. IsFreeList(j, l)'
    BY <1>1, <1>3, <1>4 DEF IsFreeList
  <1> QED
    BY <1>1, <1>3, <1>5

(* The head of a list that is not empty belongs to nobody. *)
LEMMA HeadOfList ==
    ASSUME IInv, NEW i \in Pools, free_cnt[i] # 0
    PROVE  /\ free_head[i] \in Addr(i) /\ Unowned(free_head[i])
           /\ next[free_head[i]] \in Addr(i) \cup {SENTINEL}
  <1>1. PICK l \in [1..free_cnt[i] -> Addr(i)] : IsFreeList(i, l)
    BY DEF IInv, FreeListIntact
  <1>2. free_cnt[i] \in Nat /\ 1 \in 1..free_cnt[i]
    BY DEF IInv, TypeOK
  <1>3. free_head[i] = l[1] /\ l[1] \in Addr(i) /\ Unowned(l[1])
    BY <1>1, <1>2 DEF IsFreeList
  <1>4. next[l[1]] = IF 1 = free_cnt[i] THEN SENTINEL ELSE l[2]
    BY <1>1, <1>2 DEF IsFreeList
  <1>5. 1 # free_cnt[i] => l[2] \in Addr(i)
    BY <1>1, <1>2
  <1> QED
    BY <1>3, <1>4, <1>5

(* Unlinking the head of the free list. *)
LEMMA UnlinkHead ==
    ASSUME IInv, NEW i \in Pools, free_cnt[i] # 0, NEW b, b = free_head[i],
           OtherPools(i, b), ~Unowned(b)',
           free_head'[i] = next[b], free_cnt'[i] = free_cnt[i] - 1
    PROVE  FreeListIntact'
  <1>1. PICK l \in [1..free_cnt[i] -> Addr(i)] : IsFreeList(i, l)
    BY DEF IInv, FreeListIntact
  <1>n. PICK n \in Nat : n = free_cnt[i]
    BY DEF IInv, TypeOK
  <1> DEFINE rest == [k \in 1..n - 1 |-> l[k + 1]]
  <1>2. n \in Nat /\ n # 0 /\ 1 \in 1..n /\ free_cnt'[i] = n - 1
    BY <1>n
  <1>l. /\ l \in [1..n -> Addr(i)]
        /\ \A k, m \in 1..n : l[k] = l[m] => k = m
        /\ b = l[1]
        /\ \A k \in 1..n : next[l[k]] = IF k = n THEN SENTINEL ELSE l[k + 1]
        /\ \A c \in Addr(i) : Unowned(c) <=> \E k \in 1..n : l[k] = c
    <2>1. free_cnt[i] = n /\ n # 0
      BY <1>n
    <2>2. free_head[i] = IF n = 0 THEN SENTINEL ELSE l[1]
      BY <1>1, <2>1 DEF IsFreeList
    <2> QED
      BY <1>1, <2>1, <2>2 DEF IsFreeList
  <1>t. l \in [1..n -> Addr(i)] /\ b = l[1]
    BY <1>l
  <1>i. \A k, m \in 1..n : l[k] = l[m] => k = m
    BY <1>l
  <1>3. b = l[1] /\ b \in Addr(i)
    BY <1>t, <1>2
  <1>4. rest \in [1..n - 1 -> Addr(i)]
    <2>1. \A k \in 1..n - 1 : k + 1 \in 1..n
      OBVIOUS
    <2>2. \A k \in 1..n - 1 : l[k + 1] \in Addr(i)
      BY <2>1, <1>t
    <2> QED
      BY <2>2
  <1>5. \A k \in 1..n - 1 : /\ rest[k] = l[k + 1] /\ k + 1 \in 1..n
                            /\ rest[k] # b /\ rest[k] \in Addr(i) /\ rest[k] \in Blocks
    <2> SUFFICES ASSUME NEW k \in 1..n - 1
                 PROVE  /\ rest[k] = l[k + 1] /\ k + 1 \in 1..n
                        /\ rest[k] # b /\ rest[k] \in Addr(i) /\ rest[k] \in Blocks
      OBVIOUS
    <2>1. rest[k] = l[k + 1] /\ k + 1 \in 1..n /\ k + 1 # 1
      BY <1>2
    <2> HIDE DEF rest
    <2> QED
      BY <2>1, <1>t, <1>i, <1>2, Addresses
  <1>6. free_head'[i] = IF n - 1 = 0 THEN SENTINEL ELSE rest[1]
    <2>1. next[l[1]] = IF 1 = n THEN SENTINEL ELSE l[2]
      BY <1>l, <1>2
    <2>2. n - 1 # 0 => rest[1] = l[2]
      BY <1>2
    <2> QED
      BY <1>2, <1>3, <2>1, <2>2
  <1>7. \A k \in 1..n - 1 : next'[rest[k]] = IF k = n - 1 THEN SENTINEL ELSE rest[k + 1]
    <2> SUFFICES ASSUME NEW k \in 1..n - 1
                 PROVE  next'[rest[k]] = IF k = n - 1 THEN SENTINEL ELSE rest[k + 1]
      OBVIOUS
    <2>1. next'[rest[k]] = next[l[k + 1]]
      BY <1>5 DEF OtherPools
    <2>2. next[l[k + 1]] = IF k + 1 = n THEN SENTINEL ELSE l[k + 1 + 1]
      BY <1>l, <1>5
    <2>3. k # n - 1 => rest[k + 1] = l[k + 1 + 1]
      BY <1>2
    <2> QED
      BY <1>2, <2>1, <2>2, <2>3
  <1>8. \A k, m \in 1..n - 1 : rest[k] = rest[m] => k = m
    BY <1>l, <1>2, <1>5
  <1>9. \A c \in Addr(i) : Unowned(c)' <=> \E k \in 1..n - 1 : rest[k] = c
    <2> SUFFICES ASSUME NEW c \in Addr(i)
                 PROVE  Unowned(c)' <=> \E k \in 1..n - 1 : rest[k] = c
      OBVIOUS
    <2>1. CASE c = b
      BY <2>1, <1>5
    <2>2. CASE c # b
      <3>1. Unowned(c)' <=> \E k \in 1..n : l[k] = c
        BY <2>2, <1>l, Addresses DEF OtherPools
      <3>2. ASSUME NEW k \in 1..n, l[k] = c PROVE \E m \in 1..n - 1 : rest[m] = c
        <4>1. k # 1
          BY <3>2, <2>2, <1>3
        <4>2. k - 1 \in 1..n - 1 /\ rest[k - 1] = l[k]
          BY <4>1, <1>2
        <4> QED
          BY <4>2, <3>2
      <3>3. (\E m \in 1..n - 1 : rest[m] = c) => \E k \in 1..n : l[k] = c
        BY <1>5
      <3> QED
        BY <3>1, <3>2, <3>3
    <2> QED
      BY <2>1, <2>2
  <1> HIDE DEF rest
  <1>10. IsFreeList(i, rest)'
    BY <1>2, <1>6, <1>7, <1>8, <1>9 DEF IsFreeList
  <1> QED
    BY <1>2, <1>3, <1>4, <1>10, OtherFreeList DEF FreeListIntact, IInv

(* Linking a block that loses its owner in front of the free list. *)
LEMMA LinkHead ==
    ASSUME IInv, NEW i \in Pools, NEW b \in Addr(i), ~Unowned(b), Unowned(b)',
           OtherPools(i, b), next'[b] = free_head[i],
           free_head'[i] = b, free_cnt'[i] = free_cnt[i] + 1
    PROVE  FreeListIntact'
  <1>1. PICK l \in [1..free_cnt[i] -> Addr(i)] : IsFreeList(i, l)
    BY DEF IInv, FreeListIntact
  <1>n. PICK n \in Nat : n = free_cnt[i]
    BY DEF IInv, TypeOK
  <1>t. l \in [1..n -> Addr(i)]
    BY <1>1, <1>n
  <1>h. free_head[i] = IF n = 0 THEN SENTINEL ELSE l[1]
    BY <1>1, <1>n DEF IsFreeList
  <1>i. \A k, m \in 1..n : l[k] = l[m] => k = m
    BY <1>1, <1>n DEF IsFreeList
  <1>x. \A k \in 1..n : next[l[k]] = IF k = n THEN SENTINEL ELSE l[k + 1]
    BY <1>1, <1>n DEF IsFreeList
  <1>u. \A c \in Addr(i) : Unowned(c) <=> \E k \in 1..n : l[k] = c
    BY <1>1, <1>n DEF IsFreeList
  <1> DEFINE more == [k \in 1..n + 1 |-> IF k = 1 THEN b ELSE l[k - 1]]
  <1>2. free_cnt'[i] = n + 1 /\ 1 \in 1..n + 1 /\ n + 1 # 0
    BY <1>n
  <1>3. \A k \in 1..n + 1 : k # 1 => k - 1 \in 1..n
    OBVIOUS
  <1>4. /\ more[1] = b
        /\ \A k \in 1..n + 1 : k # 1 => more[k] = l[k - 1] /\ l[k - 1] \in Addr(i)
    BY <1>2, <1>3, <1>t
  <1>5. more \in [1..n + 1 -> Addr(i)]
    <2>1. \A k \in 1..n + 1 : (IF k = 1 THEN b ELSE l[k - 1]) \in Addr(i)
      BY <1>3, <1>t
    <2> QED
      BY <2>1
  <1>6. \A k \in 1..n : l[k] # b /\ l[k] \in Blocks
    BY <1>t, <1>u, Addresses
  <1>7. \A k \in 1..n : k + 1 \in 1..n + 1 /\ more[k + 1] = l[k]
    OBVIOUS
  <1> HIDE DEF more
  <1>8. \A k, m \in 1..n + 1 : more[k] = more[m] => k = m
    BY <1>3, <1>4, <1>6, <1>i
  <1>9. \A k \in 1..n + 1 : next'[more[k]] = IF k = n + 1 THEN SENTINEL ELSE more[k + 1]
    <2> SUFFICES ASSUME NEW k \in 1..n + 1
                 PROVE  next'[more[k]] = IF k = n + 1 THEN SENTINEL ELSE more[k + 1]
      OBVIOUS
    <2>1. CASE k = 1
      <3>1. n # 0 => more[2] = l[1]
        BY <1>7
      <3>2. next'[more[1]] = IF n = 0 THEN SENTINEL ELSE l[1]
        BY <1>4, <1>h
      <3> QED
        BY <2>1, <3>1, <3>2
    <2>2. CASE k # 1
      <3>1. k - 1 \in 1..n /\ more[k] = l[k - 1] /\ more[k] \in Blocks /\ more[k] # b
        BY <2>2, <1>3, <1>4, <1>6
      <3>2. next'[more[k]] = IF k - 1 = n THEN SENTINEL ELSE l[k - 1 + 1]
        BY <3>1, <1>x DEF OtherPools
      <3>3. k # n + 1 => k \in 1..n
        OBVIOUS
      <3>4. k # n + 1 => more[k + 1] = l[k - 1 + 1]
        BY <3>3, <1>7
      <3> QED
        BY <3>2, <3>4
    <2> QED
      BY <2>1, <2>2
  <1>10. \A c \in Addr(i) : Unowned(c)' <=> \E k \in 1..n + 1 : more[k] = c
    <2> SUFFICES ASSUME NEW c \in Addr(i)
                 PROVE  Unowned(c)' <=> \E k \in 1..n + 1 : more[k] = c
      OBVIOUS
    <2>1. CASE c = b
      BY <2>1, <1>2, <1>4
    <2>2. CASE c # b
      <3>1. Unowned(c)' <=> Unowned(c)
        BY <2>2, Addresses DEF OtherPools
      <3>2. Unowned(c) <=> \E k \in 1..n : l[k] = c
        BY <1>u
      <3>3. (\E k \in 1..n : l[k] = c) => \E k \in 1..n + 1 : more[k] = c
        BY <1>7
      <3>4. (\E k \in 1..n + 1 : more[k] = c) => \E k \in 1..n : l[k] = c
        BY <2>2, <1>3, <1>4
      <3> QED
        BY <3>1, <3>2, <3>3, <3>4
    <2> QED
      BY <2>1, <2>2
  <1>11. free_head'[i] = IF n + 1 = 0 THEN SENTINEL ELSE more[1]
    BY <1>2, <1>4
  <1>12. IsFreeList(i, more)'
    BY <1>2, <1>8, <1>9, <1>10, <1>11 DEF IsFreeList
  <1> QED
    BY <1>2, <1>5, <1>12, OtherFreeList DEF FreeListIntact, IInv

(* Taking a block: its owner is now t. *)
LEMMA AllocGetInv ==
    ASSUME IInv, NEW t \in Threads, alloc_get(t)
    PROVE  IInv' /\ AbsStep
  <1> USE DEF IInv
  <1>0. PICK i \in Pools : i = req[t].i
    BY DEF alloc_get
  <1>1. free_cnt[i] # 0 /\ free_cnt[i] \in Nat /\ free_min[i] \in Nat
    BY <1>0 DEF alloc_get, refuses, TypeOK
  <1>2. PICK b \in Blocks : b = free_head[i]
    BY <1>1, HeadOfList, Addresses
  <1>3. /\ b \in Addr(i) /\ Unowned(b) /\ next[b] \in Blocks \cup {SENTINEL}
        /\ next[b] # Data
    BY <1>1, <1>2, HeadOfList, Addresses
  <1>4. /\ pc[t] = "alloc"
        /\ free_head' = [free_head EXCEPT ![i] = next[b]]
        /\ free_cnt' = [free_cnt EXCEPT ![i] = free_cnt[i] - 1]
        /\ free_min' = [free_min EXCEPT ![i] =
                            IF free_cnt[i] - 1 < @ THEN free_cnt[i] - 1 ELSE @]
        /\ next' = [next EXCEPT ![b] = Data]
        /\ pool_id' = [pool_id EXCEPT ![b] = i]
        /\ block' = [block EXCEPT ![t] = b]
        /\ pc' = [pc EXCEPT ![t] = "write"]
        /\ UNCHANGED <<ref_count, boxes, refs, cur, req, fault>>
    BY <1>0, <1>2, <1>3 DEF alloc_get, At, GoTo
  <1>5. TypeOK'
    <2>1. /\ free_head' \in [Pools -> Blocks \cup {SENTINEL}]
          /\ next' \in [Blocks -> Blocks \cup {SENTINEL, Data}]
          /\ block' \in [Threads -> Blocks \cup {SENTINEL}]
          /\ pc' \in [Threads -> PCs]
      BY <1>3, <1>4 DEF TypeOK, PCs
    <2>2. free_cnt' \in [Pools -> Nat] /\ free_min' \in [Pools -> Nat]
      BY <1>1, <1>4 DEF TypeOK
    <2>3. pool_id' \in [Blocks -> 0..NPools]
      BY <1>4, PoolsAssumption DEF TypeOK, Pools
    <2> QED
      BY <1>4, <2>1, <2>2, <2>3 DEF TypeOK
  <1>6. OnlyBlock(t, "write", b, b)
    BY <1>4 DEF OnlyBlock, Moves, HoldingPCs, TypeOK
  <1>7. Dropping(b)' = {} /\ Holding(b)' = {t}
    <2>1. Dropping(b) = {} /\ Holding(b) = {}
      BY <1>3 DEF Unowned
    <2> QED
      BY <1>6, <2>1, MoveSets DEF OnlyBlock, HoldingPCs
  <1>8. b \notin boxes' /\ refs'[b] = 0 /\ ref_count'[b] = 0
    <2>1. Dropping(b) = {} /\ b \notin boxes /\ refs[b] = 0 /\ OneOwner(b)
      BY <1>3 DEF Unowned, CountIsReferences
    <2>2. ref_count[b] = 0
      BY <2>1, FS_EmptySet DEF OneOwner
    <2> QED
      BY <1>4, <2>1, <2>2
  <1>9. OneOwner(b)' /\ ~Unowned(b)'
    BY <1>7, <1>8, FS_EmptySet DEF OneOwner, Unowned
  <1>10. CountIsReferences'
    BY <1>6, <1>9, OneBlock
  <1>11. pool_id'[b] = i
    BY <1>4 DEF TypeOK
  <1>12. PoolIdInv'
    BY <1>3, <1>6, <1>11, OneBlock
  <1>13. FreeListIntact'
    <2>1. \A c \in Blocks : c # b => (Unowned(c)' <=> Unowned(c))
      BY <1>6, OneBlock
    <2>2. OtherPools(i, b)
      BY <1>4, <2>1 DEF OtherPools, TypeOK
    <2>3. free_head'[i] = next[b] /\ free_cnt'[i] = free_cnt[i] - 1
      BY <1>4 DEF TypeOK
    <2> QED
      BY <1>1, <1>2, <1>9, <2>2, <2>3, UnlinkHead
  <1>14. LocalInv' /\ NoFalseFault'
    BY <1>4, <1>6 DEF LocalInv, NoFalseFault, OnlyBlock, Moves
  <1>15. AbsStep
    <2>1. b \notin boxes /\ refs[b] = 0 /\ Dropping(b) = {} /\ Holding(b) = {}
      BY <1>3 DEF Unowned
    <2>2. holders[b] = 0
      BY <2>1, OwnerCount, FS_EmptySet
    <2>3. holders'[b] = 1
      BY <1>7, <1>8, OwnerCountPrime
    <2> QED
      BY <1>6, <2>2, <2>3, OneBlockAbs
  <1> QED
    BY <1>5, <1>10, <1>12, <1>13, <1>14, <1>15

(* The first handle of a new block takes it over from t. *)
LEMMA WriteInv ==
    ASSUME IInv, NEW t \in Threads, write(t)
    PROVE  IInv' /\ AbsStep
  <1> USE DEF IInv
  <1>1. pc[t] = "write" /\ Return(t) /\ UNCHANGED <<pools, pool_id, fault>>
    BY DEF write, At
  <1>2. PICK b \in Blocks : b = block[t]
    BY <1>1, Held DEF HoldingPCs
  <1>3. /\ Holding(b) = {t} /\ Dropping(b) = {} /\ refs[b] = 0 /\ ref_count[b] = 0
        /\ b \notin boxes /\ ~Unowned(b) /\ pool_id[b] \in Pools /\ b \in Addr(pool_id[b])
    BY <1>1, <1>2, Held DEF HoldingPCs
  <1>4. \/ boxes' = boxes \cup {b} /\ UNCHANGED <<ref_count, refs>>
        \/ /\ ref_count' = [ref_count EXCEPT ![b] = 1]
           /\ refs' = [refs EXCEPT ![b] = 1]
           /\ UNCHANGED boxes
    BY <1>2 DEF write
  <1>5. TypeOK'
    <2>1. 1 \in 0..MAX_COUNT
      BY UseAssumption
    <2>2. /\ boxes' \in SUBSET Blocks
          /\ ref_count' \in [Blocks -> 0..MAX_COUNT] /\ refs' \in [Blocks -> Nat]
      BY <1>4, <2>1 DEF TypeOK
    <2> QED
      BY <1>1, <2>2, ReturnType DEF TypeOK, pools
  <1>6. OnlyBlock(t, "idle", SENTINEL, b)
    <2>1. Moves(t, "idle", SENTINEL)
      BY <1>1, ReturnType
    <2>2. \A c \in Blocks : c # b =>
            /\ refs'[c] = refs[c]
            /\ ref_count'[c] = ref_count[c]
            /\ pool_id'[c] = pool_id[c]
            /\ c \in boxes' <=> c \in boxes
      BY <1>1, <1>4 DEF TypeOK
    <2> QED
      BY <1>2, <2>1, <2>2 DEF OnlyBlock, HoldingPCs
  <1>7. Dropping(b)' = {} /\ Holding(b)' = {}
    BY <1>3, <1>6, MoveSets DEF OnlyBlock, HoldingPCs
  <1>8. \/ b \in boxes' /\ refs'[b] = 0 /\ ref_count'[b] = 0
        \/ b \notin boxes' /\ refs'[b] = 1 /\ ref_count'[b] = 1
    BY <1>3, <1>4 DEF TypeOK
  <1>9. OneOwner(b)' /\ ~Unowned(b)'
    BY <1>7, <1>8, FS_EmptySet DEF OneOwner, Unowned
  <1>10. CountIsReferences'
    BY <1>6, <1>9, OneBlock
  <1>11. PoolIdInv'
    <2>1. pool_id'[b] \in Pools /\ b \in Addr(pool_id'[b])
      BY <1>1, <1>3
    <2> QED
      BY <2>1, <1>6, OneBlock
  <1>12. FreeListIntact'
    <2>1. \A c \in Blocks : Unowned(c)' <=> Unowned(c)
      BY <1>3, <1>6, <1>9, OneBlock
    <2> QED
      BY <1>1, <2>1, FreeListFrame
  <1>13. LocalInv' /\ NoFalseFault'
    <2>1. \A c \in Blocks : refs[c] > 0 => refs'[c] > 0
      BY <1>3, <1>6, <1>8 DEF OnlyBlock, TypeOK
    <2>2. Moves(t, "idle", SENTINEL) /\ \A u \in Threads : u # t => cur'[u] = cur[u]
      BY <1>1, ReturnType
    <2>3. \A u \in Threads : pc[u] = "clone" => block[u] \in Blocks
      BY DEF LocalInv
    <2> QED
      BY <1>1, <2>1, <2>2, <2>3 DEF LocalInv, NoFalseFault, Moves
  <1>14. AbsStep
    <2>1. holders[b] = 1
      BY <1>3, OwnerCount
    <2>2. holders'[b] = 1
      BY <1>7, <1>8, OwnerCountPrime, FS_EmptySet
    <2> QED
      BY <1>6, <2>1, <2>2, OneBlockAbs
  <1> QED
    BY <1>5, <1>10, <1>11, <1>12, <1>13, <1>14

-----------------------------------------------------------------------------
(* Giving up and sharing handles *)

(* The block of a box that is converted or dropped is now held by t. *)
LEMMA GiveUpBoxInv ==
    ASSUME IInv, NEW t \in Threads, NEW b \in Blocks, into_dyn(t, b) \/ drop_box(t, b)
    PROVE  IInv' /\ AbsStep
  <1> USE DEF IInv
  <1>1. PICK l \in {"free", "rehome"} : pc' = [pc EXCEPT ![t] = l]
    BY DEF into_dyn, drop_box, GoTo
  <1>2. /\ pc[t] = "idle" /\ b \in boxes /\ boxes' = boxes \ {b}
        /\ block' = [block EXCEPT ![t] = b]
        /\ UNCHANGED <<pools, ref_count, pool_id, refs, cur, fault>>
    BY DEF into_dyn, drop_box, At
  <1>3. req' \in [Threads -> Request]
    <2>1. CASE drop_box(t, b)
      BY <2>1 DEF drop_box, TypeOK
    <2>2. CASE into_dyn(t, b)
      BY <2>2, AskType DEF into_dyn
    <2> QED
      BY <2>1, <2>2
  <1>4. TypeOK'
    BY <1>1, <1>2, <1>3 DEF TypeOK, PCs, pools
  <1>5. OnlyBlock(t, l, b, b)
    BY <1>1, <1>2 DEF OnlyBlock, Moves, HoldingPCs, TypeOK
  <1>6. /\ OneOwner(b) /\ ref_count[b] = 0 /\ Holding(b) = {}
        /\ ~Unowned(b) /\ pool_id[b] \in Pools /\ b \in Addr(pool_id[b])
    BY <1>2 DEF CountIsReferences, OneOwner, Unowned, PoolIdInv
  <1>7. refs[b] = 0 /\ Dropping(b) = {}
    <2>1. refs[b] \in Nat /\ ref_count[b] = refs[b] + Cardinality(Dropping(b))
      BY <1>6 DEF OneOwner, TypeOK
    <2> QED
      BY <1>6, <2>1, DroppingIsFinite
  <1>8. Dropping(b)' = {} /\ Holding(b)' = {t}
    BY <1>5, <1>6, <1>7, MoveSets DEF OnlyBlock, HoldingPCs
  <1>9. OneOwner(b)' /\ ~Unowned(b)'
    BY <1>2, <1>6, <1>7, <1>8, FS_EmptySet DEF OneOwner, Unowned
  <1>10. CountIsReferences' /\ PoolIdInv'
    <2>1. pool_id'[b] \in Pools /\ b \in Addr(pool_id'[b])
      BY <1>2, <1>6
    <2> QED
      BY <2>1, <1>5, <1>9, OneBlock
  <1>11. FreeListIntact'
    <2>1. \A c \in Blocks : Unowned(c)' <=> Unowned(c)
      BY <1>5, <1>6, <1>9, OneBlock
    <2> QED
      BY <1>2, <2>1, FreeListFrame
  <1>12. LocalInv' /\ NoFalseFault'
    BY <1>1, <1>2, <1>5 DEF LocalInv, NoFalseFault, OnlyBlock, Moves
  <1>13. AbsStep
    <2>1. holders[b] = 1
      <3>1. Holding(b) = {} /\ b \in boxes /\ refs[b] = 0 /\ Cardinality(Dropping(b)) = 0
        BY <1>2, <1>6, <1>7, FS_EmptySet
      <3> QED
        BY <3>1, OwnerCount
    <2>2. holders'[b] = 1
      BY <1>2, <1>7, <1>8, OwnerCountPrime
    <2> QED
      BY <1>5, <2>1, <2>2, OneBlockAbs
  <1> QED
    BY <1>4, <1>10, <1>11, <1>12, <1>13

(* The block goes back to the pool it came from. *)
LEMMA FreeInv ==
    ASSUME IInv, NEW t \in Threads, free(t)
    PROVE  IInv' /\ AbsStep
  <1> USE DEF IInv
  <1>1. pc[t] \in {"free", "rehome"} /\ pc[t] \in HoldingPCs
    BY DEF free, PutInto, HoldingPCs
  <1>2. PICK b \in Blocks : b = block[t]
    BY <1>1, Held
  <1>3. PICK i \in Pools : i = pool_id[b]
    BY <1>1, <1>2, Held
  <1>4. /\ Holding(b) = {t} /\ Dropping(b) = {} /\ refs[b] = 0 /\ ref_count[b] = 0
        /\ b \notin boxes /\ ~Unowned(b) /\ b \in Addr(i)
    BY <1>1, <1>2, <1>3, Held
  <1>5. /\ next' = [next EXCEPT ![b] = free_head[i]]
        /\ free_head' = [free_head EXCEPT ![i] = b]
        /\ free_cnt' = [free_cnt EXCEPT ![i] = free_cnt[i] + 1]
        /\ pool_id' = [pool_id EXCEPT ![b] = 0]
        /\ UNCHANGED <<free_min, ref_count, boxes, refs, fault>>
    BY <1>2, <1>3 DEF free, PutInto
  <1>6. PICK l \in {"idle", "alloc"} :
            /\ Moves(t, l, SENTINEL)
            /\ pc' \in [Threads -> PCs]
            /\ block' \in [Threads -> Blocks \cup {SENTINEL}]
            /\ cur' \in [Threads -> 0..MAX_COUNT]
            /\ req' \in [Threads -> Request]
            /\ \A u \in Threads : u # t => cur'[u] = cur[u]
    <2>1. CASE pc[t] = "free"
      BY <2>1, ReturnType DEF free, PutInto
    <2>2. CASE pc[t] = "rehome"
      <3>1. /\ pc' = [pc EXCEPT ![t] = "alloc"] /\ UNCHANGED <<cur, req>>
            /\ block' = [block EXCEPT ![t] = SENTINEL]
        BY <2>2 DEF free, PutInto, GoTo
      <3> QED
        BY <3>1 DEF TypeOK, PCs, Moves
    <2> QED
      BY <1>1, <2>1, <2>2
  <1>7. TypeOK'
    <2>1. free_cnt' \in [Pools -> Nat]
      BY <1>5 DEF TypeOK
    <2>2. pool_id' \in [Blocks -> 0..NPools]
      BY <1>5, PoolsAssumption DEF TypeOK
    <2>3. /\ free_head' \in [Pools -> Blocks \cup {SENTINEL}]
          /\ next' \in [Blocks -> Blocks \cup {SENTINEL, Data}]
      BY <1>5 DEF TypeOK
    <2> QED
      BY <1>5, <1>6, <2>1, <2>2, <2>3 DEF TypeOK
  <1>8. OnlyBlock(t, l, SENTINEL, b)
    BY <1>2, <1>5, <1>6 DEF OnlyBlock, HoldingPCs, TypeOK
  <1>9. Dropping(b)' = {} /\ Holding(b)' = {}
    BY <1>4, <1>6, MoveSets DEF HoldingPCs
  <1>10. OneOwner(b)' /\ Unowned(b)'
    BY <1>4, <1>5, <1>9, FS_EmptySet DEF OneOwner, Unowned
  <1>11. CountIsReferences' /\ PoolIdInv'
    BY <1>8, <1>10, OneBlock
  <1>12. FreeListIntact'
    <2>1. \A c \in Blocks : c # b => (Unowned(c)' <=> Unowned(c))
      BY <1>8, OneBlock
    <2>2. OtherPools(i, b)
      BY <1>5, <2>1 DEF OtherPools, TypeOK
    <2>3. /\ next'[b] = free_head[i] /\ free_head'[i] = b
          /\ free_cnt'[i] = free_cnt[i] + 1
      BY <1>5 DEF TypeOK
    <2> QED
      BY <1>4, <1>10, <2>2, <2>3, LinkHead
  <1>13. LocalInv' /\ NoFalseFault'
    BY <1>5, <1>6 DEF LocalInv, NoFalseFault, Moves
  <1>14. AbsStep
    <2>1. holders[b] = 1
      BY <1>4, OwnerCount
    <2>2. holders'[b] = 0
      <3>1. b \notin boxes' /\ refs'[b] = 0
        BY <1>4, <1>5
      <3>2. Cardinality(Dropping(b)') = 0
        BY <1>9, FS_EmptySet
      <3> QED
        <4>1. holders'[b] = (IF b \in boxes' THEN 1 ELSE 0) + refs'[b]
                                + Cardinality(Dropping(b)')
          BY <1>9, OwnerCountPrime
        <4> QED
          BY <3>1, <3>2, <4>1
    <2> QED
      BY <1>8, <2>1, <2>2, OneBlockAbs
  <1> QED
    BY <1>7, <1>11, <1>12, <1>13, <1>14

(* A block with references has no other owner. *)
LEMMA Referenced ==
    ASSUME IInv, NEW b \in Blocks, refs[b] > 0 \/ Dropping(b) # {}
    PROVE  /\ ref_count[b] = refs[b] + Cardinality(Dropping(b)) /\ ref_count[b] > 0
           /\ refs[b] \in Nat /\ ref_count[b] \in 0..MAX_COUNT
           /\ Holding(b) = {} /\ b \notin boxes /\ ~Unowned(b)
           /\ pool_id[b] \in Pools /\ b \in Addr(pool_id[b])
  <1>1. OneOwner(b) /\ refs[b] \in Nat /\ ref_count[b] \in 0..MAX_COUNT
    BY DEF IInv, CountIsReferences, TypeOK
  <1>2. ref_count[b] = refs[b] + Cardinality(Dropping(b))
    BY <1>1 DEF OneOwner
  <1>3. ref_count[b] > 0
    BY <1>1, <1>2, DroppingIsFinite
  <1>4. ~Unowned(b)
    BY DEF Unowned
  <1>5. ref_count[b] # 0
    BY <1>1, <1>3, UseAssumption
  <1>6. Holding(b) = {} /\ b \notin boxes
    BY <1>1, <1>5 DEF OneOwner
  <1> QED
    BY <1>1, <1>2, <1>3, <1>4, <1>6 DEF IInv, PoolIdInv

(* A failed swap loads the count again. *)
LEMMA RetryInv ==
    ASSUME IInv, NEW t \in Threads, pc[t] \in {"clone", "drop"}, Retry(t, block[t]),
           UNCHANGED <<pools, pool_id, boxes>>
    PROVE  IInv' /\ AbsStep
  <1> USE DEF IInv
  <1>1. /\ cur' = [cur EXCEPT ![t] = ref_count[block[t]]]
        /\ UNCHANGED <<pools, handles, pc, block, req, fault>>
    BY DEF Retry, handles
  <1>2. PICK b \in Blocks : b = block[t]
    BY DEF LocalInv
  <1>3. pc[t] = "drop" => t \in Dropping(b)
    BY <1>2 DEF Dropping
  <1>4. ref_count[b] \in 0..MAX_COUNT /\ ref_count[b] > 0
    <2>1. refs[b] > 0 \/ Dropping(b) # {}
      BY <1>2, <1>3 DEF LocalInv
    <2> QED
      BY <2>1, Referenced
  <1>5. TypeOK' /\ LocalInv' /\ NoFalseFault'
    BY <1>1, <1>2, <1>4 DEF TypeOK, LocalInv, NoFalseFault, pools, handles
  <1>6. \A c \in Blocks : Dropping(c)' = Dropping(c) /\ Holding(c)' = Holding(c)
    BY <1>1 DEF Dropping, Holding
  <1> QED
    BY <1>1, <1>5, <1>6, SameOwners

LEMMA CloneInv ==
    ASSUME IInv, NEW t \in Threads, NEW b \in Blocks, clone(t, b)
    PROVE  IInv' /\ AbsStep
  <1> USE DEF IInv
  <1>1. /\ pc[t] = "idle" /\ refs[b] > 0
        /\ cur' = [cur EXCEPT ![t] = ref_count[b]]
        /\ block' = [block EXCEPT ![t] = b]
        /\ pc' = [pc EXCEPT ![t] = "clone"]
        /\ UNCHANGED <<pools, handles, req, fault>>
    BY DEF clone, At, GoTo
  <1>2. Moves(t, "clone", b)
    BY <1>1 DEF Moves, TypeOK
  <1>3. \A c \in Blocks : Dropping(c)' = Dropping(c) /\ Holding(c)' = Holding(c)
    BY <1>1, <1>2, OtherBlock DEF HoldingPCs
  <1>4. TypeOK'
    BY <1>1 DEF TypeOK, PCs, pools, handles
  <1>5. LocalInv' /\ NoFalseFault'
    BY <1>1, <1>2 DEF LocalInv, NoFalseFault, Moves, handles
  <1> QED
    BY <1>1, <1>3, <1>4, <1>5, SameOwners

LEMMA IncrementInv ==
    ASSUME IInv, NEW t \in Threads, increment(t)
    PROVE  IInv' /\ AbsStep
  <1> USE DEF IInv
  <1>1. pc[t] = "clone" /\ UNCHANGED <<pools, pool_id, boxes>>
    BY DEF increment, At
  <1>2. CASE fault' = "overflow" /\ UNCHANGED <<ref_count, refs, threads>>
    <2>1. UNCHANGED <<pools, handles, pc, block, cur, req>>
      BY <1>1, <1>2 DEF handles, threads
    <2>2. \A c \in Blocks : Dropping(c)' = Dropping(c) /\ Holding(c)' = Holding(c)
      BY <2>1 DEF Dropping, Holding
    <2>3. TypeOK' /\ LocalInv' /\ NoFalseFault'
      BY <1>2, <2>1 DEF TypeOK, LocalInv, NoFalseFault, pools, handles
    <2> QED
      BY <2>1, <2>2, <2>3, SameOwners
  <1>3. CASE cur[t] < MAX_COUNT /\ cur[t] = ref_count[block[t]] /\ Cloned(t, block[t])
    <2>1. PICK b \in Blocks : b = block[t]
      BY <1>1 DEF LocalInv
    <2>2. /\ ref_count' = [ref_count EXCEPT ![b] = ref_count[b] + 1] /\ ref_count[b] < MAX_COUNT
          /\ refs' = [refs EXCEPT ![b] = refs[b] + 1]
          /\ Return(t) /\ UNCHANGED fault
      BY <1>3, <2>1 DEF Cloned
    <2>3. refs[b] > 0
      BY <1>1, <2>1 DEF LocalInv
    <2>4. /\ ref_count[b] = refs[b] + Cardinality(Dropping(b)) /\ ref_count[b] > 0
          /\ refs[b] \in Nat /\ ref_count[b] \in 0..MAX_COUNT
          /\ Holding(b) = {} /\ b \notin boxes /\ ~Unowned(b)
          /\ pool_id[b] \in Pools /\ b \in Addr(pool_id[b])
      BY <2>3, Referenced
    <2>5. /\ ref_count'[b] = ref_count[b] + 1 /\ refs'[b] = refs[b] + 1
          /\ \A c \in Blocks : c # b => refs'[c] = refs[c] /\ ref_count'[c] = ref_count[c]
      BY <2>2 DEF TypeOK
    <2>6. TypeOK'
      <3>1. ref_count' \in [Blocks -> 0..MAX_COUNT]
        BY <2>2, <2>4, UseAssumption DEF TypeOK
      <3>2. refs' \in [Blocks -> Nat]
        BY <2>2, <2>4 DEF TypeOK
      <3> QED
        BY <1>1, <2>2, <3>1, <3>2, ReturnType DEF TypeOK, pools
    <2>7. Moves(t, "idle", SENTINEL) /\ \A u \in Threads : u # t => cur'[u] = cur[u]
      BY <2>2, ReturnType
    <2>8. OnlyBlock(t, "idle", SENTINEL, b)
      BY <1>1, <2>5, <2>7 DEF OnlyBlock, HoldingPCs
    <2>9. Dropping(b)' = Dropping(b) /\ Holding(b)' = {}
      BY <1>1, <2>4, <2>7, OtherBlock DEF HoldingPCs
    <2>10. OneOwner(b)' /\ ~Unowned(b)'
      <3>1. ref_count'[b] = refs'[b] + Cardinality(Dropping(b))
        BY <2>4, <2>5, DroppingIsFinite
      <3>2. Cardinality(Dropping(b))' = Cardinality(Dropping(b)) /\ b \notin boxes'
        BY <1>1, <2>4, <2>9
      <3>3. refs'[b] # 0
        BY <2>4, <2>5
      <3> QED
        BY <2>9, <3>1, <3>2, <3>3 DEF OneOwner, Unowned
    <2>11. CountIsReferences' /\ PoolIdInv'
      <3>1. pool_id'[b] \in Pools /\ b \in Addr(pool_id'[b])
        BY <1>1, <2>4
      <3> QED
        BY <3>1, <2>8, <2>10, OneBlock
    <2>12. FreeListIntact'
      <3>1. \A c \in Blocks : Unowned(c)' <=> Unowned(c)
        BY <2>4, <2>8, <2>10, OneBlock
      <3> QED
        BY <1>1, <3>1, FreeListFrame
    <2>13. LocalInv' /\ NoFalseFault'
      <3>1. \A c \in Blocks : refs[c] > 0 => refs'[c] > 0
        BY <2>4, <2>5
      <3>2. \A u \in Threads : pc[u] = "clone" => block[u] \in Blocks
        BY DEF LocalInv
      <3> QED
        BY <2>2, <2>7, <3>1, <3>2 DEF LocalInv, NoFalseFault, Moves
    <2>14. AbsStep
      <3>1. holders[b] = ref_count[b] /\ ref_count[b] \in Nat
        BY <2>4, OwnerCount, DroppingIsFinite
      <3>2. holders'[b] = refs[b] + 1 + Cardinality(Dropping(b)) /\ b \notin boxes'
        BY <1>1, <2>4, <2>5, <2>9, OwnerCountPrime
      <3>3. holders'[b] = ref_count[b] + 1
        BY <2>4, <3>2, DroppingIsFinite
      <3> QED
        BY <2>4, <2>8, <3>1, <3>3, OneBlockAbs
    <2> QED
      BY <2>6, <2>11, <2>12, <2>13, <2>14
  <1>4. CASE Retry(t, block[t])
    BY <1>1, <1>4, RetryInv
  <1> QED
    BY <1>2, <1>3, <1>4 DEF increment

(* A reference turns into a pending decrement. *)
LEMMA DropInv ==
    ASSUME IInv, NEW t \in Threads, NEW b \in Blocks, drop(t, b)
    PROVE  IInv' /\ AbsStep
  <1> USE DEF IInv
  <1>1. /\ pc[t] = "idle" /\ refs[b] > 0
        /\ refs' = [refs EXCEPT ![b] = refs[b] - 1]
        /\ cur' = [cur EXCEPT ![t] = ref_count[b]]
        /\ block' = [block EXCEPT ![t] = b]
        /\ pc' = [pc EXCEPT ![t] = "drop"]
        /\ UNCHANGED <<pools, ref_count, pool_id, boxes, req, fault>>
    BY DEF drop, At, GoTo
  <1>2. /\ ref_count[b] = refs[b] + Cardinality(Dropping(b)) /\ ref_count[b] > 0
        /\ refs[b] \in Nat /\ ref_count[b] \in 0..MAX_COUNT
        /\ Holding(b) = {} /\ b \notin boxes /\ ~Unowned(b)
        /\ pool_id[b] \in Pools /\ b \in Addr(pool_id[b])
    BY <1>1, Referenced
  <1>3. TypeOK'
    <2>1. refs' \in [Blocks -> Nat]
      BY <1>1, <1>2 DEF TypeOK
    <2> QED
      BY <1>1, <1>2, <2>1 DEF TypeOK, PCs, pools
  <1>4. OnlyBlock(t, "drop", b, b)
    BY <1>1 DEF OnlyBlock, Moves, HoldingPCs, TypeOK
  <1>5. Dropping(b)' = Dropping(b) \cup {t} /\ Holding(b)' = {}
    BY <1>2, <1>4, MoveSets DEF OnlyBlock, HoldingPCs
  <1>6. OneOwner(b)' /\ ~Unowned(b)' /\ AbsStep
    <2>1. t \notin Dropping(b)
      BY <1>1 DEF Dropping
    <2>2. Cardinality(Dropping(b) \cup {t}) = Cardinality(Dropping(b)) + 1
      BY <2>1, DroppingIsFinite, FS_AddElement
    <2>3. Cardinality(Dropping(b))' = Cardinality(Dropping(b)) + 1
      BY <1>5, <2>2
    <2>4. refs'[b] = refs[b] - 1 /\ ref_count'[b] = ref_count[b] /\ b \notin boxes'
      BY <1>1, <1>2 DEF TypeOK
    <2>5. ref_count'[b] = refs'[b] + Cardinality(Dropping(b))'
      BY <1>2, <2>3, <2>4, DroppingIsFinite
    <2>6. AbsStep
      <3>1. holders[b] = ref_count[b]
        BY <1>2, OwnerCount, DroppingIsFinite
      <3>2. holders'[b] = ref_count[b]
        <4>1. holders'[b] = refs'[b] + Cardinality(Dropping(b)')
          <5>1. refs'[b] \in Nat
            BY <1>3 DEF TypeOK
          <5>2. Cardinality(Dropping(b)') \in Nat
            BY <1>2, <2>3, DroppingIsFinite
          <5> QED
            <6>1. b \notin boxes' /\ Holding(b)' = {}
              BY <1>5, <2>4
            <6>2. holders'[b] = 0 + refs'[b] + Cardinality(Dropping(b)')
              BY <6>1, OwnerCountPrime
            <6> QED
              BY <5>1, <5>2, <6>2
        <4> QED
          BY <2>4, <2>5, <4>1
      <3> QED
        BY <1>4, <3>1, <3>2, OneBlockAbs
    <2> QED
      BY <1>5, <2>4, <2>5, <2>6 DEF OneOwner, Unowned
  <1>7. CountIsReferences' /\ PoolIdInv'
    <2>1. pool_id'[b] \in Pools /\ b \in Addr(pool_id'[b])
      BY <1>1, <1>2
    <2> QED
      BY <2>1, <1>4, <1>6, OneBlock
  <1>8. FreeListIntact'
    <2>1. \A c \in Blocks : Unowned(c)' <=> Unowned(c)
      BY <1>2, <1>4, <1>6, OneBlock
    <2> QED
      BY <1>1, <2>1, FreeListFrame
  <1>9. LocalInv' /\ NoFalseFault'
    <2> SUFFICES ASSUME NEW u \in Threads
                 PROVE  /\ pc'[u] \in {"write", "free", "rehome", "clone", "drop"}
                                => block'[u] \in Blocks
                        /\ pc'[u] = "clone" => refs'[block'[u]] > 0
                        /\ pc'[u] = "drop" => cur'[u] > 0
      BY <1>1 DEF LocalInv, NoFalseFault
    <2>1. CASE u = t
      BY <2>1, <1>1, <1>2 DEF TypeOK
    <2>2. CASE u # t
      <3>1. pc'[u] = pc[u] /\ block'[u] = block[u] /\ cur'[u] = cur[u]
        BY <2>2, <1>1 DEF TypeOK
      <3>2. pc[u] = "clone" => block[u] \in Blocks /\ refs[block[u]] > 0
        BY DEF LocalInv
      <3>3. pc[u] = "clone" /\ block[u] = b => refs[b] > 1
        BY DEF drop
      <3>4. pc[u] = "clone" => refs'[block[u]] > 0
        BY <1>1, <1>2, <3>2, <3>3 DEF TypeOK
      <3> QED
        BY <3>1, <3>4 DEF LocalInv
    <2> QED
      BY <2>1, <2>2
  <1> QED
    BY <1>3, <1>6, <1>7, <1>8, <1>9

(* The decrement: the block of the last reference is now held by t. *)
LEMMA DecrementInv ==
    ASSUME IInv, NEW t \in Threads, decrement(t)
    PROVE  IInv' /\ AbsStep
  <1> USE DEF IInv
  <1>1. pc[t] = "drop" /\ UNCHANGED <<pools, pool_id, boxes>> /\ cur[t] > 0 /\ cur[t] \in Nat
    BY UseAssumption DEF decrement, Decrement, At, LocalInv, TypeOK
  <1>2. CASE Retry(t, block[t])
    BY <1>1, <1>2, RetryInv
  <1>3. CASE /\ cur[t] = ref_count[block[t]]
             /\ ref_count' = [ref_count EXCEPT ![block[t]] = cur[t] - 1]
             /\ IF cur[t] = 1 THEN GoTo(t, "free") /\ UNCHANGED <<block, cur, req>>
                              ELSE Return(t)
             /\ UNCHANGED <<refs, fault>>
    <2>1. PICK b \in Blocks : b = block[t]
      BY <1>1 DEF LocalInv
    <2>2. t \in Dropping(b)
      BY <1>1, <2>1 DEF Dropping
    <2>3. /\ ref_count[b] = refs[b] + Cardinality(Dropping(b)) /\ ref_count[b] > 0
          /\ refs[b] \in Nat /\ ref_count[b] \in 0..MAX_COUNT
          /\ Holding(b) = {} /\ b \notin boxes /\ ~Unowned(b)
          /\ pool_id[b] \in Pools /\ b \in Addr(pool_id[b])
      BY <2>2, Referenced
    <2>4. PICK D : D = Dropping(b)
      OBVIOUS
    <2>5. /\ IsFiniteSet(D) /\ IsFiniteSet(D \ {t}) /\ t \in D
          /\ Cardinality(D) \in Nat /\ Cardinality(D \ {t}) = Cardinality(D) - 1
          /\ Cardinality(D \ {t}) = 0 <=> D \ {t} = {}
          /\ Cardinality(D \ {t}) \in Nat
      BY <2>2, <2>4, DroppingIsFinite, FS_RemoveElement, FS_EmptySet, FS_CardinalityType
    <2>6. /\ ref_count'[b] = ref_count[b] - 1 /\ refs'[b] = refs[b]
          /\ \A c \in Blocks : c # b => refs'[c] = refs[c] /\ ref_count'[c] = ref_count[c]
      BY <1>3, <2>1 DEF TypeOK
    <2>7. ref_count' \in [Blocks -> 0..MAX_COUNT]
      BY <1>3, <2>1, <2>3, UseAssumption DEF TypeOK
    <2>8. CASE cur[t] = 1
      <3>1. pc' = [pc EXCEPT ![t] = "free"] /\ UNCHANGED <<block, cur, req>>
        BY <1>3, <2>8 DEF GoTo
      <3>2. OnlyBlock(t, "free", b, b)
        BY <1>1, <2>1, <2>6, <3>1 DEF OnlyBlock, Moves, HoldingPCs, TypeOK
      <3>3. ref_count[b] = 1
        BY <1>3, <2>1, <2>8
      <3>4. refs[b] = 0 /\ D \ {t} = {}
        <4>1. refs[b] + Cardinality(D) = 1
          BY <2>3, <2>4, <3>3
        <4>2. refs[b] = 0 /\ Cardinality(D \ {t}) = 0
          BY <2>3, <2>5, <4>1
        <4> QED
          BY <2>5, <4>2
      <3>5. Dropping(b)' = {} /\ Holding(b)' = {t}
        BY <2>3, <2>4, <3>2, <3>4, MoveSets DEF OnlyBlock, HoldingPCs
      <3>6. OneOwner(b)' /\ ~Unowned(b)'
        BY <1>1, <2>3, <2>6, <3>3, <3>4, <3>5, FS_EmptySet DEF OneOwner, Unowned
      <3>7. CountIsReferences' /\ PoolIdInv'
        <4>1. pool_id'[b] \in Pools /\ b \in Addr(pool_id'[b])
          BY <1>1, <2>3
        <4> QED
          BY <4>1, <3>2, <3>6, OneBlock
      <3>8. FreeListIntact'
        <4>1. \A c \in Blocks : Unowned(c)' <=> Unowned(c)
          BY <2>3, <3>2, <3>6, OneBlock
        <4> QED
          BY <1>1, <4>1, FreeListFrame
      <3>9. TypeOK'
        BY <1>1, <1>3, <2>7, <3>1 DEF TypeOK, PCs, pools
      <3>10. LocalInv' /\ NoFalseFault'
        <4>1. Moves(t, "free", b) /\ refs' = refs /\ cur' = cur
          BY <1>3, <3>1, <3>2 DEF OnlyBlock
        <4> QED
          BY <1>3, <4>1 DEF LocalInv, NoFalseFault, Moves
      <3>11. AbsStep
        <4>1. holders[b] = 1
          BY <2>3, <3>3, OwnerCount, DroppingIsFinite
        <4>2. holders'[b] = 1
          <5>1. b \notin boxes' /\ refs'[b] = 0
            BY <1>1, <2>3, <2>6, <3>4
          <5> QED
            BY <3>5, <5>1, OwnerCountPrime
        <4> QED
          BY <3>2, <4>1, <4>2, OneBlockAbs
      <3> QED
        BY <3>7, <3>8, <3>9, <3>10, <3>11
    <2>9. CASE cur[t] # 1
      <3>1. Return(t)
        BY <1>3, <2>9
      <3>2. Moves(t, "idle", SENTINEL) /\ \A u \in Threads : u # t => cur'[u] = cur[u]
        BY <3>1, ReturnType
      <3>3. OnlyBlock(t, "idle", SENTINEL, b)
        BY <1>1, <2>1, <2>6, <3>2 DEF OnlyBlock, HoldingPCs
      <3>4. ref_count[b] # 1
        BY <1>3, <2>1, <2>9
      <3>5. Dropping(b)' = D \ {t} /\ Holding(b)' = {}
        BY <2>3, <2>4, <3>2, MoveSets DEF HoldingPCs
      <3>6. OneOwner(b)' /\ ~Unowned(b)'
        <4>1. ref_count'[b] = refs'[b] + Cardinality(D \ {t})
          BY <2>3, <2>4, <2>5, <2>6
        <4>2. refs[b] # 0 \/ D \ {t} # {}
          BY <2>3, <2>4, <2>5, <3>4
        <4>3. Cardinality(Dropping(b))' = Cardinality(D \ {t}) /\ b \notin boxes'
          BY <1>1, <2>3, <3>5
        <4> QED
          BY <2>6, <3>5, <4>1, <4>2, <4>3 DEF OneOwner, Unowned
      <3>7. CountIsReferences' /\ PoolIdInv'
        <4>1. pool_id'[b] \in Pools /\ b \in Addr(pool_id'[b])
          BY <1>1, <2>3
        <4> QED
          BY <4>1, <3>3, <3>6, OneBlock
      <3>8. FreeListIntact'
        <4>1. \A c \in Blocks : Unowned(c)' <=> Unowned(c)
          BY <2>3, <3>3, <3>6, OneBlock
        <4> QED
          BY <1>1, <4>1, FreeListFrame
      <3>9. TypeOK'
        BY <1>1, <1>3, <2>7, <3>1, ReturnType DEF TypeOK, pools
      <3>10. LocalInv' /\ NoFalseFault'
        BY <1>3, <3>2 DEF LocalInv, NoFalseFault, Moves
      <3>11. AbsStep
        <4>1. holders[b] = ref_count[b] /\ ref_count[b] \in Nat
          BY <2>3, OwnerCount, DroppingIsFinite
        <4>2. holders'[b] = refs[b] + Cardinality(D \ {t})
          <5>1. b \notin boxes' /\ refs'[b] = refs[b]
            BY <1>1, <2>3, <2>6
          <5>2. holders'[b] = 0 + refs[b] + Cardinality(D \ {t})
            BY <3>5, <5>1, OwnerCountPrime
          <5> QED
            BY <2>3, <2>5, <5>2
        <4>3. holders'[b] = ref_count[b] - 1
          BY <2>3, <2>4, <2>5, <4>2
        <4> QED
          BY <2>3, <3>3, <4>1, <4>3, OneBlockAbs
      <3> QED
        BY <3>7, <3>8, <3>9, <3>10, <3>11
    <2> QED
      BY <2>8, <2>9
  <1> QED
    BY <1>1, <1>2, <1>3 DEF decrement, Decrement

-----------------------------------------------------------------------------
(* The theorems *)

LEMMA NextInv == IInv /\ [Next]_vars => IInv' /\ AbsStep
  <1> SUFFICES ASSUME IInv, [Next]_vars PROVE IInv' /\ AbsStep
    OBVIOUS
  <1>1. CASE UNCHANGED vars
    <2>1. UNCHANGED <<pools, handles, threads, fault>>
      BY <1>1 DEF vars
    <2>2. \A b \in Blocks : Dropping(b)' = Dropping(b) /\ Holding(b)' = Holding(b)
      BY <2>1 DEF Dropping, Holding, threads
    <2>3. TypeOK' /\ LocalInv' /\ NoFalseFault'
      BY <2>1 DEF IInv, TypeOK, LocalInv, NoFalseFault, pools, handles, threads
    <2> QED
      BY <2>1, <2>2, <2>3, SameOwners DEF IInv
  <1>2. ASSUME NEW t \in Threads, Call(t) PROVE IInv' /\ AbsStep
    BY <1>2, AllocQuietInv, GiveUpBoxInv, CloneInv, DropInv DEF Call
  <1>3. ASSUME NEW t \in Threads, Step(t) PROVE IInv' /\ AbsStep
    BY <1>3, AllocQuietInv, AllocGetInv, WriteInv, FreeInv, IncrementInv, DecrementInv DEF Step
  <1> QED
    BY <1>1, <1>2, <1>3 DEF Next, halted

THEOREM Invariant == Spec => []IInv
  BY InitInv, NextInv, PTL DEF Spec

(* The reference count of PoolArc is the number of its handles, whatever    *)
(* clones and drops are in progress, and a block has only one kind of owner. *)
THEOREM CountsAreExact == Spec => []CountIsReferences
  <1>1. IInv => CountIsReferences
    BY DEF IInv
  <1> QED
    BY <1>1, Invariant, PTL

(* The free lists of QMPool never lose a block and never contain one that   *)
(* is in use.                                                               *)
THEOREM FreeListsAreIntact == Spec => []FreeListIntact
  <1>1. IInv => FreeListIntact
    BY DEF IInv
  <1> QED
    BY <1>1, Invariant, PTL

(* DisAtomicU16 never underflows and get never meets a broken link.         *)
THEOREM ChecksNeverFire == Spec => []NoFalseFault
  <1>1. IInv => NoFalseFault
    BY DEF IInv
  <1> QED
    BY <1>1, Invariant, PTL

(* QfPool implements PoolAbs: a block is handed out only while nobody holds *)
(* it.                                                                      *)
THEOREM Refinement == Spec => HandsOutFreeBlocks
  <1>1. Init => Abs!Init
    <2> SUFFICES ASSUME Init PROVE Abs!Init
      OBVIOUS
    <2>1. \A b \in Blocks : Dropping(b) = {} /\ Holding(b) = {}
      BY DEF Init, Dropping, Holding
    <2>2. \A b \in Blocks : holders[b] = 0
      <3> SUFFICES ASSUME NEW b \in Blocks PROVE holders[b] = 0
        OBVIOUS
      <3>1. b \notin boxes /\ refs[b] = 0
        BY DEF Init
      <3> QED
        BY <2>1, <3>1, OwnerCount, FS_EmptySet
    <2> QED
      BY <2>2 DEF holders, Abs!Init
  <1>2. IInv /\ [Next]_vars => [Abs!Next]_holders
    BY NextInv DEF AbsStep
  <1> QED
    BY <1>1, <1>2, Invariant, PTL DEF Spec, HandsOutFreeBlocks, Abs!Spec
=============================================================================
