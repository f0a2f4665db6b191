----------------------------- MODULE LinkProofs -----------------------------
(***************************************************************************)
(* The link between a target and qspy.  Test probes of a tracing session   *)
(* (QsSession.tla) are never stale, for every set of functions, every size *)
(* of the registry and every traffic on the two links.  The readers of the *)
(* two byte streams (QsWire.tla) hand on every whole frame as it was sent, *)
(* for every payload, however many bytes the line drops or changes.        *)
(***************************************************************************)
EXTENDS QsWire, QsSession, WellFoundedInduction, SequenceTheorems, TLAPS

Probe == [fn : Fns \cup {"none"}, data : Nat]
Registry == [1 .. ProbeSlots -> Probe]
Wishes == [Fns -> Nat]

\* A command on its way: a probe names a function.
Order ==
    {c \in [cmd : {"info", "reset", "tick", "test_setup", "filter_all", "filter_none", "bad", "test_probe"},
            fn : Fns \cup {"none"}, data : Nat] : c.cmd = "test_probe" => c.fn \in Fns}

\* A function has one slot at most, and that slot what was asked for last.
Unique(r) == \A i, j \in 1 .. ProbeSlots : r[i].fn = r[j].fn /\ r[i].fn # "none" => i = j
Fresh(r, w) == \A i \in 1 .. ProbeSlots : r[i].fn # "none" => r[i].data = w[r[i].fn]
Sound(r, w) == r \in Registry /\ w \in Wishes /\ Unique(r) /\ Fresh(r, w)

ProbeInv ==
    /\ Sound(slots, wanted) /\ ProbeFresh
    /\ keys \in Seq(Order) /\ orders \in Seq(Order) /\ asked \in Nat

LEMMA Slots ==
    /\ ProbeSlots \in Nat \ {0} /\ 1 \in 1 .. ProbeSlots /\ "none" \notin Fns
    /\ \A i \in 1 .. ProbeSlots : i \in Int
  BY SessionAssumption

Below == {p \in Nat \X Nat : p[1] < p[2]}

LEMMA BelowWellFounded ==
    IsWellFoundedOn(Below, Nat)
PROOF
  <1>1. Below = OpToRel(<, Nat)
    BY DEF Below, OpToRel
  <1> QED BY <1>1, NatLessThanWellFounded

\* The least slot of a non-empty set of slots, as the loop over the array finds it.
LEMMA LeastIsIn ==
    ASSUME NEW S, S \subseteq 1 .. ProbeSlots, S # {}
    PROVE  Least(S) \in S
PROOF
  <1>1. S \subseteq Nat
    BY Slots
  <1>2. \E i \in S : \A j \in S : i <= j
    <2>1. PICK i \in S : \A j \in S : <<j, i>> \notin Below
      BY <1>1, BelowWellFounded, WFMin
    <2>2. ASSUME NEW j \in S PROVE i <= j
      <3>1. i \in Nat /\ j \in Nat /\ <<j, i>> \notin Below
        BY <1>1, <2>1
      <3>2. ~(j < i)
        BY <3>1 DEF Below
      <3> QED BY <3>1, <3>2
    <2> QED BY <2>2
  <1> QED BY <1>2 DEF Least

LEMMA Cleared ==
    /\ Sound(clear, [f \in Fns |-> 0])
PROOF
  <1>1. Empty \in Probe /\ Empty.fn = "none"
    BY DEF Empty, Probe
  <1>2. clear \in Registry /\ [f \in Fns |-> 0] \in Wishes /\ \A i \in 1 .. ProbeSlots : clear[i].fn = "none"
    BY <1>1 DEF clear, Registry, Wishes
  <1> QED BY <1>2 DEF Sound, Unique, Fresh

(* ProbeRegistry::set: the slot it overwrites is the only one of the        *)
(* function, or the function has none.                                      *)
LEMMA SetSound ==
    ASSUME Sound(slots, wanted), NEW fn \in Fns, NEW d \in Nat
    PROVE  Sound(set(fn, d), [wanted EXCEPT ![fn] = d])
PROOF
  <1>1. PICK i \in 1 .. ProbeSlots :
             /\ set(fn, d) = [slots EXCEPT ![i] = [fn |-> fn, data |-> d]]
             /\ Holders(fn) # {} => i \in Holders(fn)
    <2>1. Holders(fn) \subseteq 1 .. ProbeSlots /\ Holders("none") \subseteq 1 .. ProbeSlots
      BY DEF Holders
    <2>2. CASE Holders(fn) # {}
      BY <2>1, <2>2, LeastIsIn DEF set
    <2>3. CASE Holders(fn) = {} /\ Holders("none") # {}
      BY <2>1, <2>3, LeastIsIn DEF set
    <2>4. CASE Holders(fn) = {} /\ Holders("none") = {}
      BY <2>4, Slots DEF set
    <2> QED BY <2>2, <2>3, <2>4
  <1>2. PICK r, w : r = set(fn, d) /\ w = [wanted EXCEPT ![fn] = d]
    OBVIOUS
  <1>3. slots \in Registry /\ wanted \in Wishes /\ fn # "none" /\ [fn |-> fn, data |-> d] \in Probe
    BY Slots DEF Sound, Probe
  <1>4. r \in Registry /\ r[i] = [fn |-> fn, data |-> d]
        /\ \A j \in 1 .. ProbeSlots : j # i => r[j] = slots[j]
    BY <1>1, <1>2, <1>3 DEF Registry
  <1>5. w \in Wishes /\ w[fn] = d /\ \A g \in Fns : g # fn => w[g] = wanted[g]
    BY <1>2, <1>3 DEF Wishes
  <1>6. \A j \in 1 .. ProbeSlots : j # i => slots[j].fn # fn
    BY <1>1, <1>3 DEF Holders, Sound, Unique
  <1>7. Unique(r)
    BY <1>3, <1>4, <1>6 DEF Sound, Unique
  <1>8. Fresh(r, w)
    <2>1. \A j \in 1 .. ProbeSlots : slots[j].fn # "none" => slots[j].fn \in Fns
      BY <1>3 DEF Registry, Probe
    <2> QED BY <1>4, <1>5, <1>6, <2>1 DEF Sound, Fresh
  <1> QED BY <1>2, <1>4, <1>5, <1>7, <1>8 DEF Sound

\* ProbeRegistry::take: it empties the one slot of the function.
LEMMA TakeSound ==
    ASSUME Sound(slots, wanted), NEW fn \in Fns, NEW i \in Holders(fn)
    PROVE  /\ Sound([slots EXCEPT ![i] = Empty], [wanted EXCEPT ![fn] = 0])
           /\ slots[i].data = wanted[fn]
PROOF
  <1>1. i \in 1 .. ProbeSlots /\ slots[i].fn = fn /\ fn # "none"
    BY Slots DEF Holders
  <1>2. PICK r, w : r = [slots EXCEPT ![i] = Empty] /\ w = [wanted EXCEPT ![fn] = 0]
    OBVIOUS
  <1>3. slots \in Registry /\ wanted \in Wishes /\ Empty \in Probe /\ Empty.fn = "none"
    BY DEF Sound, Probe, Empty
  <1>4. r \in Registry /\ r[i] = Empty /\ \A j \in 1 .. ProbeSlots : j # i => r[j] = slots[j]
    BY <1>1, <1>2, <1>3 DEF Registry
  <1>5. w \in Wishes /\ \A g \in Fns : g # fn => w[g] = wanted[g]
    BY <1>2, <1>3 DEF Wishes
  <1>6. \A j \in 1 .. ProbeSlots : j # i => slots[j].fn # fn
    BY <1>1 DEF Sound, Unique
  <1>7. Unique(r)
    BY <1>3, <1>4 DEF Sound, Unique
  <1>8. Fresh(r, w)
    <2>1. \A j \in 1 .. ProbeSlots : slots[j].fn # "none" => slots[j].fn \in Fns
      BY <1>3 DEF Registry, Probe
    <2> QED BY <1>3, <1>4, <1>5, <1>6, <2>1 DEF Sound, Fresh
  <1>9. slots[i].data = wanted[fn]
    BY <1>1 DEF Sound, Fresh
  <1> QED BY <1>2, <1>4, <1>5, <1>7, <1>8, <1>9 DEF Sound

LEMMA ProbeInvInit ==
    SessionInit => ProbeInv
PROOF
  <1> SUFFICES ASSUME SessionInit PROVE ProbeInv
    OBVIOUS
  <1>1. slots = clear /\ wanted = [f \in Fns |-> 0] /\ told.data = told.wanted
    BY DEF SessionInit, clear
  <1>2. keys = <<>> /\ orders = <<>> /\ asked = 0
    BY DEF SessionInit
  <1> QED BY <1>1, <1>2, Cleared DEF ProbeInv, ProbeFresh

LEMMA HandleKeeps ==
    ASSUME ProbeInv, handle_cmd
    PROVE  ProbeInv'
PROOF
  <1>1. PICK c : c = Head(orders) /\ orders # <<>> /\ orders' = Tail(orders)
    BY DEF handle_cmd
  <1>2. orders \in Seq(Order) /\ c \in Order /\ orders' \in Seq(Order)
    BY <1>1, HeadTailProperties DEF ProbeInv
  <1>3. Sound(slots', wanted')
    <2>1. CASE c.cmd = "test_setup"
      BY <1>1, <2>1, Cleared DEF handle_cmd
    <2>2. CASE c.cmd = "test_probe"
      <3>1. c.fn \in Fns /\ c.data \in Nat
        BY <1>2, <2>2 DEF Order
      <3>2. slots' = set(c.fn, c.data) /\ wanted' = [wanted EXCEPT ![c.fn] = c.data]
        BY <1>1, <2>2 DEF handle_cmd
      <3> QED BY <3>1, <3>2, SetSound DEF ProbeInv
    <2>3. CASE c.cmd # "test_setup" /\ c.cmd # "test_probe"
      BY <1>1, <2>3 DEF handle_cmd, ProbeInv
    <2> QED BY <2>1, <2>2, <2>3
  <1>4. keys' = keys /\ asked' = asked /\ told' = told
    BY DEF handle_cmd
  <1> QED BY <1>2, <1>3, <1>4 DEF ProbeInv, ProbeFresh, Sound, Unique, Fresh

LEMMA TakeKeeps ==
    ASSUME ProbeInv, NEW fn \in Fns, take(fn)
    PROVE  ProbeInv'
PROOF
  <1>1. Holders(fn) # {} /\ Holders(fn) \subseteq 1 .. ProbeSlots
    BY DEF take, Holders
  <1>2. PICK i \in Holders(fn) : i = Least(Holders(fn))
    BY <1>1, LeastIsIn
  <1>3. /\ slots' = [slots EXCEPT ![i] = Empty] /\ wanted' = [wanted EXCEPT ![fn] = 0]
        /\ told' = [data |-> slots[i].data, wanted |-> wanted[fn]]
        /\ keys' = keys /\ orders' = orders /\ asked' = asked
    BY <1>2 DEF take
  <1>4. Sound(slots', wanted') /\ slots[i].data = wanted[fn]
    BY <1>3, TakeSound DEF ProbeInv
  <1>5. ProbeFresh'
    BY <1>3, <1>4 DEF ProbeFresh
  <1> QED BY <1>3, <1>4, <1>5 DEF ProbeInv, Sound, Unique, Fresh

LEMMA AskKeeps ==
    ASSUME ProbeInv, AskCommand
    PROVE  ProbeInv'
PROOF
  <1>1. PICK c \in Commands : keys' = Append(keys, [cmd |-> c.cmd, fn |-> c.fn, data |-> asked + 1])
    BY DEF AskCommand
  <1>2. PICK o : o = [cmd |-> c.cmd, fn |-> c.fn, data |-> asked + 1]
    OBVIOUS
  <1>3. asked \in Nat /\ asked' = asked + 1 /\ asked + 1 \in Nat
    BY DEF AskCommand, ProbeInv
  <1>4. o \in Order
    BY <1>2, <1>3 DEF Commands, Order
  <1>5. keys' \in Seq(Order)
    BY <1>1, <1>2, <1>4 DEF ProbeInv
  <1>6. slots' = slots /\ wanted' = wanted /\ told' = told /\ orders' = orders
    BY DEF AskCommand
  <1> QED BY <1>3, <1>5, <1>6 DEF ProbeInv, ProbeFresh, Sound, Unique, Fresh

\* The main loop sends the commands on, or drops them.
LEMMA PollKeeps ==
    ASSUME ProbeInv, poll_commands, UNCHANGED <<slots, wanted, told, asked>>
    PROVE  ProbeInv'
PROOF
  <1>1. keys' = <<>> /\ orders' = orders \o (IF sender = "cmd" THEN keys ELSE <<>>)
    BY DEF poll_commands
  <1>2. PICK q : q = IF sender = "cmd" THEN keys ELSE <<>>
    OBVIOUS
  <1>3. q \in Seq(Order)
    BY <1>2 DEF ProbeInv
  <1>4. orders' \in Seq(Order)
    BY <1>1, <1>2, <1>3, ConcatProperties DEF ProbeInv
  <1> QED BY <1>1, <1>4 DEF ProbeInv, ProbeFresh, Sound, Unique, Fresh

\* Every other step leaves the registry and the commands alone, or loses them.
LEMMA OtherKeeps ==
    ASSUME ProbeInv, UNCHANGED <<slots, wanted, told, asked, keys>>, orders' \in {orders, <<>>}
    PROVE  ProbeInv'
PROOF
  <1>1. orders' \in Seq(Order)
    <2>1. orders \in Seq(Order) /\ <<>> \in Seq(Order)
      BY DEF ProbeInv
    <2> QED BY <2>1
  <1> QED BY <1>1 DEF ProbeInv, ProbeFresh, Sound, Unique, Fresh

LEMMA ProbeInvNext ==
    ASSUME ProbeInv, [SessionNext]_sessionVars
    PROVE  ProbeInv'
PROOF
  <1>1. CASE emit_record
    BY <1>1, OtherKeeps DEF emit_record
  <1>2. CASE handle_cmd
    BY <1>2, HandleKeeps
  <1>3. CASE \E fn \in Fns : take(fn)
    BY <1>3, TakeKeeps
  <1>4. CASE Connect
    BY <1>4, OtherKeeps DEF Connect
  <1>5. CASE LoseDatagram
    BY <1>5, OtherKeeps DEF LoseDatagram
  <1>6. CASE BreakChannel
    BY <1>6, OtherKeeps DEF BreakChannel
  <1>7. CASE AskCommand
    BY <1>7, AskKeeps
  <1>8. CASE cmd_listener
    BY <1>8, OtherKeeps DEF cmd_listener
  <1>9. CASE AcceptTelemetry
    BY <1>9, OtherKeeps DEF AcceptTelemetry
  <1>10. CASE ReadAndPoll
    BY <1>10, PollKeeps DEF ReadAndPoll
  <1>11. CASE TimeoutAndPoll
    BY <1>11, PollKeeps DEF TimeoutAndPoll
  <1>12. CASE UNCHANGED sessionVars
    BY <1>12, OtherKeeps DEF sessionVars
  <1> QED
    BY <1>1, <1>2, <1>3, <1>4, <1>5, <1>6, <1>7, <1>8, <1>9, <1>10, <1>11, <1>12 DEF SessionNext

(* A probe that ProbeRegistry::take hands to the application carries the    *)
(* data that the host set last for that function since the last setup: set  *)
(* overwrites the function's own slot before it takes a free one or evicts, *)
(* so no older value of the function is left behind in another slot,        *)
(* however many functions compete for the registry.                         *)
THEOREM ProbesAreFresh ==
    SessionSpec => []ProbeFresh
PROOF
  <1>1. ProbeInv /\ [SessionNext]_sessionVars => ProbeInv'
    BY ProbeInvNext
  <1>2. ProbeInv => ProbeFresh
    BY DEF ProbeInv
  <1> QED BY <1>1, <1>2, ProbeInvInit, PTL DEF SessionSpec

-----------------------------------------------------------------------------
(* Loops over the bytes of a frame *)

\* Induction up to n, for a set of numbers.
LEMMA UpTo ==
    ASSUME NEW n \in Nat, NEW S, S \subseteq 0..n, 0 \in S,
           \A k \in 1..n : k - 1 \in S => k \in S
    PROVE  S = 0..n
  <1> DEFINE D == (0..n) \ S
  <1>1. SUFFICES ASSUME D # {} PROVE FALSE
    BY <1>1
  <1>2. D \subseteq Nat
    OBVIOUS
  <1>3. PICK k \in D : \A m \in D : <<m, k>> \notin Below
    <2> HIDE DEF D
    <2> QED BY <1>1, <1>2, BelowWellFounded, WFMin
  <1>4. k \in 1..n /\ k - 1 \in Nat /\ k - 1 \in 0..n /\ k - 1 < k /\ k \in Nat
    BY <1>3
  <1>5. k - 1 \notin S
    BY <1>3, <1>4
  <1>6. <<k - 1, k>> \in Below
    BY <1>4 DEF Below
  <1> QED BY <1>3, <1>4, <1>5, <1>6

\* A loop that goes through a sequence with a function G has a result at every
\* place.
IsLoop(f, V, v0, G, b) ==
    /\ f \in [0..Len(b) -> V] /\ f[0] = v0
    /\ \A i \in 1..Len(b) : f[i] = G[<<f[i - 1], b[i]>>]

LEMMA LoopExists ==
    ASSUME NEW V, NEW B, NEW v0 \in V, NEW G \in [V \X B -> V], NEW b \in Seq(B)
    PROVE  \E f : IsLoop(f, V, v0, G, b)
  <1> DEFINE n == Len(b)
             Loop(f, k) == /\ f \in [0..k -> V] /\ f[0] = v0
                           /\ \A i \in 1..k : f[i] = G[<<f[i - 1], b[i]>>]
             S == {k \in 0..n : \E f : Loop(f, k)}
  <1>1. n \in Nat /\ \A i \in 1..n : b[i] \in B
    BY LenProperties, ElementOfSeq
  <1>2. 0 \in S
    <2>1. PICK f : f = [i \in 0..0 |-> v0]
      OBVIOUS
    <2>2. Loop(f, 0)
      BY <2>1
    <2>3. 0 \in 0..n
      BY <1>1
    <2> HIDE DEF Loop, n
    <2> QED BY <2>2, <2>3
  <1>3. ASSUME NEW k \in 1..n, k - 1 \in S PROVE k \in S
    <2>1. PICK f : Loop(f, k - 1)
      BY <1>3
    <2>2. k \in Nat /\ k \in 0..n /\ k - 1 \in 0..(k - 1) /\ b[k] \in B
      BY <1>1
    <2>3. PICK v : v = G[<<f[k - 1], b[k]>>]
      OBVIOUS
    <2>4. v \in V
      BY <2>1, <2>2, <2>3
    <2>5. PICK g : g = [i \in 0..k |-> IF i = k THEN v ELSE f[i]]
      OBVIOUS
    <2>6. g \in [0..k -> V]
      <3>1. ASSUME NEW i \in 0..k PROVE (IF i = k THEN v ELSE f[i]) \in V
        <4>1. CASE i = k
          BY <4>1, <2>4
        <4>2. CASE i # k
          <5>1. i \in 0..(k - 1)
            BY <4>2, <2>2
          <5> QED BY <4>2, <5>1, <2>1
        <4> QED BY <4>1, <4>2
      <3> QED BY <3>1, <2>5
    <2>7. \A i \in 0..(k - 1) : g[i] = f[i]
      BY <2>2, <2>5
    <2>8. g[0] = v0
      <3>1. 0 \in 0..(k - 1)
        BY <2>2
      <3> QED BY <3>1, <2>1, <2>7
    <2>9. ASSUME NEW i \in 1..k PROVE g[i] = G[<<g[i - 1], b[i]>>]
      <3>1. i - 1 \in 0..(k - 1) /\ i \in 0..k
        BY <2>2
      <3>2. CASE i = k
        BY <3>1, <3>2, <2>3, <2>5, <2>7
      <3>3. CASE i # k
        <4>1. i \in 1..(k - 1) /\ i \in 0..(k - 1)
          BY <2>2, <3>3
        <4> QED BY <3>1, <4>1, <2>1, <2>7
      <3> QED BY <3>2, <3>3
    <2>10. Loop(g, k)
      BY <2>6, <2>8, <2>9
    <2> QED BY <2>2, <2>10
  <1>4. S = 0..n
    <2> HIDE DEF S
    <2>1. S \subseteq 0..n
      BY DEF S
    <2> HIDE DEF n
    <2> QED BY <1>1, <1>2, <1>3, <2>1, UpTo
  <1>5. n \in S
    BY <1>1, <1>4
  <1> QED BY <1>5 DEF IsLoop

\* The running sums of SumOf.
SumLoop(b) ==
    CHOOSE f : f = [i \in 0..Len(b) |-> IF i = 0 THEN 0 ELSE (f[i - 1] + b[i]) % 256]

LEMMA SumIsLoop ==
    ASSUME NEW b
    PROVE  SumOf(b) = SumLoop(b)[Len(b)]
  BY DEF SumOf, SumLoop

LEMMA SumSteps ==
    ASSUME NEW b \in Seq(Nat)
    PROVE  /\ SumLoop(b)[0] = 0
           /\ \A i \in 1..Len(b) : SumLoop(b)[i] = (SumLoop(b)[i - 1] + b[i]) % 256
  <1> DEFINE Sol(f) == f = [i \in 0..Len(b) |-> IF i = 0 THEN 0 ELSE (f[i - 1] + b[i]) % 256]
  <1>1. Len(b) \in Nat /\ \A i \in 1..Len(b) : b[i] \in Nat
    BY LenProperties, ElementOfSeq
  <1>2. PICK G : G = [p \in Nat \X Nat |-> (p[1] + p[2]) % 256]
    OBVIOUS
  <1>3. G \in [Nat \X Nat -> Nat] /\ \A x, y \in Nat : G[<<x, y>>] = (x + y) % 256
    BY <1>2
  <1>4. PICK f \in [0..Len(b) -> Nat] :
            f[0] = 0 /\ \A i \in 1..Len(b) : f[i] = G[<<f[i - 1], b[i]>>]
    <2>1. PICK V, B, z : V = Nat /\ B = Nat /\ z = 0
      OBVIOUS
    <2>2. z \in V /\ G \in [V \X B -> V] /\ b \in Seq(B)
      BY <1>3, <2>1
    <2>3. PICK f : IsLoop(f, V, z, G, b)
      BY <2>2, LoopExists
    <2> QED BY <2>1, <2>3 DEF IsLoop
  <1>5. \A i \in 1..Len(b) : f[i] = (f[i - 1] + b[i]) % 256
    <2>1. ASSUME NEW i \in 1..Len(b) PROVE f[i] = (f[i - 1] + b[i]) % 256
      <3>1. i - 1 \in 0..Len(b) /\ b[i] \in Nat
        BY <1>1
      <3>2. f[i - 1] \in Nat
        BY <3>1, <1>4
      <3> QED BY <3>1, <3>2, <1>3, <1>4
    <2> QED BY <2>1
  <1>6. Sol(f)
    <2>1. ASSUME NEW i \in 0..Len(b)
          PROVE  f[i] = IF i = 0 THEN 0 ELSE (f[i - 1] + b[i]) % 256
      <3>1. CASE i = 0
        BY <3>1, <1>4
      <3>2. CASE i # 0
        <4>1. i \in 1..Len(b)
          BY <3>2
        <4> QED BY <3>2, <4>1, <1>5
      <3> QED BY <3>1, <3>2
    <2> QED BY <2>1, <1>4
  <1>7. SumLoop(b) = CHOOSE g : Sol(g)
    BY DEF SumLoop
  <1>8. Sol(SumLoop(b))
    <2> HIDE DEF Sol
    <2> QED BY <1>6, <1>7
  <1>9. \A i \in 0..Len(b) : SumLoop(b)[i] = IF i = 0 THEN 0 ELSE (SumLoop(b)[i - 1] + b[i]) % 256
    BY <1>8
  <1>10. SumLoop(b)[0] = 0
    <2>1. 0 \in 0..Len(b)
      BY <1>1
    <2> QED BY <2>1, <1>9
  <1>11. ASSUME NEW i \in 1..Len(b)
         PROVE  SumLoop(b)[i] = (SumLoop(b)[i - 1] + b[i]) % 256
    <2>1. i \in 0..Len(b) /\ i # 0
      BY <1>1
    <2> QED BY <2>1, <1>9
  <1> QED BY <1>10, <1>11

\* One more byte.
LEMMA SumAppend ==
    ASSUME NEW b \in Seq(Nat), NEW c \in Nat
    PROVE  /\ SumOf(b) \in 0..255
           /\ SumOf(Append(b, c)) = (SumOf(b) + c) % 256
  <1>1. PICK e : e = Append(b, c)
    OBVIOUS
  <1>2. /\ e \in Seq(Nat) /\ Len(e) = Len(b) + 1 /\ e[Len(e)] = c
        /\ \A i \in 1..Len(b) : e[i] = b[i]
        /\ Len(b) \in Nat
    BY <1>1, AppendProperties, LenProperties
  <1> DEFINE S == {i \in 0..Len(b) : SumLoop(b)[i] \in 0..255 /\ SumLoop(e)[i] = SumLoop(b)[i]}
  <1>3. 0 \in S
    <2>1. SumLoop(b)[0] = 0 /\ SumLoop(e)[0] = 0
      BY <1>2, SumSteps
    <2> QED BY <1>2, <2>1
  <1>4. ASSUME NEW k \in 1..Len(b), k - 1 \in S PROVE k \in S
    <2>1. k \in 1..Len(e) /\ k \in 0..Len(b)
      BY <1>2
    <2>2. /\ SumLoop(b)[k] = (SumLoop(b)[k - 1] + b[k]) % 256
          /\ SumLoop(e)[k] = (SumLoop(e)[k - 1] + e[k]) % 256
      BY <1>2, <2>1, SumSteps
    <2>3. b[k] \in Nat /\ e[k] = b[k]
      BY <1>2, ElementOfSeq
    <2>4. PICK x, y : x = SumLoop(b)[k - 1] /\ y = b[k]
      OBVIOUS
    <2>5. x \in Nat /\ y \in Nat /\ SumLoop(e)[k - 1] = x
      <3>1. SumLoop(b)[k - 1] \in 0..255 /\ SumLoop(e)[k - 1] = SumLoop(b)[k - 1]
        BY <1>4
      <3>2. x \in 0..255 /\ SumLoop(e)[k - 1] = x
        BY <2>4, <3>1
      <3>3. y \in Nat
        BY <2>3, <2>4
      <3> QED BY <3>2, <3>3
    <2>6. (x + y) % 256 \in 0..255
      BY <2>5
    <2> QED BY <2>1, <2>2, <2>3, <2>4, <2>5, <2>6
  <1>5. S = 0..Len(b)
    <2> HIDE DEF S
    <2>1. S \subseteq 0..Len(b)
      BY DEF S
    <2> QED BY <1>2, <1>3, <1>4, <2>1, UpTo
  <1>6. SumLoop(b)[Len(b)] \in 0..255 /\ SumLoop(e)[Len(b)] = SumLoop(b)[Len(b)]
    <2>1. Len(b) \in 0..Len(b)
      BY <1>2
    <2>2. Len(b) \in S
      BY <1>5, <2>1
    <2> QED BY <2>2
  <1>7. SumOf(b) = SumLoop(b)[Len(b)] /\ SumOf(e) = SumLoop(e)[Len(e)]
    BY SumIsLoop
  <1>8. Len(e) \in 1..Len(e) /\ Len(e) - 1 = Len(b)
    BY <1>2
  <1>9. SumLoop(e)[Len(e)] = (SumLoop(e)[Len(e) - 1] + e[Len(e)]) % 256
    BY <1>2, <1>8, SumSteps
  <1> QED BY <1>1, <1>2, <1>6, <1>7, <1>8, <1>9

\* A byte on the wire: one byte, or the escape and the byte with a bit turned.
LEMMA StuffedBytes ==
    ASSUME NEW x \in Nat
    PROVE  /\ x \notin {FLAG, ESC} => Stuffed(x) = <<x>>
           /\ x \in {FLAG, ESC} => /\ Stuffed(x) = <<ESC, XorEsc(x)>>
                                   /\ XorEsc(x) \in Nat /\ XorEsc(x) \notin {FLAG, ESC}
                                   /\ XorEsc(XorEsc(x)) = x
           /\ Stuffed(x) \in Seq(Nat) /\ Len(Stuffed(x)) \in {1, 2}
  <1>1. XorEsc(126) = 94 /\ XorEsc(94) = 126 /\ XorEsc(125) = 93 /\ XorEsc(93) = 125
    BY DEF XorEsc
  <1>2. CASE x \notin {FLAG, ESC}
    <2>1. Stuffed(x) = <<x>>
      BY <1>2 DEF Stuffed
    <2> QED BY <1>2, <2>1
  <1>3. CASE x \in {FLAG, ESC}
    <2>1. /\ XorEsc(x) \in Nat /\ XorEsc(x) \notin {FLAG, ESC}
          /\ XorEsc(XorEsc(x)) = x
      BY <1>1, <1>3 DEF FLAG, ESC
    <2>2. PICK y : y = XorEsc(x)
      OBVIOUS
    <2>3. Stuffed(x) = <<ESC, y>>
      BY <1>3, <2>2 DEF Stuffed
    <2>4. ESC \in Nat /\ y \in Nat
      BY <2>1, <2>2 DEF ESC
    <2>5. <<ESC, y>> \in Seq(Nat) /\ Len(<<ESC, y>>) = 2
      BY <2>4
    <2> QED BY <1>3, <2>1, <2>2, <2>3, <2>5
  <1> QED BY <1>2, <1>3

\* The output of Stuff, byte by byte.
StuffLoop(b) ==
    CHOOSE f : f = [i \in 0..Len(b) |-> IF i = 0 THEN <<>> ELSE f[i - 1] \o Stuffed(b[i])]

LEMMA StuffIsLoop ==
    ASSUME NEW b
    PROVE  Stuff(b) = StuffLoop(b)[Len(b)]
  BY DEF Stuff, StuffLoop

LEMMA StuffSteps ==
    ASSUME NEW b \in Seq(Nat)
    PROVE  /\ StuffLoop(b)[0] = <<>>
           /\ \A i \in 0..Len(b) : StuffLoop(b)[i] \in Seq(Nat)
           /\ \A i \in 1..Len(b) : StuffLoop(b)[i] = StuffLoop(b)[i - 1] \o Stuffed(b[i])
  <1> DEFINE Sol(f) == f = [i \in 0..Len(b) |-> IF i = 0 THEN <<>> ELSE f[i - 1] \o Stuffed(b[i])]
  <1>1. Len(b) \in Nat /\ \A i \in 1..Len(b) : b[i] \in Nat
    BY LenProperties, ElementOfSeq
  <1>2. PICK V, B, z : V = Seq(Nat) /\ B = Nat /\ z = <<>>
    OBVIOUS
  <1>3. PICK G : G = [p \in V \X B |-> p[1] \o Stuffed(p[2])]
    OBVIOUS
  <1>4. \A x \in V, y \in B : x \o Stuffed(y) \in V
    <2>1. ASSUME NEW x \in V, NEW y \in B PROVE x \o Stuffed(y) \in V
      <3>1. x \in Seq(Nat) /\ Stuffed(y) \in Seq(Nat)
        BY <1>2, StuffedBytes
      <3> QED BY <1>2, <3>1, ConcatProperties
    <2> QED BY <2>1
  <1>5. G \in [V \X B -> V] /\ \A x \in V, y \in B : G[<<x, y>>] = x \o Stuffed(y)
    BY <1>3, <1>4
  <1>6. z \in V /\ b \in Seq(B)
    BY <1>2
  <1>7. PICK f \in [0..Len(b) -> V] :
            f[0] = z /\ \A i \in 1..Len(b) : f[i] = G[<<f[i - 1], b[i]>>]
    <2>1. PICK f : IsLoop(f, V, z, G, b)
      BY <1>5, <1>6, LoopExists
    <2> QED BY <2>1 DEF IsLoop
  <1>8. \A i \in 1..Len(b) : f[i] = f[i - 1] \o Stuffed(b[i])
    <2>1. ASSUME NEW i \in 1..Len(b) PROVE f[i] = f[i - 1] \o Stuffed(b[i])
      <3>1. i - 1 \in 0..Len(b) /\ b[i] \in B
        BY <1>1, <1>2
      <3>2. f[i - 1] \in V
        BY <3>1, <1>7
      <3> QED BY <3>1, <3>2, <1>5, <1>7
    <2> QED BY <2>1
  <1>9. Sol(f)
    <2>1. ASSUME NEW i \in 0..Len(b)
          PROVE  f[i] = IF i = 0 THEN <<>> ELSE f[i - 1] \o Stuffed(b[i])
      <3>1. CASE i = 0
        BY <3>1, <1>7, <1>2
      <3>2. CASE i # 0
        <4>1. i \in 1..Len(b)
          BY <3>2
        <4> QED BY <3>2, <4>1, <1>8
      <3> QED BY <3>1, <3>2
    <2> QED BY <2>1, <1>7
  <1>10. StuffLoop(b) = CHOOSE g : Sol(g)
    BY DEF StuffLoop
  <1>11. Sol(StuffLoop(b))
    <2> HIDE DEF Sol
    <2> QED BY <1>9, <1>10
  <1>12. PICK h : h = StuffLoop(b)
    OBVIOUS
  <1>13. \A i \in 0..Len(b) : h[i] = IF i = 0 THEN <<>> ELSE h[i - 1] \o Stuffed(b[i])
    BY <1>11, <1>12
  <1>14. h[0] = <<>>
    <2>1. 0 \in 0..Len(b)
      BY <1>1
    <2> QED BY <2>1, <1>13
  <1>15. ASSUME NEW i \in 1..Len(b)
         PROVE  h[i] = h[i - 1] \o Stuffed(b[i])
    <2>1. i \in 0..Len(b) /\ i # 0
      BY <1>1
    <2> QED BY <2>1, <1>13
  <1> DEFINE S == {i \in 0..Len(b) : h[i] \in V}
  <1>16. S = 0..Len(b)
    <2>1. 0 \in S
      <3>1. 0 \in 0..Len(b) /\ h[0] \in V
        BY <1>1, <1>2, <1>6, <1>14
      <3> QED BY <3>1
    <2>2. ASSUME NEW k \in 1..Len(b), k - 1 \in S PROVE k \in S
      <3>1. k \in 0..Len(b) /\ b[k] \in B
        BY <1>1, <1>2
      <3> QED BY <3>1, <2>2, <1>15, <1>4
    <2>3. S \subseteq 0..Len(b)
      OBVIOUS
    <2> HIDE DEF S
    <2> QED BY <1>1, <2>1, <2>2, <2>3, UpTo
  <1>17. \A i \in 0..Len(b) : h[i] \in Seq(Nat)
    BY <1>16, <1>2
  <1> QED BY <1>12, <1>14, <1>15, <1>17

\* Where the bytes of b[k] end on the wire.
Off(b, k) == Len(StuffLoop(b)[k])

\* The layout of a frame: what stands for b[k] lies between Off(b, k - 1) and
\* Off(b, k).
LEMMA Layout ==
    ASSUME NEW b \in Seq(Nat)
    PROVE  /\ Stuff(b) \in Seq(Nat)
           /\ Off(b, 0) = 0 /\ Off(b, Len(b)) = Len(Stuff(b))
           /\ \A k \in 0..Len(b) : Off(b, k) \in Nat
           /\ \A k \in 1..Len(b) : Off(b, k) = Off(b, k - 1) + Len(Stuffed(b[k]))
           /\ \A k \in 1..Len(b) : /\ Off(b, k) <= Len(Stuff(b))
                                   /\ \A i \in 1..Len(Stuffed(b[k])) :
                                         Stuff(b)[Off(b, k - 1) + i] = Stuffed(b[k])[i]
  <1>1. Len(b) \in Nat /\ \A i \in 1..Len(b) : b[i] \in Nat
    BY LenProperties, ElementOfSeq
  <1>2. PICK h : h = StuffLoop(b)
    OBVIOUS
  <1>3. /\ h[0] = <<>>
        /\ \A i \in 0..Len(b) : h[i] \in Seq(Nat)
        /\ \A i \in 1..Len(b) : h[i] = h[i - 1] \o Stuffed(b[i])
    BY <1>2, StuffSteps
  <1>4. \A k \in 0..Len(b) : Off(b, k) = Len(h[k])
    BY <1>2 DEF Off
  <1>5. Stuff(b) = h[Len(b)] /\ Len(b) \in 0..Len(b) /\ 0 \in 0..Len(b)
    BY <1>1, <1>2, StuffIsLoop
  <1>6. \A k \in 0..Len(b) : Off(b, k) \in Nat
    BY <1>3, <1>4, LenProperties
  <1>7. ASSUME NEW k \in 1..Len(b)
        PROVE  /\ k \in 0..Len(b) /\ k - 1 \in 0..Len(b)
               /\ h[k] = h[k - 1] \o Stuffed(b[k]) /\ h[k - 1] \in Seq(Nat)
               /\ Stuffed(b[k]) \in Seq(Nat) /\ Len(Stuffed(b[k])) \in Nat
               /\ Len(h[k]) = Len(h[k - 1]) + Len(Stuffed(b[k]))
               /\ \A i \in 1..Len(h[k - 1]) : h[k][i] = h[k - 1][i]
               /\ \A i \in 1..Len(Stuffed(b[k])) : h[k][Len(h[k - 1]) + i] = Stuffed(b[k])[i]
    <2>1. k \in 0..Len(b) /\ k - 1 \in 0..Len(b) /\ b[k] \in Nat
      BY <1>1
    <2>2. PICK p, q : p = h[k - 1] /\ q = Stuffed(b[k])
      OBVIOUS
    <2>3. p \in Seq(Nat) /\ q \in Seq(Nat) /\ h[k] = p \o q
      BY <1>3, <2>1, <2>2, StuffedBytes
    <2>4. Len(p) \in Nat /\ Len(q) \in Nat
      BY <2>3, LenProperties
    <2>5. /\ Len(p \o q) = Len(p) + Len(q)
          /\ \A i \in 1..Len(p) + Len(q) :
                (p \o q)[i] = IF i <= Len(p) THEN p[i] ELSE q[i - Len(p)]
      BY <2>3, ConcatProperties
    <2>6. \A i \in 1..Len(p) : (p \o q)[i] = p[i]
      <3>1. ASSUME NEW i \in 1..Len(p) PROVE (p \o q)[i] = p[i]
        <4>1. i \in 1..(Len(p) + Len(q)) /\ i <= Len(p)
          BY <2>4
        <4> QED BY <4>1, <2>5
      <3> QED BY <3>1
    <2>7. \A i \in 1..Len(q) : (p \o q)[Len(p) + i] = q[i]
      <3>1. ASSUME NEW i \in 1..Len(q) PROVE (p \o q)[Len(p) + i] = q[i]
        <4>1. Len(p) + i \in 1..(Len(p) + Len(q)) /\ ~(Len(p) + i <= Len(p)) /\ Len(p) + i - Len(p) = i
          BY <2>4
        <4> QED BY <4>1, <2>5
      <3> QED BY <3>1
    <2> QED BY <2>1, <2>2, <2>3, <2>4, <2>5, <2>6, <2>7
  <1> DEFINE n == Len(b)
             Pre(k, m) == /\ Len(h[k]) <= Len(h[m])
                          /\ \A i \in 1..Len(h[k]) : h[m][i] = h[k][i]
  <1>8. ASSUME NEW k \in 1..n
        PROVE  Pre(k, n)
    <2> DEFINE S == {m \in 0..n : k <= m => Pre(k, m)}
    <2>1. 0 \in S
      BY <1>1
    <2>2. ASSUME NEW m \in 1..n, m - 1 \in S PROVE m \in S
      <3>1. m \in 0..n /\ m \in Nat /\ k \in Nat
        BY <1>1
      <3>2. Len(h[k]) \in Nat /\ Len(h[m]) \in Nat /\ Len(h[m - 1]) \in Nat
        BY <1>3, <1>7, LenProperties
      <3>3. CASE k <= m - 1
        <4>1. Pre(k, m - 1)
          BY <2>2, <3>3
        <4>2. Len(h[m - 1]) <= Len(h[m]) /\ \A i \in 1..Len(h[m - 1]) : h[m][i] = h[m - 1][i]
          <5>1. PICK x, y, z : x = Len(h[m - 1]) /\ y = Len(h[m]) /\ z = Len(Stuffed(b[m]))
            OBVIOUS
          <5>2. y = x + z /\ x \in Nat /\ z \in Nat
            BY <1>7, <3>2, <5>1
          <5>3. x <= y
            BY <5>2
          <5> QED BY <1>7, <5>1, <5>3
        <4>3. Pre(k, m)
          <5>1. PICK u, v, w : u = Len(h[k]) /\ v = Len(h[m - 1]) /\ w = Len(h[m])
            OBVIOUS
          <5>2. u \in Nat /\ v \in Nat /\ w \in Nat /\ u <= v /\ v <= w
            BY <3>2, <4>1, <4>2, <5>1
          <5>3. u <= w /\ \A i \in 1..u : i \in 1..v
            BY <5>2
          <5>4. ASSUME NEW i \in 1..u PROVE h[m][i] = h[k][i]
            BY <4>1, <4>2, <5>1, <5>3
          <5> QED BY <5>1, <5>3, <5>4
        <4> QED BY <3>1, <4>3
      <3>4. CASE k = m
        <4>1. Pre(k, m)
          BY <3>2, <3>4
        <4> QED BY <3>1, <4>1
      <3>5. CASE k > m
        BY <3>1, <3>5
      <3> QED BY <3>1, <3>3, <3>4, <3>5
    <2>3. S \subseteq 0..n
      OBVIOUS
    <2>4. S = 0..n
      <3> HIDE DEF S, n
      <3>1. n \in Nat
        BY <1>1 DEF n
      <3> QED BY <3>1, <2>1, <2>2, <2>3, UpTo
    <2>5. n \in S /\ k <= n
      BY <1>1, <2>4
    <2> QED BY <2>5
  <1>9. ASSUME NEW k \in 1..Len(b)
        PROVE  /\ Off(b, k) = Off(b, k - 1) + Len(Stuffed(b[k]))
               /\ Off(b, k) <= Len(Stuff(b))
               /\ \A i \in 1..Len(Stuffed(b[k])) :
                     Stuff(b)[Off(b, k - 1) + i] = Stuffed(b[k])[i]
    <2>1. Off(b, k) = Len(h[k]) /\ Off(b, k - 1) = Len(h[k - 1])
      BY <1>4, <1>7
    <2>2. Pre(k, n)
      BY <1>8
    <2>3. Len(h[k - 1]) \in Nat /\ Len(Stuffed(b[k])) \in Nat
      BY <1>7, LenProperties
    <2>4. ASSUME NEW i \in 1..Len(Stuffed(b[k]))
          PROVE  Stuff(b)[Off(b, k - 1) + i] = Stuffed(b[k])[i]
      <3>1. Len(h[k - 1]) + i \in 1..Len(h[k])
        <4>1. PICK x, y, z : x = Len(h[k - 1]) /\ y = Len(h[k]) /\ z = Len(Stuffed(b[k]))
          OBVIOUS
        <4>2. y = x + z /\ x \in Nat /\ z \in Nat /\ i \in 1..z
          BY <1>7, <2>3, <4>1
        <4>3. x + i \in 1..y
          BY <4>2
        <4> QED BY <4>1, <4>3
      <3> QED BY <3>1, <2>1, <2>2, <1>5, <1>7
    <2> QED BY <2>1, <2>2, <2>4, <1>5, <1>7
  <1>10. Off(b, 0) = 0 /\ Off(b, Len(b)) = Len(Stuff(b)) /\ Stuff(b) \in Seq(Nat)
    BY <1>3, <1>4, <1>5
  <1> QED BY <1>6, <1>9, <1>10

LEMMA PrefixGrows ==
    ASSUME NEW b \in Seq(Nat), NEW k \in 0..(Len(b) - 1)
    PROVE  Append(SubSeq(b, 1, k), b[k + 1]) = SubSeq(b, 1, k + 1)
  <1>1. Len(b) \in Nat /\ k \in Nat /\ k + 1 \in 1..Len(b) /\ b[k + 1] \in Nat
    BY LenProperties, ElementOfSeq
  <1>2. PICK p, q, x : p = SubSeq(b, 1, k) /\ q = SubSeq(b, 1, k + 1) /\ x = b[k + 1]
    OBVIOUS
  <1>3. /\ p \in Seq(Nat) /\ Len(p) = k /\ \A i \in 1..k : p[i] = b[i]
        /\ q \in Seq(Nat) /\ Len(q) = k + 1 /\ \A i \in 1..(k + 1) : q[i] = b[i]
    BY <1>1, <1>2
  <1>4. Append(p, x) \in Seq(Nat) /\ Len(Append(p, x)) = k + 1 /\ \A i \in 1..(k + 1) : Append(p, x)[i] = b[i]
    <2>1. x \in Nat
      BY <1>1, <1>2
    <2>2. /\ Append(p, x) \in Seq(Nat) /\ Len(Append(p, x)) = Len(p) + 1
          /\ \A i \in 1..Len(p) : Append(p, x)[i] = p[i]
          /\ Append(p, x)[Len(p) + 1] = x
      BY <1>3, <2>1, AppendProperties
    <2>3. ASSUME NEW i \in 1..(k + 1) PROVE Append(p, x)[i] = b[i]
      <3>1. CASE i = k + 1
        BY <3>1, <2>2, <1>2, <1>3
      <3>2. CASE i # k + 1
        <4>1. i \in 1..k
          BY <3>2, <1>1
        <4> QED BY <4>1, <2>2, <1>3
      <3> QED BY <3>1, <3>2
    <2> QED BY <2>2, <2>3, <1>3
  <1>5. PICK a : a = Append(p, x)
    OBVIOUS
  <1>6. a = q
    <2>1. a \in Seq(Nat) /\ Len(a) = Len(q) /\ \A i \in 1..Len(a) : a[i] = q[i]
      BY <1>3, <1>4, <1>5
    <2> QED BY <2>1, <1>3, SeqEqual
  <1> QED BY <1>2, <1>5, <1>6

\* A reader that has taken the first j bytes of a stuffed frame holds the bytes
\* they stand for, and knows whether it stopped after an escape.
Progress(b, j, buf, esc) ==
    \E k \in 0..Len(b) :
       /\ buf = SubSeq(b, 1, k)
       /\ \/ ~esc /\ j = Off(b, k)
          \/ esc /\ k < Len(b) /\ b[k + 1] \in {FLAG, ESC} /\ j = Off(b, k) + 1

LEMMA ProgressStep ==
    ASSUME NEW b \in Seq(Nat), NEW j \in Nat, j < Len(Stuff(b)),
           NEW buf, NEW esc \in BOOLEAN, Progress(b, j, buf, esc),
           NEW x, x = Stuff(b)[j + 1]
    PROVE  /\ x # FLAG
           /\ esc => Progress(b, j + 1, Append(buf, XorEsc(x)), FALSE)
           /\ ~esc /\ x = ESC => Progress(b, j + 1, buf, TRUE)
           /\ ~esc /\ x # ESC => Progress(b, j + 1, Append(buf, x), FALSE)
  <1>1. PICK k \in 0..Len(b) :
             /\ buf = SubSeq(b, 1, k)
             /\ \/ ~esc /\ j = Off(b, k)
                \/ esc /\ k < Len(b) /\ b[k + 1] \in {FLAG, ESC} /\ j = Off(b, k) + 1
    BY DEF Progress
  <1>2. /\ Off(b, Len(b)) = Len(Stuff(b)) /\ Off(b, k) \in Nat
        /\ Len(b) \in Nat /\ k \in Nat /\ FLAG # ESC
    BY Layout, LenProperties DEF FLAG, ESC
  <1>3. k < Len(b)
    <2>1. CASE ~esc
      BY <1>1, <1>2, <2>1
    <2>2. CASE esc
      BY <1>1, <2>2
    <2> QED BY <2>1, <2>2
  <1>4. PICK m, y : m = k + 1 /\ y = b[k + 1]
    OBVIOUS
  <1>5. m \in 1..Len(b) /\ m - 1 = k /\ y \in Nat /\ m \in 0..Len(b) /\ k \in 0..(Len(b) - 1) /\ y = b[m]
    BY <1>2, <1>3, <1>4, ElementOfSeq
  <1>6. /\ Off(b, m) = Off(b, k) + Len(Stuffed(y))
        /\ \A i \in 1..Len(Stuffed(y)) : Stuff(b)[Off(b, k) + i] = Stuffed(y)[i]
    BY <1>5, Layout
  <1>7. Append(buf, y) = SubSeq(b, 1, m)
    BY <1>1, <1>4, <1>5, PrefixGrows
  <1>8. CASE y \in {FLAG, ESC}
    <2>1. /\ Stuffed(y) = <<ESC, XorEsc(y)>> /\ XorEsc(y) \notin {FLAG, ESC} /\ XorEsc(XorEsc(y)) = y
      BY <1>5, <1>8, StuffedBytes
    <2>2. /\ Len(Stuffed(y)) = 2 /\ Stuffed(y)[1] = ESC /\ Stuffed(y)[2] = XorEsc(y)
      BY <2>1
    <2>3. 1 \in 1..2 /\ 2 \in 1..2 /\ Off(b, k) + 1 + 1 = Off(b, k) + 2
      BY <1>2
    <2>4. /\ Off(b, m) = Off(b, k) + 2
          /\ Stuff(b)[Off(b, k) + 1] = ESC /\ Stuff(b)[Off(b, k) + 2] = XorEsc(y)
      BY <1>6, <2>2, <2>3
    <2>5. CASE ~esc
      <3>1. x = ESC /\ j + 1 = Off(b, k) + 1
        BY <1>1, <2>4, <2>5
      <3>2. Progress(b, j + 1, buf, TRUE)
        BY <1>1, <1>3, <1>4, <1>8, <3>1 DEF Progress
      <3> QED BY <1>2, <2>5, <3>1, <3>2
    <2>6. CASE esc
      <3>1. x = XorEsc(y) /\ j + 1 = Off(b, m)
        BY <1>1, <2>3, <2>4, <2>6
      <3>2. Progress(b, j + 1, Append(buf, XorEsc(x)), FALSE)
        BY <1>5, <1>7, <2>1, <3>1 DEF Progress
      <3> QED BY <2>1, <2>6, <3>1, <3>2
    <2> QED BY <2>5, <2>6
  <1>9. CASE y \notin {FLAG, ESC}
    <2>1. Stuffed(y) = <<y>>
      BY <1>5, <1>9, StuffedBytes
    <2>2. Len(Stuffed(y)) = 1 /\ Stuffed(y)[1] = y
      BY <2>1
    <2>3. Off(b, m) = Off(b, k) + 1 /\ Stuff(b)[Off(b, k) + 1] = y
      BY <1>6, <2>2
    <2>4. ~esc /\ j = Off(b, k)
      BY <1>1, <1>4, <1>9
    <2>5. x = y /\ j + 1 = Off(b, m)
      BY <2>3, <2>4
    <2>6. Progress(b, j + 1, Append(buf, x), FALSE)
      BY <1>5, <1>7, <2>5 DEF Progress
    <2> QED BY <1>9, <2>4, <2>5, <2>6
  <1> QED BY <1>8, <1>9

LEMMA ProgressEnd ==
    ASSUME NEW b \in Seq(Nat), NEW buf, NEW esc \in BOOLEAN, Progress(b, Len(Stuff(b)), buf, esc)
    PROVE  buf = b /\ ~esc
  <1> DEFINE j == Len(Stuff(b))
  <1>1. PICK k \in 0..Len(b) :
             /\ buf = SubSeq(b, 1, k)
             /\ \/ ~esc /\ j = Off(b, k)
                \/ esc /\ k < Len(b) /\ b[k + 1] \in {FLAG, ESC} /\ j = Off(b, k) + 1
    BY DEF Progress
  <1>2. Off(b, k) \in Nat /\ Len(b) \in Nat /\ k \in Nat
    BY Layout, LenProperties
  <1>3. ~(k < Len(b))
    <2>1. SUFFICES ASSUME k < Len(b) PROVE FALSE
      OBVIOUS
    <2>2. PICK m, y : m = k + 1 /\ y = b[k + 1]
      OBVIOUS
    <2>3. m \in 1..Len(b) /\ m - 1 = k /\ y \in Nat /\ y = b[m]
      BY <1>2, <2>1, <2>2, ElementOfSeq
    <2>4. Off(b, m) = Off(b, k) + Len(Stuffed(y)) /\ Off(b, m) <= j
      BY <2>3, Layout
    <2>5. CASE esc
      <3>1. y \in {FLAG, ESC} /\ j = Off(b, k) + 1
        BY <1>1, <2>2, <2>5
      <3>2. Stuffed(y) = <<ESC, XorEsc(y)>>
        BY <2>3, <3>1, StuffedBytes
      <3>3. Len(Stuffed(y)) = 2
        BY <3>2
      <3>4. Off(b, k) + 2 <= Off(b, k) + 1
        BY <2>4, <3>1, <3>3
      <3> HIDE DEF j
      <3> QED BY <1>2, <3>4
    <2>6. CASE ~esc
      <3>1. Len(Stuffed(y)) \in {1, 2} /\ j = Off(b, k)
        BY <1>1, <2>3, <2>6, StuffedBytes
      <3>2. PICK t, o : t = Len(Stuffed(y)) /\ o = Off(b, k)
        OBVIOUS
      <3>3. o + t <= o /\ o \in Nat /\ t \in {1, 2}
        BY <1>2, <2>4, <3>1, <3>2
      <3> QED BY <3>3
    <2> QED BY <2>5, <2>6
  <1>4. k = Len(b) /\ ~esc
    BY <1>1, <1>2, <1>3
  <1>5. buf = b
    BY <1>1, <1>4, SubSeqFull
  <1> QED BY <1>4, <1>5

LEMMA ProgressStart ==
    ASSUME NEW b \in Seq(Nat)
    PROVE  Progress(b, 0, <<>>, FALSE)
  <1>1. Len(b) \in Nat /\ 0 \in 0..Len(b) /\ Off(b, 0) = 0
    BY LenProperties, Layout
  <1>2. SubSeq(b, 1, 0) = <<>>
    BY EmptySeq
  <1> QED BY <1>1, <1>2 DEF Progress

-----------------------------------------------------------------------------
(* A frame and its reader *)

Frame == [seq : Nat, type : Nat, payload : Seq(Nat)]

\* What a frame says can be read off its bytes.
LEMMA BodyFacts ==
    ASSUME NEW f \in Frame
    PROVE  /\ Body(f) \in Seq(Nat) /\ Len(Body(f)) \in Nat /\ Len(Body(f)) >= 3
           /\ decode_frame(Body(f)) = <<f>> /\ try_decode(Body(f)) = <<f>>
  <1>1. PICK s, t, p : s = f.seq /\ t = f.type /\ p = f.payload
    OBVIOUS
  <1>2. s \in Nat /\ t \in Nat /\ p \in Seq(Nat) /\ f = [seq |-> s, type |-> t, payload |-> p]
    BY <1>1 DEF Frame
  <1>3. PICK r, c : r = Raw(f) /\ c = Complement(SumOf(Raw(f)))
    OBVIOUS
  <1>4. PICK h : h = <<s, t>>
    OBVIOUS
  <1>5. h \in Seq(Nat) /\ Len(h) = 2 /\ h[1] = s /\ h[2] = t
    BY <1>2, <1>4
  <1>6. r = h \o p
    BY <1>1, <1>3, <1>4 DEF Raw
  <1>7. Len(p) \in Nat
    BY <1>2, LenProperties
  <1>8. /\ r \in Seq(Nat) /\ Len(r) = 2 + Len(p)
        /\ \A i \in 1..(2 + Len(p)) : r[i] = IF i <= 2 THEN h[i] ELSE p[i - 2]
    <2>1. /\ h \o p \in Seq(Nat) /\ Len(h \o p) = Len(h) + Len(p)
          /\ \A i \in 1..(Len(h) + Len(p)) :
                (h \o p)[i] = IF i <= Len(h) THEN h[i] ELSE p[i - Len(h)]
      BY <1>2, <1>5, ConcatProperties
    <2> QED BY <2>1, <1>5, <1>6
  <1>9. SumOf(r) \in 0..255 /\ c = 255 - SumOf(r) /\ c \in Nat
    <2>1. SumOf(r) \in 0..255
      BY <1>2, <1>8, SumAppend
    <2>2. c = 255 - SumOf(r)
      BY <1>3 DEF Complement
    <2> QED BY <2>1, <2>2
  <1>10. PICK b : b = Body(f)
    OBVIOUS
  <1>11. b = Append(r, c)
    BY <1>3, <1>10 DEF Body
  <1>12. /\ b \in Seq(Nat) /\ Len(b) = Len(r) + 1 /\ b[Len(r) + 1] = c
         /\ \A i \in 1..Len(r) : b[i] = r[i]
    BY <1>8, <1>9, <1>11, AppendProperties
  <1>13. PICK n : n = Len(b)
    OBVIOUS
  <1>14. n = Len(p) + 3 /\ n \in Nat /\ n >= 3 /\ n - 1 = Len(r) /\ b[n] = c
    BY <1>7, <1>8, <1>12, <1>13
  <1>15. SubSeq(b, 1, n - 1) = r
    <2>1. PICK q : q = SubSeq(b, 1, n - 1)
      OBVIOUS
    <2>2. n - 1 \in Nat /\ n - 1 <= Len(b) /\ 1 \in Int
      BY <1>13, <1>14
    <2>3. q \in Seq(Nat) /\ Len(q) = n - 1 /\ \A i \in 1..(n - 1) : q[i] = b[i]
      <3>1. PICK m : m = n - 1
        OBVIOUS
      <3>2. m \in Nat /\ m \in 0..Len(b) /\ q = SubSeq(b, 1, m)
        BY <2>1, <2>2, <3>1
      <3>3. q \in Seq(Nat) /\ Len(q) = m /\ \A i \in 1..m : q[i] = b[i]
        BY <1>12, <3>2
      <3> QED BY <3>1, <3>3
    <2>4. Len(q) = Len(r) /\ \A i \in 1..Len(q) : q[i] = r[i]
      BY <1>12, <1>14, <2>3
    <2> QED BY <1>8, <2>1, <2>3, <2>4, SeqEqual
  <1>16. SubSeq(b, 3, n - 1) = p
    <2>1. PICK q : q = SubSeq(b, 3, n - 1)
      OBVIOUS
    <2>2. q \in Seq(Nat) /\ Len(q) = Len(p) /\ \A i \in 1..Len(p) : q[i] = b[i + 2]
      BY <1>7, <1>12, <1>13, <1>14, <2>1
    <2>3. ASSUME NEW i \in 1..Len(p) PROVE q[i] = p[i]
      <3>1. i + 2 \in 1..Len(r) /\ i + 2 \in 1..(2 + Len(p)) /\ ~(i + 2 <= 2) /\ i + 2 - 2 = i
        BY <1>7, <1>8
      <3>2. b[i + 2] = r[i + 2]
        BY <3>1, <1>12
      <3>3. r[i + 2] = p[i + 2 - 2]
        BY <3>1, <1>8
      <3> QED BY <3>1, <3>2, <3>3, <2>2
    <2> QED BY <1>2, <2>1, <2>2, <2>3, SeqEqual
  <1>17. b[1] = s /\ b[2] = t
    <2>1. 1 \in 1..Len(r) /\ 2 \in 1..Len(r) /\ 1 \in 1..(2 + Len(p)) /\ 2 \in 1..(2 + Len(p))
      BY <1>7, <1>8
    <2> QED BY <2>1, <1>5, <1>8, <1>12
  <1>18. SumOf(b) = 255
    <2>1. SumOf(b) = (SumOf(r) + c) % 256
      BY <1>8, <1>9, <1>11, SumAppend
    <2>2. PICK x : x = SumOf(r)
      OBVIOUS
    <2>3. x \in 0..255 /\ SumOf(b) = (x + (255 - x)) % 256
      BY <1>9, <2>1, <2>2
    <2>4. x + (255 - x) = 255
      BY <2>3
    <2> QED BY <2>3, <2>4
  <1>19. decode_frame(b) = <<f>>
    <2>1. ~(Len(b) < 3) /\ b[Len(b)] = Complement(SumOf(SubSeq(b, 1, Len(b) - 1)))
      <3>1. c = Complement(SumOf(r)) /\ b[n] = c /\ ~(n < 3)
        BY <1>3, <1>14
      <3> QED BY <3>1, <1>13, <1>15
    <2> QED BY <2>1, <1>2, <1>13, <1>16, <1>17 DEF decode_frame
  <1>20. try_decode(b) = <<f>>
    <2>1. ~(Len(b) < 3)
      BY <1>13, <1>14
    <2> QED BY <2>1, <1>2, <1>13, <1>16, <1>17, <1>18 DEF try_decode
  <1> QED BY <1>10, <1>12, <1>13, <1>14, <1>19, <1>20

Bytes(d, f) == IF d = "tx" THEN build_frame(f) ELSE command_frame(f)
Size(f) == Len(Stuff(Body(f)))
Span(d, f) == IF d = "tx" THEN Size(f) + 1 ELSE Size(f) + 2

\* Only the last byte of a frame is a flag, and the first one of a command.
LEMMA BytesLayout ==
    ASSUME NEW d \in {"tx", "rx"}, NEW f \in Frame
    PROVE  /\ Size(f) \in Nat /\ Bytes(d, f) \in Seq(Nat) /\ Len(Bytes(d, f)) = Span(d, f)
           /\ Span(d, f) \in Nat /\ Span(d, f) >= 1
           /\ Bytes(d, f)[Span(d, f)] = FLAG
           /\ d = "tx" => \A i \in 1..Size(f) : Bytes(d, f)[i] = Stuff(Body(f))[i]
           /\ d = "rx" => /\ Bytes(d, f)[1] = FLAG
                          /\ \A i \in 1..Size(f) : Bytes(d, f)[i + 1] = Stuff(Body(f))[i]
  <1>1. PICK s, n : s = Stuff(Body(f)) /\ n = Size(f)
    OBVIOUS
  <1>2. s \in Seq(Nat) /\ n = Len(s)
    <2>1. Body(f) \in Seq(Nat)
      BY BodyFacts
    <2> QED BY <1>1, <2>1, Layout DEF Size
  <1>3. n \in Nat /\ FLAG \in Nat
    BY <1>2, LenProperties DEF FLAG
  <1>4. PICK a, fl : a = Append(s, FLAG) /\ fl = FLAG
    OBVIOUS
  <1>5. /\ a \in Seq(Nat) /\ Len(a) = n + 1 /\ a[n + 1] = fl
        /\ \A i \in 1..n : a[i] = s[i]
    <2>1. a = Append(s, fl) /\ fl \in Nat
      BY <1>3, <1>4
    <2> QED BY <1>2, <2>1, AppendProperties
  <1>6. build_frame(f) = a
    BY <1>1, <1>4 DEF build_frame
  <1>7. CASE d = "tx"
    BY <1>1, <1>3, <1>4, <1>5, <1>6, <1>7 DEF Bytes, Span
  <1>8. CASE d = "rx"
    <2>1. PICK q, e : q = <<fl>> /\ e = q \o a
      OBVIOUS
    <2>2. q \in Seq(Nat) /\ Len(q) = 1 /\ q[1] = fl
      BY <1>3, <1>4, <2>1
    <2>3. /\ e \in Seq(Nat) /\ Len(e) = 1 + (n + 1)
          /\ \A i \in 1..(1 + (n + 1)) : e[i] = IF i <= 1 THEN q[i] ELSE a[i - 1]
      BY <1>5, <2>1, <2>2, ConcatProperties
    <2>4. Bytes(d, f) = e
      BY <1>4, <1>6, <1>8, <2>1 DEF Bytes, command_frame
    <2>5. e[1] = fl
      <3>1. 1 \in 1..(1 + (n + 1))
        BY <1>3
      <3> QED BY <3>1, <2>2, <2>3
    <2>6. ASSUME NEW i \in 1..(n + 1) PROVE e[i + 1] = a[i]
      <3>1. i + 1 \in 1..(1 + (n + 1)) /\ ~(i + 1 <= 1) /\ i + 1 - 1 = i
        BY <1>3
      <3> QED BY <3>1, <2>3
    <2>7. e[n + 2] = fl
      <3>1. n + 1 \in 1..(n + 1) /\ n + 1 + 1 = n + 2
        BY <1>3
      <3> QED BY <3>1, <2>6, <1>5
    <2>8. ASSUME NEW i \in 1..n PROVE e[i + 1] = s[i]
      <3>1. i \in 1..(n + 1)
        BY <1>3
      <3> QED BY <3>1, <2>6, <1>5
    <2>9. Span(d, f) = n + 2 /\ n + 2 = 1 + (n + 1) /\ n + 2 \in Nat /\ n + 2 >= 1
      BY <1>1, <1>3, <1>8 DEF Span
    <2> QED BY <1>1, <1>3, <1>4, <1>8, <2>3, <2>4, <2>5, <2>7, <2>8, <2>9
  <1> QED BY <1>7, <1>8

\* The reader between two frames, and after the first j bytes of frame f.
Clean(d) == IF d = "tx" THEN NewDecoder ELSE NewParser
Read(d, r, b) == IF d = "tx" THEN decode_byte(r, b) ELSE push(r, b)
Midway(d, f, j, r) ==
    \E buf, esc :
       /\ esc \in BOOLEAN /\ Progress(Body(f), j, buf, esc)
       /\ r = IF d = "tx" THEN [buffer |-> buf, escape_next |-> esc]
                          ELSE [state |-> IF esc THEN "Escaped" ELSE "InFrame", buf |-> buf]
At(d, f, j, r) ==
    IF d = "tx" THEN Midway(d, f, j, r)
    ELSE IF j = 0 THEN r = NewParser ELSE Midway(d, f, j - 1, r)

LEMMA AtStart ==
    ASSUME NEW d \in {"tx", "rx"}, NEW f \in Frame
    PROVE  At(d, f, 0, Clean(d))
  <1>1. CASE d = "tx"
    <2>1. Progress(Body(f), 0, <<>>, FALSE)
      BY BodyFacts, ProgressStart
    <2>2. Midway(d, f, 0, Clean(d))
      BY <1>1, <2>1, EmptySeq DEF Midway, Clean, NewDecoder
    <2> QED BY <1>1, <2>2 DEF At
  <1>2. CASE d = "rx"
    BY <1>2 DEF At, Clean
  <1> QED BY <1>1, <1>2

LEMMA PlainByte ==
    ASSUME NEW buf, NEW esc, ~esc, NEW x, x \notin {FLAG, ESC}, NEW r,
           r = [buffer |-> buf, escape_next |-> esc]
    PROVE  decode_byte(r, x) = [d |-> [buffer |-> Append(buf, x), escape_next |-> esc], out |-> <<>>]
  <1>1. ~r.escape_next /\ r.buffer = buf
    OBVIOUS
  <1>2. PICK nb : nb = Append(buf, x)
    OBVIOUS
  <1>3. [r EXCEPT !.buffer = nb] = [buffer |-> nb, escape_next |-> esc]
    OBVIOUS
  <1> QED BY <1>1, <1>2, <1>3 DEF decode_byte

\* A byte that is not the last one of a frame.
LEMMA ReadInside ==
    ASSUME NEW d \in {"tx", "rx"}, NEW f \in Frame, NEW j \in Nat, j < Size(f),
           NEW r, Midway(d, f, j, r), NEW x, x = Stuff(Body(f))[j + 1]
    PROVE  Midway(d, f, j + 1, Read(d, r, x).d) /\ Read(d, r, x).out = <<>>
  <1>1. PICK buf, esc :
             /\ esc \in BOOLEAN /\ Progress(Body(f), j, buf, esc)
             /\ r = IF d = "tx" THEN [buffer |-> buf, escape_next |-> esc]
                                ELSE [state |-> IF esc THEN "Escaped" ELSE "InFrame", buf |-> buf]
    BY DEF Midway
  <1>2. PICK b : b = Body(f)
    OBVIOUS
  <1>3. b \in Seq(Nat) /\ j < Len(Stuff(b)) /\ Progress(b, j, buf, esc) /\ x = Stuff(b)[j + 1]
    BY <1>1, <1>2, BodyFacts DEF Size
  <1>4. /\ x # FLAG
        /\ esc => Progress(b, j + 1, Append(buf, XorEsc(x)), FALSE)
        /\ ~esc /\ x = ESC => Progress(b, j + 1, buf, TRUE)
        /\ ~esc /\ x # ESC => Progress(b, j + 1, Append(buf, x), FALSE)
    BY <1>1, <1>3, ProgressStep
  <1>5. PICK nbuf, nesc :
             /\ nesc \in BOOLEAN /\ Progress(b, j + 1, nbuf, nesc)
             /\ esc => nbuf = Append(buf, XorEsc(x)) /\ nesc = FALSE
             /\ ~esc /\ x = ESC => nbuf = buf /\ nesc = TRUE
             /\ ~esc /\ x # ESC => nbuf = Append(buf, x) /\ nesc = FALSE
    <2>1. CASE esc
      BY <1>4, <2>1
    <2>2. CASE ~esc /\ x = ESC
      BY <1>4, <2>2
    <2>3. CASE ~esc /\ x # ESC
      BY <1>4, <2>3
    <2> QED BY <1>1, <2>1, <2>2, <2>3
  <1>6. CASE d = "tx"
    <2>1. r = [buffer |-> buf, escape_next |-> esc]
      BY <1>1, <1>6
    <2>2. decode_byte(r, x) = [d |-> [buffer |-> nbuf, escape_next |-> nesc], out |-> <<>>]
      <3>1. CASE esc
        BY <1>4, <1>5, <2>1, <3>1 DEF decode_byte
      <3>2. CASE ~esc /\ x = ESC
        BY <1>4, <1>5, <2>1, <3>2 DEF decode_byte
      <3>3. CASE ~esc /\ x # ESC
        <4>1. decode_byte(r, x) = [d |-> [buffer |-> Append(buf, x), escape_next |-> esc], out |-> <<>>]
          BY <1>4, <2>1, <3>3, PlainByte
        <4>2. esc = nesc /\ nbuf = Append(buf, x)
          BY <1>1, <1>5, <3>3
        <4> QED BY <4>1, <4>2
      <3> QED BY <1>1, <3>1, <3>2, <3>3
    <2>3. Read(d, r, x).out = <<>> /\ Read(d, r, x).d = [buffer |-> nbuf, escape_next |-> nesc]
      BY <1>6, <2>2 DEF Read
    <2> QED BY <1>2, <1>5, <1>6, <2>3 DEF Midway
  <1>7. CASE d = "rx"
    <2>1. r = [state |-> IF esc THEN "Escaped" ELSE "InFrame", buf |-> buf]
      BY <1>1, <1>7
    <2>2. push(r, x) = [d |-> [state |-> IF nesc THEN "Escaped" ELSE "InFrame", buf |-> nbuf], out |-> <<>>]
      <3>1. CASE esc
        BY <1>4, <1>5, <2>1, <3>1 DEF push, accept
      <3>2. CASE ~esc /\ x = ESC
        BY <1>4, <1>5, <2>1, <3>2 DEF push, accept
      <3>3. CASE ~esc /\ x # ESC
        BY <1>4, <1>5, <2>1, <3>3 DEF push, accept
      <3> QED BY <1>1, <3>1, <3>2, <3>3
    <2>3. /\ Read(d, r, x).out = <<>>
          /\ Read(d, r, x).d = [state |-> IF nesc THEN "Escaped" ELSE "InFrame", buf |-> nbuf]
      BY <1>7, <2>2 DEF Read
    <2> QED BY <1>2, <1>5, <1>7, <2>3 DEF Midway
  <1> QED BY <1>6, <1>7

\* The last byte of a frame.
LEMMA ReadLast ==
    ASSUME NEW d \in {"tx", "rx"}, NEW f \in Frame, NEW r, Midway(d, f, Size(f), r)
    PROVE  Read(d, r, FLAG).d = Clean(d) /\ Read(d, r, FLAG).out = <<f>>
  <1>1. PICK buf, esc :
             /\ esc \in BOOLEAN /\ Progress(Body(f), Size(f), buf, esc)
             /\ r = IF d = "tx" THEN [buffer |-> buf, escape_next |-> esc]
                                ELSE [state |-> IF esc THEN "Escaped" ELSE "InFrame", buf |-> buf]
    BY DEF Midway
  <1>2. PICK b : b = Body(f)
    OBVIOUS
  <1>3. /\ b \in Seq(Nat) /\ Progress(b, Len(Stuff(b)), buf, esc)
        /\ Len(b) \in Nat /\ Len(b) >= 3 /\ decode_frame(b) = <<f>> /\ try_decode(b) = <<f>>
    BY <1>1, <1>2, BodyFacts DEF Size
  <1>4. buf = b /\ ~esc
    BY <1>1, <1>3, ProgressEnd
  <1>5. b # <<>>
    BY <1>3
  <1>6. CASE d = "tx"
    BY <1>1, <1>3, <1>4, <1>5, <1>6 DEF Read, Clean, decode_byte
  <1>7. CASE d = "rx"
    <2>1. r = [state |-> "InFrame", buf |-> b]
      BY <1>1, <1>4, <1>7
    <2>2. push(r, FLAG) = [d |-> NewParser, out |-> <<f>>]
      BY <1>3, <2>1 DEF push
    <2> QED BY <1>7, <2>2 DEF Read, Clean
  <1> QED BY <1>6, <1>7

\* One byte of a frame, read where its predecessors were.
Reading(d, f, j, r) ==
    d \in {"tx", "rx"} /\ f \in Frame /\ j \in Nat /\ j < Span(d, f) /\ At(d, f, j, r)
TookByte(d, f, j, q) ==
    /\ j < Span(d, f) => At(d, f, j, q.d) /\ q.out = <<>>
    /\ j = Span(d, f) => q.d = Clean(d) /\ q.out = <<f>>

LEMMA ReaderStep ==
    ASSUME NEW d, NEW f, NEW j, NEW r, NEW x, Reading(d, f, j, r), x = Bytes(d, f)[j + 1]
    PROVE  TookByte(d, f, j + 1, Read(d, r, x))
  <1> SUFFICES ASSUME d \in {"tx", "rx"}, f \in Frame, j \in Nat, j < Span(d, f), At(d, f, j, r)
               PROVE  /\ j + 1 < Span(d, f) => At(d, f, j + 1, Read(d, r, x).d) /\ Read(d, r, x).out = <<>>
                      /\ j + 1 = Span(d, f) => Read(d, r, x).d = Clean(d) /\ Read(d, r, x).out = <<f>>
    BY DEF Reading, TookByte
  <1>1. Size(f) \in Nat /\ Bytes(d, f)[Span(d, f)] = FLAG
    BY BytesLayout
  <1>2. CASE d = "tx"
    <2>1. Span(d, f) = Size(f) + 1 /\ Midway(d, f, j, r)
      BY <1>2 DEF Span, At
    <2>2. CASE j < Size(f)
      <3>1. j + 1 \in 1..Size(f) /\ j + 1 < Size(f) + 1 /\ j + 1 # Size(f) + 1
        BY <1>1, <2>2
      <3>2. x = Stuff(Body(f))[j + 1]
        BY <1>2, <3>1, BytesLayout
      <3>3. Midway(d, f, j + 1, Read(d, r, x).d) /\ Read(d, r, x).out = <<>>
        BY <2>1, <2>2, <3>2, ReadInside
      <3> QED BY <1>2, <2>1, <3>1, <3>3 DEF At
    <2>3. CASE j = Size(f)
      <3>1. x = FLAG /\ ~(j + 1 < Size(f) + 1)
        BY <1>1, <2>1, <2>3
      <3>2. Midway(d, f, Size(f), r)
        BY <2>1, <2>3
      <3>3. Read(d, r, FLAG).d = Clean(d) /\ Read(d, r, FLAG).out = <<f>>
        BY <3>2, ReadLast
      <3> QED BY <2>1, <3>1, <3>3
    <2> QED BY <1>1, <2>1, <2>2, <2>3
  <1>3. CASE d = "rx"
    <2>1. Span(d, f) = Size(f) + 2
      BY <1>3 DEF Span
    <2>2. CASE j = 0
      <3>1. r = NewParser /\ x = FLAG
        <4>1. Bytes(d, f)[1] = FLAG /\ j + 1 = 1
          BY <1>3, <2>2, BytesLayout
        <4> QED BY <1>3, <2>2, <4>1 DEF At
      <3>2. push(r, x) = [d |-> [state |-> "InFrame", buf |-> <<>>], out |-> <<>>]
        BY <3>1 DEF push, NewParser
      <3>3. Progress(Body(f), 0, <<>>, FALSE)
        BY BodyFacts, ProgressStart
      <3>4. Midway(d, f, 0, push(r, x).d)
        <4>1. FALSE \in BOOLEAN /\ push(r, x).d = [state |-> IF FALSE THEN "Escaped" ELSE "InFrame", buf |-> <<>>]
          BY <3>2
        <4> QED BY <1>3, <3>3, <4>1 DEF Midway
      <3>5. At(d, f, j + 1, push(r, x).d)
        <4>1. j + 1 = 1 /\ j + 1 # 0 /\ j + 1 - 1 = 0
          BY <2>2
        <4> QED BY <1>3, <3>4, <4>1 DEF At
      <3>6. j + 1 # Span(d, f)
        BY <1>1, <2>1, <2>2
      <3> QED BY <1>3, <3>2, <3>5, <3>6 DEF Read
    <2>3. CASE j # 0
      <3>1. PICK k : k = j - 1
        OBVIOUS
      <3>2. k \in Nat /\ j = k + 1 /\ k <= Size(f) /\ j + 1 = k + 2 /\ j + 1 - 1 = k + 1 /\ j + 1 # 0
        BY <1>1, <2>1, <2>3, <3>1
      <3>3. Midway(d, f, k, r)
        BY <1>3, <2>3, <3>1 DEF At
      <3>4. CASE k < Size(f)
        <4>1. k + 1 \in 1..Size(f) /\ j + 1 = (k + 1) + 1 /\ j + 1 # Span(d, f)
          BY <1>1, <2>1, <3>2, <3>4
        <4>2. x = Stuff(Body(f))[k + 1]
          BY <1>3, <4>1, BytesLayout
        <4>3. Midway(d, f, k + 1, Read(d, r, x).d) /\ Read(d, r, x).out = <<>>
          BY <3>2, <3>3, <3>4, <4>2, ReadInside
        <4>4. At(d, f, j + 1, Read(d, r, x).d)
          BY <1>3, <3>2, <4>3 DEF At
        <4> QED BY <4>1, <4>3, <4>4
      <3>5. CASE k = Size(f)
        <4>1. x = FLAG /\ ~(j + 1 < Span(d, f))
          BY <1>1, <2>1, <3>2, <3>5
        <4>2. Midway(d, f, Size(f), r)
          BY <3>3, <3>5
        <4>3. Read(d, r, FLAG).d = Clean(d) /\ Read(d, r, FLAG).out = <<f>>
          BY <4>2, ReadLast
        <4> QED BY <4>1, <4>3
      <3> QED BY <1>1, <3>2, <3>4, <3>5
    <2> QED BY <2>2, <2>3
  <1> QED BY <1>2, <1>3

-----------------------------------------------------------------------------
(* The line *)

CellType == [byte : Nat, frame : Nat, at : Nat, end : BOOLEAN]

\* A byte in flight: its place in its frame, and its value as long as the line
\* has not damaged that part of the frame.
Part(c) == <<c.frame, IF c.end THEN "end" ELSE "body">>
Placed(d, s, c) ==
    /\ c.frame \in 1..Len(s) /\ c.at \in 1..Span(d, s[c.frame])
    /\ c.end = (c.at = Span(d, s[c.frame]))
Intact(d, s, h, c) == Part(c) \notin h => c.byte = Bytes(d, s[c.frame])[c.at]

\* Two bytes in a row.  Nothing is missing from an unhurt frame; a frame whose
\* end is unhurt keeps its end; a frame that is gone altogether lost its end.
Follows(h, c, e) ==
    /\ c.frame < e.frame \/ (c.frame = e.frame /\ c.at < e.at)
    /\ <<e.frame, "body">> \notin h /\ <<e.frame, "end">> \notin h =>
          e.at = 1 \/ (c.frame = e.frame /\ e.at = c.at + 1)
    /\ <<c.frame, "end">> \notin h /\ ~c.end => e.frame = c.frame
    /\ e.frame > c.frame + 1 => <<e.frame - 1, "end">> \in h

\* The last byte in flight, after n frames.
Ends(h, n, c) ==
    /\ <<c.frame, "end">> \notin h => c.end
    /\ <<n, "end">> \notin h => c.frame = n

WholeIn(h, n) == <<n, "body">> \notin h /\ <<n, "end">> \notin h /\ <<n - 1, "end">> \notin h

Flow(d, l, s, h) ==
    /\ \A i \in 1..Len(l) : Placed(d, s, l[i]) /\ Intact(d, s, h, l[i])
    /\ \A i \in 1..(Len(l) - 1) : Follows(h, l[i], l[i + 1])
    /\ l # <<>> => Ends(h, Len(s), l[Len(l)])

\* What the reader has of the frame whose byte comes next, if that one is whole.
Ready(d, l, s, h, r) ==
    IF l = <<>> THEN <<Len(s), "end">> \notin h => r = Clean(d)
    ELSE WholeIn(h, l[1].frame) => At(d, s[l[1].frame], l[1].at - 1, r)

Parts(n) == (1..n) \X {"body", "end"}

LineInv(d, l, s, h, r) ==
    /\ d \in {"tx", "rx"} /\ l \in Seq(CellType) /\ s \in Seq(Frame)
    /\ h \subseteq Parts(Len(s)) /\ (d = "rx" => h = {})
    /\ Flow(d, l, s, h)
    /\ Ready(d, l, s, h, r)

WireInv ==
    /\ LineInv(dir, line, sent, hurt, reader)
    /\ seq_no \in 0..255 /\ due \in Seq(Frame)
    /\ dir = "rx" => got = due

\* More damage takes nothing away from what is said of the rest.
LEMMA MoreHurt ==
    ASSUME NEW h, NEW g, h \subseteq g, NEW c \in CellType, NEW e \in CellType, NEW n \in Nat
    PROVE  /\ Follows(h, c, e) => Follows(g, c, e)
           /\ Ends(h, n, c) => Ends(g, n, c)
  <1>1. \A x : x \notin g => x \notin h
    OBVIOUS
  <1>2. \A x : x \in h => x \in g
    OBVIOUS
  <1>3. ASSUME Follows(h, c, e) PROVE Follows(g, c, e)
    <2>1. c.frame < e.frame \/ (c.frame = e.frame /\ c.at < e.at)
      BY <1>3 DEF Follows
    <2>2. ASSUME <<e.frame, "body">> \notin g, <<e.frame, "end">> \notin g
          PROVE  e.at = 1 \/ (c.frame = e.frame /\ e.at = c.at + 1)
      BY <1>1, <1>3, <2>2 DEF Follows
    <2>3. ASSUME <<c.frame, "end">> \notin g, ~c.end PROVE e.frame = c.frame
      BY <1>1, <1>3, <2>3 DEF Follows
    <2>4. ASSUME e.frame > c.frame + 1 PROVE <<e.frame - 1, "end">> \in g
      BY <1>2, <1>3, <2>4 DEF Follows
    <2> QED BY <2>1, <2>2, <2>3, <2>4 DEF Follows
  <1>4. ASSUME Ends(h, n, c) PROVE Ends(g, n, c)
    BY <1>1, <1>4 DEF Ends
  <1> QED BY <1>3, <1>4

\* A byte is dropped: its neighbours meet, and the damage is on record.
LEMMA Dropped ==
    ASSUME NEW h, NEW c \in CellType, NEW x \in CellType, NEW e \in CellType, NEW n \in Nat,
           NEW g, g = h \cup {Part(x)}
    PROVE  /\ Follows(h, c, x) /\ Follows(h, x, e) => Follows(g, c, e)
           /\ Follows(h, c, x) /\ Ends(h, n, x) => Ends(g, n, c)
           /\ Follows(h, x, e) => ~WholeIn(g, e.frame)
           /\ Ends(h, n, x) => <<n, "end">> \in g
  <1>1. \A p : p \notin g => p \notin h /\ p # Part(x)
    OBVIOUS
  <1>2. \A p : p \in h => p \in g
    OBVIOUS
  <1>3. Part(x) \in g
    OBVIOUS
  <1>4. /\ x.end => Part(x) = <<x.frame, "end">>
        /\ ~x.end => Part(x) = <<x.frame, "body">>
        /\ x.end \in BOOLEAN
    BY DEF Part, CellType
  <1>5. /\ c.frame \in Nat /\ x.frame \in Nat /\ e.frame \in Nat
        /\ c.at \in Nat /\ x.at \in Nat /\ e.at \in Nat
    BY DEF CellType
  <1>6. ASSUME Follows(h, c, x), Follows(h, x, e) PROVE Follows(g, c, e)
    <2>1. /\ c.frame < x.frame \/ (c.frame = x.frame /\ c.at < x.at)
          /\ x.frame < e.frame \/ (x.frame = e.frame /\ x.at < e.at)
      BY <1>6 DEF Follows
    <2>2. c.frame < e.frame \/ (c.frame = e.frame /\ c.at < e.at)
      BY <1>5, <2>1
    <2>3. ASSUME <<e.frame, "body">> \notin g, <<e.frame, "end">> \notin g
          PROVE  e.at = 1
      <3>1. x.frame # e.frame
        BY <1>3, <1>4, <2>3
      <3> QED BY <1>1, <1>6, <2>3, <3>1 DEF Follows
    <2>4. ASSUME <<c.frame, "end">> \notin g, ~c.end PROVE e.frame = c.frame
      <3>1. x.frame = c.frame
        BY <1>1, <1>6, <2>4 DEF Follows
      <3>2. ~x.end
        BY <1>3, <1>4, <2>4, <3>1
      <3> QED BY <1>1, <1>6, <2>4, <3>1, <3>2 DEF Follows
    <2>5. ASSUME e.frame > c.frame + 1 PROVE <<e.frame - 1, "end">> \in g
      <3>1. CASE x.frame = e.frame
        <4>1. x.frame > c.frame + 1
          BY <2>5, <3>1
        <4> QED BY <1>2, <1>6, <3>1, <4>1 DEF Follows
      <3>2. CASE e.frame > x.frame + 1
        BY <1>2, <1>6, <3>2 DEF Follows
      <3>3. CASE x.frame # e.frame /\ ~(e.frame > x.frame + 1)
        <4>1. e.frame - 1 = x.frame
          BY <1>5, <2>1, <3>3
        <4>2. CASE x.end
          BY <1>3, <1>4, <4>1, <4>2
        <4>3. CASE ~x.end
          <5>1. <<x.frame, "end">> \in h
            BY <1>6, <3>3, <4>3 DEF Follows
          <5> QED BY <1>2, <4>1, <5>1
        <4> QED BY <4>2, <4>3
      <3> QED BY <3>1, <3>2, <3>3
    <2> QED BY <2>2, <2>3, <2>4, <2>5 DEF Follows
  <1>7. ASSUME Ends(h, n, x) PROVE <<n, "end">> \in g
    <2>1. SUFFICES ASSUME <<n, "end">> \notin g PROVE FALSE
      OBVIOUS
    <2>2. x.frame = n
      BY <1>1, <1>7, <2>1 DEF Ends
    <2>3. x.end
      BY <1>1, <1>7, <2>1, <2>2 DEF Ends
    <2> QED BY <1>3, <1>4, <2>1, <2>2, <2>3
  <1>8. ASSUME Follows(h, c, x), Ends(h, n, x) PROVE Ends(g, n, c)
    <2>1. ASSUME <<c.frame, "end">> \notin g, ~c.end PROVE FALSE
      <3>1. x.frame = c.frame
        BY <1>1, <1>8, <2>1 DEF Follows
      <3>2. x.end
        BY <1>1, <1>8, <2>1, <3>1 DEF Ends
      <3> QED BY <1>3, <1>4, <2>1, <3>1, <3>2
    <2> QED BY <2>1, <1>7, <1>8 DEF Ends
  <1>9. ASSUME Follows(h, x, e), WholeIn(g, e.frame) PROVE FALSE
    <2>1. /\ <<e.frame, "body">> \notin g /\ <<e.frame, "end">> \notin g /\ <<e.frame - 1, "end">> \notin g
      BY <1>9 DEF WholeIn
    <2>2. x.frame # e.frame
      BY <1>3, <1>4, <2>1
    <2>3. ~(e.frame > x.frame + 1)
      BY <1>1, <1>9, <2>1 DEF Follows
    <2>4. x.frame < e.frame
      BY <1>9, <2>2 DEF Follows
    <2>5. e.frame - 1 = x.frame
      BY <1>5, <2>3, <2>4
    <2>6. x.end
      BY <1>1, <1>9, <2>1, <2>2, <2>5 DEF Follows
    <2> QED BY <1>3, <1>4, <2>1, <2>5, <2>6
  <1> QED BY <1>6, <1>7, <1>8, <1>9

LEMMA DamagedParts ==
    ASSUME NEW d, NEW l, NEW s, NEW h, NEW r, LineInv(d, l, s, h, r), NEW i \in 1..Len(l)
    PROVE  h \cup {Part(l[i])} \subseteq Parts(Len(s))
  <1>1. l \in Seq(CellType) /\ Placed(d, s, l[i]) /\ h \subseteq Parts(Len(s))
    BY DEF LineInv, Flow
  <1>2. l[i] \in CellType
    BY <1>1, ElementOfSeq
  <1>3. Part(l[i]) \in Parts(Len(s))
    BY <1>1, <1>2 DEF Part, Parts, Placed
  <1> QED BY <1>1, <1>3

\* The line changes a byte.
LEMMA FlowChanged ==
    ASSUME NEW d, NEW l, NEW s, NEW h, NEW r, LineInv(d, l, s, h, r), d # "rx",
           NEW i \in 1..Len(l), NEW v \in Nat,
           NEW g, g = h \cup {Part(l[i])}, NEW k, k = [l EXCEPT ![i].byte = v]
    PROVE  LineInv(d, k, s, g, r)
  <1> SUFFICES ASSUME l \in Seq(CellType), s \in Seq(Frame), Flow(d, l, s, h), Ready(d, l, s, h, r)
               PROVE  k \in Seq(CellType) /\ Flow(d, k, s, g) /\ Ready(d, k, s, g, r)
    BY DamagedParts DEF LineInv
  <1>1. Len(l) \in Nat /\ Len(s) \in Nat /\ \A j \in 1..Len(l) : l[j] \in CellType
    BY LenProperties, ElementOfSeq
  <1>2. l \in [1..Len(l) -> CellType]
    BY LenProperties
  <1>3. PICK c : c = [l[i] EXCEPT !.byte = v]
    OBVIOUS
  <1>4. c \in CellType /\ c.frame = l[i].frame /\ c.at = l[i].at /\ c.end = l[i].end
    BY <1>1, <1>3 DEF CellType
  <1>5. k = [l EXCEPT ![i] = c]
    BY <1>3
  <1>6. k \in [1..Len(l) -> CellType] /\ k[i] = c /\ \A j \in 1..Len(l) : j # i => k[j] = l[j]
    BY <1>2, <1>4, <1>5
  <1>7. k \in Seq(CellType) /\ Len(k) = Len(l)
    BY <1>1, <1>6
  <1>8. \A j \in 1..Len(l) : /\ k[j] \in CellType /\ k[j].frame = l[j].frame
                             /\ k[j].at = l[j].at /\ k[j].end = l[j].end
    BY <1>1, <1>4, <1>6
  <1>9. h \subseteq g /\ \A p : p \notin g => p \notin h
    OBVIOUS
  <1>10. ASSUME NEW j \in 1..Len(k) PROVE Placed(d, s, k[j]) /\ Intact(d, s, g, k[j])
    <2>1. Placed(d, s, l[j]) /\ Intact(d, s, h, l[j]) /\ j \in 1..Len(l)
      BY <1>7 DEF Flow
    <2>2. Placed(d, s, k[j])
      BY <1>8, <2>1 DEF Placed
    <2>3. CASE j = i
      <3>1. Part(k[j]) = Part(l[i])
        BY <1>8, <2>3 DEF Part
      <3> QED BY <2>2, <3>1 DEF Intact
    <2>4. CASE j # i
      <3>1. k[j] = l[j]
        BY <1>6, <2>1, <2>4
      <3> QED BY <1>9, <2>1, <2>2, <3>1 DEF Intact
    <2> QED BY <2>3, <2>4
  <1>11. ASSUME NEW j \in 1..(Len(k) - 1) PROVE Follows(g, k[j], k[j + 1])
    <2>1. j \in 1..Len(l) /\ j + 1 \in 1..Len(l) /\ j \in 1..(Len(l) - 1)
      BY <1>1, <1>7
    <2>2. PICK a, b : a = l[j] /\ b = l[j + 1]
      OBVIOUS
    <2>3. a \in CellType /\ b \in CellType /\ Follows(h, a, b)
      BY <1>1, <2>1, <2>2 DEF Flow
    <2>4. Follows(g, a, b)
      BY <1>1, <1>9, <2>3, MoreHurt
    <2> QED BY <1>8, <2>1, <2>2, <2>4 DEF Follows
  <1>12. k # <<>> /\ l # <<>> /\ Len(l) \in 1..Len(l) /\ 1 \in 1..Len(l)
    BY <1>1, <1>7
  <1>13. Ends(g, Len(s), k[Len(k)])
    <2>1. PICK a, n : a = l[Len(l)] /\ n = Len(s)
      OBVIOUS
    <2>2. a \in CellType /\ Ends(h, n, a) /\ n \in Nat
      BY <1>1, <1>12, <2>1 DEF Flow
    <2>3. Ends(g, n, a)
      BY <1>9, <2>2, MoreHurt
    <2> QED BY <1>7, <1>8, <1>12, <2>1, <2>3 DEF Ends
  <1>14. Ready(d, k, s, g, r)
    <2>1. WholeIn(g, k[1].frame) => WholeIn(h, l[1].frame)
      BY <1>8, <1>9, <1>12 DEF WholeIn
    <2>2. WholeIn(h, l[1].frame) => At(d, s[l[1].frame], l[1].at - 1, r)
      BY <1>12 DEF Ready
    <2> QED BY <1>8, <1>12, <2>1, <2>2 DEF Ready
  <1> QED BY <1>7, <1>10, <1>11, <1>13, <1>14 DEF Flow

LEMMA RemoveAtFacts ==
    ASSUME NEW T, NEW l \in Seq(T), NEW i \in 1..Len(l)
    PROVE  /\ RemoveAt(l, i) \in Seq(T) /\ Len(RemoveAt(l, i)) = Len(l) - 1
           /\ \A j \in 1..(Len(l) - 1) : RemoveAt(l, i)[j] = IF j < i THEN l[j] ELSE l[j + 1]
  <1>1. Len(l) \in Nat /\ i \in Nat
    BY LenProperties
  <1>2. PICK n : n = Len(l)
    OBVIOUS
  <1>3. PICK p, q : p = SubSeq(l, 1, i - 1) /\ q = SubSeq(l, i + 1, n)
    OBVIOUS
  <1>4. p \in Seq(T) /\ Len(p) = i - 1 /\ \A j \in 1..(i - 1) : p[j] = l[j]
    <2>1. PICK m : m = i - 1
      OBVIOUS
    <2>2. m \in 0..Len(l) /\ p = SubSeq(l, 1, m)
      BY <1>1, <1>3, <2>1
    <2>3. p \in Seq(T) /\ Len(p) = m /\ \A j \in 1..m : p[j] = l[j]
      BY <1>1, <2>2
    <2> QED BY <2>1, <2>3
  <1>5. q \in Seq(T) /\ Len(q) = n - i /\ \A j \in 1..(n - i) : q[j] = l[j + i]
    <2>1. PICK m : m = i + 1
      OBVIOUS
    <2>2. m \in 1..(Len(l) + 1) /\ q = SubSeq(l, m, n) /\ m = i + 1
      BY <1>1, <1>3, <2>1
    <2>3. q \in Seq(T) /\ Len(q) = n - i /\ \A j \in 1..(n - i) : q[j] = l[i + j]
      BY <1>1, <1>2, <2>2
    <2>4. \A j \in 1..(n - i) : i + j = j + i
      BY <1>1, <1>2
    <2> QED BY <2>3, <2>4
  <1>6. RemoveAt(l, i) = p \o q
    BY <1>2, <1>3 DEF RemoveAt
  <1>7. PICK x, y : x = Len(p) /\ y = Len(q)
    OBVIOUS
  <1>8. /\ p \o q \in Seq(T) /\ Len(p \o q) = x + y
        /\ \A j \in 1..(x + y) : (p \o q)[j] = IF j <= x THEN p[j] ELSE q[j - x]
    BY <1>4, <1>5, <1>7, ConcatProperties
  <1>9. x = i - 1 /\ y = n - i /\ x + y = n - 1
    BY <1>1, <1>2, <1>4, <1>5, <1>7
  <1>10. ASSUME NEW j \in 1..(n - 1) PROVE (p \o q)[j] = IF j < i THEN l[j] ELSE l[j + 1]
    <2>1. (p \o q)[j] = IF j <= x THEN p[j] ELSE q[j - x]
      BY <1>8, <1>9
    <2>2. CASE j < i
      <3>1. j <= x /\ j \in 1..(i - 1)
        BY <1>1, <1>9, <2>2
      <3> QED BY <1>4, <2>1, <2>2, <3>1
    <2>3. CASE ~(j < i)
      <3>1. ~(j <= x) /\ j - x \in 1..(n - i) /\ (j - x) + i = j + 1
        BY <1>1, <1>2, <1>9, <2>3
      <3>2. q[j - x] = l[(j - x) + i]
        BY <1>5, <3>1
      <3> QED BY <2>1, <2>3, <3>1, <3>2
    <2> QED BY <2>2, <2>3
  <1> QED BY <1>2, <1>6, <1>8, <1>9, <1>10

\* The line drops a byte.
LEMMA FlowDropped ==
    ASSUME NEW d, NEW l, NEW s, NEW h, NEW r, LineInv(d, l, s, h, r), d # "rx",
           NEW i \in 1..Len(l),
           NEW g, g = h \cup {Part(l[i])}, NEW k, k = RemoveAt(l, i)
    PROVE  LineInv(d, k, s, g, r)
  <1> SUFFICES ASSUME l \in Seq(CellType), s \in Seq(Frame), Flow(d, l, s, h), Ready(d, l, s, h, r)
               PROVE  k \in Seq(CellType) /\ Flow(d, k, s, g) /\ Ready(d, k, s, g, r)
    BY DamagedParts DEF LineInv
  <1>1. Len(l) \in Nat /\ Len(s) \in Nat /\ i \in Nat /\ \A j \in 1..Len(l) : l[j] \in CellType
    BY LenProperties, ElementOfSeq
  <1>2. PICK n : n = Len(l)
    OBVIOUS
  <1>3. /\ k \in Seq(CellType) /\ Len(k) = n - 1
        /\ \A j \in 1..(n - 1) : k[j] = IF j < i THEN l[j] ELSE l[j + 1]
    <2>1. PICK T : T = CellType
      OBVIOUS
    <2>2. l \in Seq(T)
      BY <2>1
    <2> QED BY <1>2, <2>1, <2>2, RemoveAtFacts
  <1>4. h \subseteq g /\ \A p : p \notin g => p \notin h
    OBVIOUS
  <1>5. ASSUME NEW j \in 1..Len(k) PROVE Placed(d, s, k[j]) /\ Intact(d, s, g, k[j])
    <2>1. PICK m \in 1..Len(l) : k[j] = l[m]
      <3>1. CASE j < i
        <4>1. j \in 1..(n - 1) /\ j \in 1..Len(l)
          BY <1>1, <1>2, <1>3
        <4> QED BY <1>3, <3>1, <4>1
      <3>2. CASE ~(j < i)
        <4>1. j \in 1..(n - 1) /\ j + 1 \in 1..Len(l)
          BY <1>1, <1>2, <1>3
        <4> QED BY <1>3, <3>2, <4>1
      <3> QED BY <3>1, <3>2
    <2>2. Placed(d, s, l[m]) /\ Intact(d, s, h, l[m])
      BY DEF Flow
    <2> QED BY <1>4, <2>1, <2>2 DEF Intact
  <1>6. ASSUME NEW j \in 1..(Len(k) - 1) PROVE Follows(g, k[j], k[j + 1])
    <2>1. /\ j \in 1..(n - 1) /\ j + 1 \in 1..(n - 1) /\ n \in Nat /\ j \in Nat
          /\ j \in 1..Len(l) /\ j + 1 \in 1..Len(l) /\ j + 1 + 1 \in 1..Len(l) /\ j + 1 \in 1..(Len(l) - 1) /\ j \in 1..(Len(l) - 1)
      BY <1>1, <1>2, <1>3
    <2>2. PICK a, b, c : a = l[j] /\ b = l[j + 1] /\ c = l[j + 1 + 1]
      OBVIOUS
    <2>3. /\ a \in CellType /\ b \in CellType /\ c \in CellType
          /\ Follows(h, a, b) /\ Follows(h, b, c)
      BY <1>1, <2>1, <2>2 DEF Flow
    <2>4. Follows(g, a, b) /\ Follows(g, b, c)
      BY <1>1, <1>4, <2>3, MoreHurt
    <2>5. CASE j + 1 < i
      <3>1. j < i
        BY <1>1, <2>1, <2>5
      <3> QED BY <1>3, <2>1, <2>2, <2>4, <2>5, <3>1
    <2>6. CASE j + 1 = i
      <3>1. j < i /\ ~(j + 1 < i)
        BY <1>1, <2>1, <2>6
      <3>2. k[j] = a /\ k[j + 1] = c /\ g = h \cup {Part(b)}
        BY <1>3, <2>1, <2>2, <2>6, <3>1
      <3>3. Follows(g, a, c)
        <4>1. PICK m : m = Len(s)
          OBVIOUS
        <4>2. m \in Nat /\ g = h \cup {Part(b)}
          BY <1>1, <3>2, <4>1
        <4> QED BY <2>3, <4>2, Dropped
      <3> QED BY <3>2, <3>3
    <2>7. CASE j + 1 > i
      <3>1. ~(j < i) /\ ~(j + 1 < i)
        BY <1>1, <2>1, <2>7
      <3> QED BY <1>3, <2>1, <2>2, <2>4, <3>1
    <2> QED BY <1>1, <2>1, <2>5, <2>6, <2>7
  <1>7. ASSUME k # <<>> PROVE Ends(g, Len(s), k[Len(k)])
    <2>1. n \in Nat /\ n >= 2
      BY <1>1, <1>2, <1>3, <1>7, EmptySeq
    <2>2. PICK m, a, x : m = Len(s) /\ a = l[n - 1] /\ x = l[n]
      OBVIOUS
    <2>3. n - 1 \in 1..(n - 1) /\ n - 1 \in 1..Len(l) /\ n \in 1..Len(l) /\ n - 1 \in 1..(Len(l) - 1) /\ n - 1 + 1 = n /\ l # <<>>
      BY <1>2, <2>1
    <2>4. a \in CellType /\ x \in CellType /\ Follows(h, a, x) /\ Ends(h, m, x) /\ m \in Nat
      BY <1>1, <1>2, <2>2, <2>3 DEF Flow
    <2>5. CASE i = n
      <3>1. n - 1 < i /\ g = h \cup {Part(x)}
        BY <2>1, <2>2, <2>5
      <3>2. k[Len(k)] = a
        BY <1>3, <2>2, <2>3, <3>1
      <3>3. Ends(g, m, a)
        BY <2>4, <3>1, Dropped
      <3> QED BY <2>2, <3>2, <3>3
    <2>6. CASE i # n
      <3>1. ~(n - 1 < i)
        BY <1>1, <1>2, <2>1, <2>6
      <3>2. k[Len(k)] = x
        BY <1>3, <2>2, <2>3, <3>1
      <3>3. Ends(g, m, x)
        BY <1>4, <2>4, MoreHurt
      <3> QED BY <2>2, <3>2, <3>3
    <2> QED BY <2>5, <2>6
  <1>8. Ready(d, k, s, g, r)
    <2>1. CASE k = <<>>
      <3>1. n = 1 /\ i = n /\ l # <<>> /\ n \in 1..Len(l)
        <4>1. Len(k) = 0
          BY <2>1, EmptySeq
        <4>2. n - 1 = 0 /\ n \in Nat /\ i \in 1..n
          BY <1>1, <1>2, <1>3, <4>1
        <4>3. n = 1 /\ i = n
          BY <4>2
        <4>4. Len(l) = 1 /\ l # <<>>
          <5>1. Len(l) = 1
            BY <1>2, <4>3
          <5>2. Len(l) # 0
            BY <5>1
          <5> QED BY <5>1, <5>2, EmptySeq
        <4>5. n \in 1..Len(l)
          BY <4>3, <4>4
        <4> QED BY <4>3, <4>4, <4>5
      <3>2. PICK m, x : m = Len(s) /\ x = l[n]
        OBVIOUS
      <3>3. x \in CellType /\ Ends(h, m, x) /\ m \in Nat /\ g = h \cup {Part(x)}
        BY <1>1, <1>2, <3>1, <3>2 DEF Flow
      <3>4. <<m, "end">> \in g
        BY <3>3, Dropped
      <3> QED BY <2>1, <3>2, <3>4 DEF Ready
    <2>2. CASE k # <<>>
      <3>1. n \in Nat /\ n >= 2 /\ 1 \in 1..(n - 1) /\ l # <<>> /\ 1 \in 1..Len(l) /\ 1 + 1 \in 1..Len(l) /\ 1 \in 1..(Len(l) - 1)
        BY <1>1, <1>2, <1>3, <2>2, EmptySeq
      <3>2. CASE i = 1
        <4>1. PICK x, e : x = l[1] /\ e = l[1 + 1]
          OBVIOUS
        <4>2. x \in CellType /\ e \in CellType /\ Follows(h, x, e) /\ g = h \cup {Part(x)}
          BY <1>1, <3>1, <3>2, <4>1 DEF Flow
        <4>3. ~WholeIn(g, e.frame)
          BY <1>1, <4>2, Dropped
        <4>4. k[1] = e
          BY <1>3, <3>1, <3>2, <4>1
        <4> QED BY <2>2, <4>3, <4>4 DEF Ready
      <3>3. CASE i # 1
        <4>1. k[1] = l[1]
          <5>1. 1 < i
            BY <1>1, <3>3
          <5> QED BY <1>3, <3>1, <5>1
        <4>2. WholeIn(g, k[1].frame) => WholeIn(h, l[1].frame)
          BY <1>4, <4>1 DEF WholeIn
        <4> QED BY <2>2, <3>1, <4>1, <4>2 DEF Ready
      <3> QED BY <3>2, <3>3
    <2> QED BY <2>1, <2>2
  <1> QED BY <1>3, <1>5, <1>6, <1>7, <1>8 DEF Flow

IsCell(c, byte, n, j, end) == c.byte = byte /\ c.frame = n /\ c.at = j /\ c.end = end

\* The bytes of a new frame, as they are written.
LEMMA OnLineFacts ==
    ASSUME NEW d \in {"tx", "rx"}, NEW f \in Frame, NEW n \in Nat
    PROVE  /\ OnLine(Bytes(d, f), n) \in Seq(CellType) /\ Len(OnLine(Bytes(d, f), n)) = Span(d, f)
           /\ \A j \in 1..Span(d, f) :
                 IsCell(OnLine(Bytes(d, f), n)[j], Bytes(d, f)[j], n, j, j = Span(d, f))
  <1>1. PICK b, m : b = Bytes(d, f) /\ m = Span(d, f)
    OBVIOUS
  <1>2. b \in Seq(Nat) /\ Len(b) = m /\ m \in Nat
    BY <1>1, BytesLayout
  <1>3. \A j \in 1..m : b[j] \in Nat
    BY <1>2, ElementOfSeq
  <1>4. PICK o : o = OnLine(b, n)
    OBVIOUS
  <1>5. o = [j \in 1..m |-> [byte |-> b[j], frame |-> n, at |-> j, end |-> (j = m)]]
    BY <1>2, <1>4 DEF OnLine
  <1>6. \A j \in 1..m : [byte |-> b[j], frame |-> n, at |-> j, end |-> (j = m)] \in CellType
    BY <1>2, <1>3 DEF CellType
  <1>7. o \in [1..m -> CellType]
    BY <1>5, <1>6
  <1>8. o \in Seq(CellType) /\ Len(o) = m
    BY <1>2, <1>7
  <1>9. ASSUME NEW j \in 1..m PROVE IsCell(o[j], b[j], n, j, j = m)
    <2>1. o[j] = [byte |-> b[j], frame |-> n, at |-> j, end |-> (j = m)]
      BY <1>5
    <2> QED BY <2>1 DEF IsCell
  <1> QED BY <1>1, <1>4, <1>8, <1>9

\* A frame is written behind the bytes in flight.
LEMMA FlowWritten ==
    ASSUME NEW d, NEW l, NEW s, NEW h, NEW r, LineInv(d, l, s, h, r), NEW f \in Frame,
           NEW t, t = Append(s, f), NEW k, k = l \o OnLine(Bytes(d, f), Len(s) + 1)
    PROVE  LineInv(d, k, t, h, r)
  <1> SUFFICES ASSUME d \in {"tx", "rx"}, l \in Seq(CellType), s \in Seq(Frame),
                      h \subseteq Parts(Len(s)), Flow(d, l, s, h), Ready(d, l, s, h, r)
               PROVE  /\ k \in Seq(CellType) /\ t \in Seq(Frame) /\ h \subseteq Parts(Len(t))
                      /\ Flow(d, k, t, h) /\ Ready(d, k, t, h, r)
    BY DEF LineInv
  <1>1. Len(l) \in Nat /\ Len(s) \in Nat /\ \A j \in 1..Len(l) : l[j] \in CellType
    BY LenProperties, ElementOfSeq
  <1>2. PICK n, m, z, o : /\ n = Len(s) + 1 /\ m = Len(l) /\ z = Span(d, f)
                          /\ o = OnLine(Bytes(d, f), n)
    OBVIOUS
  <1>3. n \in Nat /\ m \in Nat /\ n = Len(s) + 1 /\ n - 1 = Len(s) /\ k = l \o o
    BY <1>1, <1>2
  <1>4. /\ o \in Seq(CellType) /\ Len(o) = z
        /\ \A j \in 1..z : IsCell(o[j], Bytes(d, f)[j], n, j, j = z)
    BY <1>2, <1>3, OnLineFacts
  <1>5. z \in Nat /\ z >= 1
    BY <1>2, BytesLayout
  <1>6. /\ k \in Seq(CellType) /\ Len(k) = m + z
        /\ \A j \in 1..(m + z) : k[j] = IF j <= m THEN l[j] ELSE o[j - m]
    <2>1. /\ l \o o \in Seq(CellType) /\ Len(l \o o) = Len(l) + Len(o)
          /\ \A j \in 1..(Len(l) + Len(o)) : (l \o o)[j] = IF j <= Len(l) THEN l[j] ELSE o[j - Len(l)]
      <3>1. PICK T : T = CellType
        OBVIOUS
      <3>2. l \in Seq(T) /\ o \in Seq(T)
        BY <1>4, <3>1
      <3> QED BY <3>1, <3>2, ConcatProperties
    <2> QED BY <1>2, <1>3, <1>4, <2>1
  <1>7. /\ t \in Seq(Frame) /\ Len(t) = n /\ t[n] = f
        /\ \A j \in 1..Len(s) : t[j] = s[j]
    <2>1. PICK T : T = Frame
      OBVIOUS
    <2>2. s \in Seq(T) /\ f \in T
      BY <2>1
    <2> QED BY <1>3, <2>1, <2>2, AppendProperties
  <1>8. h \subseteq Parts(Len(t)) /\ \A x : <<n, x>> \notin h
    <2>1. Parts(Len(s)) \subseteq Parts(n)
      <3>1. 1..Len(s) \subseteq 1..n
        BY <1>1, <1>3
      <3> QED BY <3>1 DEF Parts
    <2>2. \A x : <<n, x>> \notin Parts(Len(s))
      <3>1. n \notin 1..Len(s)
        BY <1>1, <1>3
      <3> QED BY <3>1 DEF Parts
    <2> QED BY <1>7, <2>1, <2>2
  <1>9. \A j \in 1..m : k[j] = l[j] /\ l[j] \in CellType
    <2>1. ASSUME NEW j \in 1..m PROVE k[j] = l[j] /\ l[j] \in CellType
      <3>1. j \in 1..(m + z) /\ j <= m
        BY <1>3, <1>5
      <3> QED BY <3>1, <1>1, <1>2, <1>6
    <2> QED BY <2>1
  <1>10. ASSUME NEW j \in 1..z
         PROVE  IsCell(k[m + j], Bytes(d, f)[j], n, j, j = z)
    <2>1. m + j \in 1..(m + z) /\ ~(m + j <= m) /\ m + j - m = j
      BY <1>3, <1>5
    <2>2. k[m + j] = o[j]
      <3>1. PICK i : i = m + j
        OBVIOUS
      <3>2. i \in 1..(m + z) /\ ~(i <= m) /\ i - m = j
        BY <1>3, <1>5, <3>1
      <3>3. k[i] = o[i - m]
        BY <1>6, <3>2
      <3> QED BY <3>1, <3>2, <3>3
    <2> QED BY <2>2, <1>4
  <1>11. ASSUME NEW j \in 1..m
         PROVE  /\ Placed(d, t, l[j]) /\ Intact(d, t, h, l[j])
                /\ l[j].frame \in 1..Len(s) /\ t[l[j].frame] = s[l[j].frame]
    <2>1. Placed(d, s, l[j]) /\ Intact(d, s, h, l[j])
      BY <1>2 DEF Flow
    <2>2. l[j].frame \in 1..Len(s) /\ t[l[j].frame] = s[l[j].frame]
      BY <1>7, <2>1 DEF Placed
    <2>3. l[j].frame \in 1..Len(t)
      BY <1>1, <1>3, <1>7, <2>2
    <2> QED BY <2>1, <2>2, <2>3 DEF Placed, Intact
  <1>12. ASSUME NEW j \in 1..Len(k) PROVE Placed(d, t, k[j]) /\ Intact(d, t, h, k[j])
    <2>1. CASE j <= m
      <3>1. j \in 1..m
        BY <1>3, <1>6, <2>1
      <3> QED BY <3>1, <1>9, <1>11
    <2>2. CASE ~(j <= m)
      <3>1. PICK i : i = j - m
        OBVIOUS
      <3>2. i \in 1..z /\ j = m + i
        BY <1>3, <1>5, <1>6, <2>2, <3>1
      <3>3. PICK c : c = k[j]
        OBVIOUS
      <3>4. c.byte = Bytes(d, f)[i] /\ c.frame = n /\ c.at = i /\ c.end = (i = z)
        BY <1>10, <3>2, <3>3 DEF IsCell
      <3>5. t[c.frame] = f /\ c.frame \in 1..Len(t)
        BY <1>3, <1>1, <1>7, <3>4
      <3> QED BY <1>2, <3>2, <3>3, <3>4, <3>5 DEF Placed, Intact
    <2> QED BY <2>1, <2>2
  <1>13. ASSUME NEW j \in 1..(Len(k) - 1) PROVE Follows(h, k[j], k[j + 1])
    <2>1. j \in Nat
      OBVIOUS
    <2>2. CASE j < m
      <3>1. j \in 1..m /\ j + 1 \in 1..m /\ j \in 1..(Len(l) - 1)
        BY <1>2, <1>3, <2>1, <2>2
      <3>2. Follows(h, l[j], l[j + 1])
        BY <3>1 DEF Flow
      <3> QED BY <3>1, <3>2, <1>9
    <2>3. CASE j = m
      <3>1. 1 \in 1..z /\ m + 1 = j + 1 /\ m \in 1..m /\ m = Len(l) /\ l # <<>>
        BY <1>2, <1>3, <1>5, <2>3
      <3>2. PICK c, e : c = k[j] /\ e = k[j + 1]
        OBVIOUS
      <3>3. e.frame = n /\ e.at = 1
        BY <1>10, <3>1, <3>2 DEF IsCell
      <3>4. c = l[m] /\ c \in CellType /\ c.frame \in 1..Len(s) /\ Ends(h, Len(s), c)
        BY <1>9, <1>11, <2>3, <3>1, <3>2 DEF Flow
      <3>5. c.frame < e.frame
        BY <1>1, <1>3, <3>3, <3>4
      <3>6. c.end \/ <<c.frame, "end">> \in h
        BY <3>4 DEF Ends
      <3>7. ASSUME e.frame > c.frame + 1 PROVE <<e.frame - 1, "end">> \in h
        <4>1. e.frame - 1 = Len(s) /\ c.frame # Len(s)
          BY <1>1, <1>3, <3>3, <3>4, <3>7
        <4> QED BY <3>4, <4>1 DEF Ends
      <3> QED BY <3>2, <3>3, <3>5, <3>6, <3>7 DEF Follows
    <2>4. CASE j > m
      <3>1. PICK i : i = j - m
        OBVIOUS
      <3>2. i \in 1..z /\ i + 1 \in 1..z /\ j = m + i /\ j + 1 = m + (i + 1) /\ i # z
        BY <1>3, <1>5, <1>6, <2>1, <2>4, <3>1
      <3>3. PICK c, e : c = k[j] /\ e = k[j + 1]
        OBVIOUS
      <3>4. c.frame = n /\ c.at = i /\ e.frame = n /\ e.at = i + 1
        <4>1. IsCell(k[m + i], Bytes(d, f)[i], n, i, i = z)
          BY <1>10, <3>2
        <4>2. PICK a : a = i + 1
          OBVIOUS
        <4>3. a \in 1..z /\ j + 1 = m + a
          BY <3>2, <4>2
        <4>4. IsCell(k[m + a], Bytes(d, f)[a], n, a, a = z)
          BY <1>10, <4>3
        <4>5. c = k[m + i] /\ e = k[m + a]
          BY <3>2, <3>3, <4>3
        <4>6. c.frame = n /\ c.at = i /\ e.frame = n /\ e.at = a
          BY <4>1, <4>4, <4>5 DEF IsCell
        <4> QED BY <4>2, <4>6
      <3>5. c.at < e.at /\ ~(e.frame > c.frame + 1)
        BY <1>3, <3>2, <3>4
      <3> QED BY <3>3, <3>4, <3>5 DEF Follows
    <2> QED BY <1>3, <2>1, <2>2, <2>3, <2>4
  <1>14. k # <<>> /\ Ends(h, Len(t), k[Len(k)])
    <2>1. m + z >= 1 /\ z \in 1..z
      BY <1>3, <1>5
    <2>2. k[Len(k)].frame = n /\ k[Len(k)].end
      BY <1>6, <1>10, <2>1 DEF IsCell
    <2>3. k # <<>>
      BY <1>6, <2>1, EmptySeq
    <2> QED BY <1>7, <2>2, <2>3 DEF Ends
  <1>15. Ready(d, k, t, h, r)
    <2>1. CASE l = <<>>
      <3>1. m = 0 /\ 1 \in 1..z /\ m + 1 = 1
        BY <1>2, <1>5, <2>1, EmptySeq
      <3>2. k[1].frame = n /\ k[1].at = 1
        <4>1. IsCell(k[m + 1], Bytes(d, f)[1], n, 1, 1 = z)
          BY <1>10, <3>1
        <4>2. k[m + 1] = k[1]
          BY <3>1
        <4> QED BY <4>1, <4>2 DEF IsCell
      <3>3. ASSUME WholeIn(h, n) PROVE At(d, f, 0, r)
        <4>1. <<Len(s), "end">> \notin h
          BY <1>3, <3>3 DEF WholeIn
        <4>2. r = Clean(d)
          BY <2>1, <4>1 DEF Ready
        <4> QED BY <4>2, AtStart
      <3>4. k[1].at - 1 = 0
        <4>1. 1 - 1 = 0
          OBVIOUS
        <4> QED BY <3>2, <4>1, Zenon
      <3> QED BY <1>7, <1>14, <3>2, <3>3, <3>4 DEF Ready
    <2>2. CASE l # <<>>
      <3>1. 1 \in 1..m
        BY <1>1, <1>2, <2>2, EmptySeq
      <3>2. k[1] = l[1] /\ t[l[1].frame] = s[l[1].frame]
        BY <1>9, <1>11, <3>1
      <3> QED BY <1>14, <2>2, <3>2 DEF Ready
    <2> QED BY <2>1, <2>2
  <1> QED BY <1>6, <1>7, <1>8, <1>12, <1>13, <1>14, <1>15 DEF Flow

\* What is handed on with byte c.
HandedOn(h, s, c, q) ==
    /\ s[c.frame] \in Frame
    /\ WholeIn(h, c.frame) => q.out = IF c.end THEN <<s[c.frame]>> ELSE <<>>

\* The reader takes the next byte: a whole frame comes out with its last byte
\* and nothing comes out of it before.
LEMMA FlowRead ==
    ASSUME NEW d, NEW l, NEW s, NEW h, NEW r, LineInv(d, l, s, h, r), l # <<>>,
           NEW c, c = l[1], NEW k, k = Tail(l), NEW q, q = Read(d, r, c.byte)
    PROVE  LineInv(d, k, s, h, q.d) /\ HandedOn(h, s, c, q)
  <1> SUFFICES ASSUME d \in {"tx", "rx"}, l \in Seq(CellType), s \in Seq(Frame),
                      d = "rx" => h = {}, Flow(d, l, s, h), Ready(d, l, s, h, r)
               PROVE  /\ k \in Seq(CellType) /\ s[c.frame] \in Frame
                      /\ Flow(d, k, s, h) /\ Ready(d, k, s, h, q.d)
                      /\ WholeIn(h, c.frame) => q.out = IF c.end THEN <<s[c.frame]>> ELSE <<>>
    BY DEF LineInv, HandedOn
  <1>1. Len(l) \in Nat /\ Len(s) \in Nat /\ \A j \in 1..Len(l) : l[j] \in CellType
    BY LenProperties, ElementOfSeq
  <1>2. PICK n : n = Len(l)
    OBVIOUS
  <1>3. /\ n \in Nat /\ n >= 1 /\ k \in Seq(CellType) /\ Len(k) = n - 1
        /\ \A j \in 1..(n - 1) : k[j] = l[j + 1]
    <2>1. n \in Nat /\ n # 0
      BY <1>1, <1>2, EmptySeq
    <2>2. PICK T : T = CellType
      OBVIOUS
    <2>3. l \in Seq(T)
      BY <2>2
    <2>4. k \in Seq(T) /\ Len(k) = Len(l) - 1 /\ \A j \in 1..(Len(l) - 1) : k[j] = l[j + 1]
      BY <2>3, HeadTailProperties
    <2> QED BY <1>2, <2>1, <2>2, <2>4
  <1>4. 1 \in 1..Len(l) /\ n \in 1..Len(l)
    BY <1>2, <1>3
  <1>5. c \in CellType /\ Placed(d, s, c) /\ Intact(d, s, h, c)
    BY <1>1, <1>4 DEF Flow
  <1>6. PICK f, z : f = s[c.frame] /\ z = Span(d, f)
    OBVIOUS
  <1>7. /\ c.frame \in 1..Len(s) /\ f \in Frame /\ c.at \in 1..z /\ c.end = (c.at = z)
        /\ z \in Nat /\ c.frame \in Nat /\ c.at \in Nat /\ c.end \in BOOLEAN
    <2>1. c.frame \in 1..Len(s) /\ c.at \in 1..z /\ c.end = (c.at = z)
      BY <1>5, <1>6 DEF Placed
    <2>2. f \in Frame
      BY <1>6, <2>1, ElementOfSeq
    <2>3. z \in Nat
      BY <1>6, <2>2, BytesLayout
    <2> QED BY <1>5, <2>1, <2>2, <2>3 DEF CellType
  <1>8. Flow(d, k, s, h)
    <2>1. ASSUME NEW j \in 1..Len(k) PROVE Placed(d, s, k[j]) /\ Intact(d, s, h, k[j])
      <3>1. j \in 1..(n - 1) /\ j + 1 \in 1..Len(l)
        BY <1>2, <1>3
      <3> QED BY <1>3, <3>1 DEF Flow
    <2>2. ASSUME NEW j \in 1..(Len(k) - 1) PROVE Follows(h, k[j], k[j + 1])
      <3>1. j \in 1..(n - 1) /\ j + 1 \in 1..(n - 1) /\ j + 1 \in 1..(Len(l) - 1)
        BY <1>2, <1>3
      <3>2. Follows(h, l[j + 1], l[j + 1 + 1])
        BY <3>1 DEF Flow
      <3> QED BY <1>3, <3>1, <3>2
    <2>3. ASSUME k # <<>> PROVE Ends(h, Len(s), k[Len(k)])
      <3>1. n - 1 # 0
        BY <1>3, <2>3, EmptySeq
      <3>2. n - 1 \in 1..(n - 1) /\ n - 1 + 1 = Len(l)
        BY <1>2, <1>3, <3>1
      <3>3. k[Len(k)] = l[Len(l)]
        BY <1>3, <3>2
      <3> QED BY <3>3 DEF Flow
    <2> QED BY <2>1, <2>2, <2>3 DEF Flow
  <1>9. ASSUME WholeIn(h, c.frame)
        PROVE  /\ ~c.end => At(d, f, c.at, q.d) /\ q.out = <<>>
               /\ c.end => q.d = Clean(d) /\ q.out = <<f>>
    <2>1. Part(c) \notin h
      BY <1>9 DEF WholeIn, Part
    <2>2. c.byte = Bytes(d, f)[c.at]
      BY <1>5, <1>6, <2>1 DEF Intact
    <2>3. PICK j : j = c.at - 1
      OBVIOUS
    <2>4. j \in Nat /\ j < z /\ j + 1 = c.at
      BY <1>7, <2>3
    <2>5. At(d, f, j, r)
      BY <1>6, <1>9, <2>3 DEF Ready
    <2>6. PICK x : x = c.byte
      OBVIOUS
    <2>7. j < Span(d, f) /\ x = Bytes(d, f)[j + 1]
      BY <1>6, <2>2, <2>4, <2>6
    <2>8. /\ j + 1 < Span(d, f) => At(d, f, j + 1, Read(d, r, x).d) /\ Read(d, r, x).out = <<>>
          /\ j + 1 = Span(d, f) => Read(d, r, x).d = Clean(d) /\ Read(d, r, x).out = <<f>>
      <3>1. Reading(d, f, j, r)
        BY <1>7, <2>4, <2>5, <2>7 DEF Reading
      <3>2. TookByte(d, f, j + 1, Read(d, r, x))
        BY <2>7, <3>1, ReaderStep
      <3> QED BY <3>2 DEF TookByte
    <2>9. CASE c.end
      <3>1. j + 1 = Span(d, f)
        BY <1>6, <1>7, <2>4, <2>9
      <3> QED BY <2>6, <2>8, <2>9, <3>1
    <2>10. CASE ~c.end
      <3>1. j + 1 < Span(d, f)
        <4>1. c.at # z
          BY <1>7, <2>10
        <4>2. j + 1 \in 1..z /\ j + 1 # z /\ z \in Nat /\ j \in Nat
          BY <1>7, <2>4, <4>1
        <4>3. j + 1 < z
          BY <4>2
        <4> QED BY <1>6, <4>3
      <3> QED BY <2>4, <2>6, <2>8, <2>10, <3>1
    <2> QED BY <2>9, <2>10
  <1>10. ASSUME c.end, <<c.frame, "end">> \notin h PROVE q.d = Clean(d)
    <2>1. Part(c) \notin h /\ c.at = z
      BY <1>7, <1>10 DEF Part
    <2>2. c.byte = FLAG
      <3>1. c.byte = Bytes(d, f)[z]
        BY <1>5, <1>6, <2>1 DEF Intact
      <3> QED BY <1>6, <1>7, <3>1, BytesLayout
    <2>3. CASE d = "tx"
      BY <2>2, <2>3 DEF Read, decode_byte, Clean
    <2>4. CASE d = "rx"
      <3>1. WholeIn(h, c.frame)
        BY <2>4 DEF WholeIn
      <3> QED BY <1>9, <1>10, <3>1
    <2> QED BY <2>3, <2>4
  <1>11. Ready(d, k, s, h, q.d)
    <2>1. CASE k = <<>>
      <3>1. n = 1
        <4>1. Len(k) = 0
          BY <2>1, EmptySeq
        <4> QED BY <1>3, <4>1
      <3>2. Ends(h, Len(s), c)
        BY <1>2, <3>1 DEF Flow
      <3>3. ASSUME <<Len(s), "end">> \notin h PROVE q.d = Clean(d)
        <4>1. c.frame = Len(s)
          BY <3>2, <3>3 DEF Ends
        <4>2. c.end /\ <<c.frame, "end">> \notin h
          BY <3>2, <3>3, <4>1 DEF Ends
        <4> QED BY <1>10, <4>2
      <3> QED BY <2>1, <3>3 DEF Ready
    <2>2. CASE k # <<>>
      <3>1. n - 1 # 0
        BY <1>3, <2>2, EmptySeq
      <3>2. PICK e : e = l[1 + 1]
        OBVIOUS
      <3>3. 1 \in 1..(n - 1) /\ 1 \in 1..(Len(l) - 1) /\ 1 + 1 \in 1..Len(l)
        BY <1>2, <1>3, <3>1
      <3>4. k[1] = e /\ e \in CellType /\ Follows(h, c, e)
        BY <1>1, <1>3, <3>2, <3>3 DEF Flow
      <3>5. e.frame \in Nat /\ e.at \in Nat
        BY <3>4 DEF CellType
      <3>6. Placed(d, s, e)
        BY <3>2, <3>3 DEF Flow
      <3>7. ASSUME WholeIn(h, e.frame) PROVE At(d, s[e.frame], e.at - 1, q.d)
        <4>1. /\ <<e.frame, "body">> \notin h /\ <<e.frame, "end">> \notin h
              /\ <<e.frame - 1, "end">> \notin h
          BY <3>7 DEF WholeIn
        <4>2. e.at = 1 \/ (c.frame = e.frame /\ e.at = c.at + 1)
          BY <3>4, <4>1 DEF Follows
        <4>3. c.frame < e.frame \/ (c.frame = e.frame /\ c.at < e.at)
          BY <3>4 DEF Follows
        <4>4. CASE c.frame = e.frame
          <5>1. c.at < e.at
            BY <1>7, <3>5, <4>3, <4>4
          <5>2. e.at = c.at + 1
            BY <1>7, <3>5, <4>2, <5>1
          <5>3. e.at <= z
            BY <1>6, <3>6, <4>4, <1>7 DEF Placed
          <5>4. ~c.end /\ e.at - 1 = c.at
            <6>1. PICK a : a = c.at
              OBVIOUS
            <6>2. a \in Nat /\ a + 1 <= z /\ z \in Nat /\ e.at = a + 1
              BY <1>7, <5>2, <5>3, <6>1
            <6>3. a # z /\ e.at - 1 = a
              BY <6>2
            <6> QED BY <1>7, <6>1, <6>3
          <5>5. At(d, f, c.at, q.d)
            BY <1>9, <3>7, <4>4, <5>4
          <5> QED BY <1>6, <4>4, <5>4, <5>5
        <4>5. CASE c.frame # e.frame
          <5>1. e.at = 1 /\ c.frame < e.frame /\ e.at - 1 = 0
            BY <3>5, <4>2, <4>3, <4>5
          <5>2. ~(e.frame > c.frame + 1)
            BY <3>4, <4>1 DEF Follows
          <5>3. e.frame - 1 = c.frame
            BY <1>7, <3>5, <5>1, <5>2
          <5>4. <<c.frame, "end">> \notin h
            BY <4>1, <5>3
          <5>5. c.end
            BY <1>7, <3>4, <4>5, <5>4 DEF Follows
          <5>6. q.d = Clean(d)
            BY <1>10, <5>4, <5>5
          <5>7. s[e.frame] \in Frame
            BY <3>6, ElementOfSeq DEF Placed
          <5> QED BY <5>1, <5>6, <5>7, AtStart
        <4> QED BY <4>4, <4>5
      <3> QED BY <2>2, <3>4, <3>7 DEF Ready
    <2> QED BY <2>1, <2>2
  <1>12. WholeIn(h, c.frame) => q.out = IF c.end THEN <<f>> ELSE <<>>
    BY <1>7, <1>9
  <1> QED BY <1>3, <1>6, <1>7, <1>8, <1>11, <1>12

LEMMA PayloadFrames ==
    ASSUME NEW n \in Nat, NEW p \in Payloads
    PROVE  [seq |-> n, type |-> Len(p) + 1, payload |-> p] \in Frame
  <1>1. p \in Seq(0..255)
    BY WireAssumption
  <1>2. p \in Seq(Nat) /\ Len(p) \in Nat
    <2>1. PICK m : m = Len(p)
      OBVIOUS
    <2>2. m \in Nat /\ p \in [1..m -> 0..255]
      BY <1>1, <2>1, LenProperties
    <2>3. p \in [1..m -> Nat]
      <3>1. \A j \in 1..m : p[j] \in 0..255
        BY <2>2
      <3>2. \A j \in 1..m : p[j] \in Nat
        BY <3>1
      <3>3. p = [j \in 1..m |-> p[j]]
        BY <2>2
      <3> QED BY <3>2, <3>3
    <2> QED BY <2>1, <2>2, <2>3
  <1> QED BY <1>2 DEF Frame

LEMMA WholeFacts ==
    \A n : Whole(n) <=> WholeIn(hurt, n)
  BY DEF Whole, WholeIn

LEMMA InitWire ==
    WireInit => WireInv
  <1>1. SUFFICES ASSUME WireInit PROVE WireInv
    OBVIOUS
  <1>2. /\ line = <<>> /\ sent = <<>> /\ due = <<>> /\ got = <<>> /\ hurt = {}
        /\ dir \in {"tx", "rx"} /\ reader = Clean(dir)
    BY <1>1 DEF WireInit, Clean
  <1>3. seq_no \in 0..255
    BY <1>1, WireAssumption DEF WireInit
  <1>4. line \in Seq(CellType) /\ sent \in Seq(Frame) /\ due \in Seq(Frame) /\ Len(line) = 0
    BY <1>2, EmptySeq
  <1>5. Flow(dir, line, sent, hurt)
    BY <1>2, <1>4 DEF Flow
  <1>6. Ready(dir, line, sent, hurt, reader)
    BY <1>2 DEF Ready
  <1> QED BY <1>2, <1>3, <1>4, <1>5, <1>6 DEF WireInv, LineInv

\* What a delivery adds: the whole frame that ends with this byte, or nothing
\* that is due.
Delivers ==
    /\ due' # due => got' = got \o SubSeq(due', Len(due) + 1, Len(due'))
    /\ dir = "rx" /\ got = due => got' = due'

LEMMA StepWritten ==
    ASSUME WireInv, NEW p \in Payloads, record(Len(p) + 1, p) \/ send(Len(p) + 1, p)
    PROVE  WireInv' /\ due' = due
  <1>1. seq_no \in Nat /\ (seq_no + 1) % 256 \in 0..255 /\ (seq_no + 1) % 256 \in Nat
    BY DEF WireInv
  <1>2. /\ LineInv(dir, line, sent, hurt, reader) /\ due \in Seq(Frame)
        /\ dir = "rx" => got = due
    BY DEF WireInv
  <1>3. /\ dir' = dir /\ reader' = reader /\ got' = got /\ due' = due /\ hurt' = hurt
        /\ seq_no' \in 0..255
    BY <1>1 DEF record, send
  <1>4. \/ line' = line /\ sent' = sent
        \/ \E f \in Frame : /\ line' = line \o OnLine(Bytes(dir, f), Len(sent) + 1)
                            /\ sent' = Append(sent, f)
    <2>1. CASE record(Len(p) + 1, p)
      <3>1. PICK n : n = (seq_no + 1) % 256
        OBVIOUS
      <3>2. PICK f : f = [seq |-> n, type |-> Len(p) + 1, payload |-> p]
        OBVIOUS
      <3>3. f \in Frame
        BY <1>1, <3>1, <3>2, PayloadFrames
      <3>4. dir = "tx" /\ Bytes(dir, f) = build_frame(f)
        BY <2>1 DEF record, Bytes
      <3>5. \/ line' = line /\ sent' = sent
            \/ line' = line \o OnLine(build_frame(f), Len(sent) + 1) /\ sent' = Append(sent, f)
        BY <2>1, <3>1, <3>2 DEF record
      <3> QED BY <3>3, <3>4, <3>5
    <2>2. CASE send(Len(p) + 1, p)
      <3>1. PICK f : f = [seq |-> seq_no, type |-> Len(p) + 1, payload |-> p]
        OBVIOUS
      <3>2. f \in Frame
        BY <1>1, <3>1, PayloadFrames
      <3>3. dir = "rx" /\ Bytes(dir, f) = command_frame(f)
        BY <2>2 DEF send, Bytes
      <3>4. line' = line \o OnLine(command_frame(f), Len(sent) + 1) /\ sent' = Append(sent, f)
        BY <2>2, <3>1 DEF send
      <3> QED BY <3>2, <3>3, <3>4
    <2> QED BY <2>1, <2>2
  <1>5. LineInv(dir', line', sent', hurt', reader')
    <2>1. CASE line' = line /\ sent' = sent
      BY <1>2, <1>3, <2>1
    <2>2. ASSUME NEW f \in Frame, line' = line \o OnLine(Bytes(dir, f), Len(sent) + 1),
                 sent' = Append(sent, f)
          PROVE  LineInv(dir', line', sent', hurt', reader')
      <3>1. PICK d, l, s, h, r, k, t : /\ d = dir /\ l = line /\ s = sent /\ h = hurt /\ r = reader
                                       /\ k = line' /\ t = sent'
        OBVIOUS
      <3>2. /\ LineInv(d, l, s, h, r)
            /\ t = Append(s, f) /\ k = l \o OnLine(Bytes(d, f), Len(s) + 1)
        BY <1>2, <2>2, <3>1
      <3>3. LineInv(d, k, t, h, r)
        BY <3>2, FlowWritten
      <3> QED BY <1>3, <3>1, <3>3
    <2> QED BY <1>4, <2>1, <2>2
  <1> QED BY <1>2, <1>3, <1>5 DEF WireInv

LEMMA StepDamaged ==
    ASSUME WireInv, Damage
    PROVE  WireInv' /\ due' = due
  <1>1. LineInv(dir, line, sent, hurt, reader) /\ seq_no \in 0..255 /\ due \in Seq(Frame)
    BY DEF WireInv
  <1>2. /\ dir = "tx" /\ dir' = dir /\ seq_no' = seq_no /\ reader' = reader /\ got' = got
        /\ sent' = sent /\ due' = due
    BY DEF Damage
  <1>3. PICK i \in 1..Len(line) :
             /\ hurt' = hurt \cup {Part(line[i])}
             /\ \/ line' = RemoveAt(line, i)
                \/ \E v \in Noise : line' = [line EXCEPT ![i].byte = v]
    BY DEF Damage, Part
  <1>4. PICK d, l, s, h, r, k, g : /\ d = dir /\ l = line /\ s = sent /\ h = hurt /\ r = reader
                                   /\ k = line' /\ g = hurt'
    OBVIOUS
  <1>5. LineInv(d, l, s, h, r) /\ i \in 1..Len(l) /\ g = h \cup {Part(l[i])} /\ d # "rx"
    BY <1>1, <1>2, <1>3, <1>4
  <1>6. LineInv(d, k, s, g, r)
    <2>1. CASE k = RemoveAt(l, i)
      BY <1>5, <2>1, FlowDropped
    <2>2. ASSUME NEW v \in Noise, k = [l EXCEPT ![i].byte = v]
          PROVE  LineInv(d, k, s, g, r)
      <3>1. v \in Nat
        BY WireAssumption
      <3> QED BY <1>5, <2>2, <3>1, FlowChanged
    <2> QED BY <1>3, <1>4, <2>1, <2>2
  <1>7. LineInv(dir', line', sent', hurt', reader')
    BY <1>2, <1>4, <1>6
  <1>8. dir' # "rx"
    BY <1>2
  <1> QED BY <1>1, <1>2, <1>7, <1>8 DEF WireInv

LEMMA StepRead ==
    ASSUME WireInv, Deliver
    PROVE  WireInv' /\ Delivers
  <1>1. /\ LineInv(dir, line, sent, hurt, reader) /\ seq_no \in 0..255 /\ due \in Seq(Frame)
        /\ line \in Seq(CellType) /\ (dir = "rx" => hurt = {} /\ got = due)
    BY DEF WireInv, LineInv
  <1>2. line # <<>> /\ line' = Tail(line) /\ dir' = dir /\ seq_no' = seq_no /\ sent' = sent /\ hurt' = hurt
    BY DEF Deliver
  <1>3. PICK d, l, s, h, r, k, c, q :
             /\ d = dir /\ l = line /\ s = sent /\ h = hurt /\ r = reader
             /\ k = line' /\ c = line[1] /\ q = Read(dir, reader, line[1].byte)
    OBVIOUS
  <1>4. /\ reader' = q.d /\ got' = got \o q.out
        /\ due' = IF c.end /\ Whole(c.frame) THEN Append(due, sent[c.frame]) ELSE due
    <2>1. Head(line) = c
      BY <1>1, <1>2, <1>3, HeadTailProperties
    <2>2. q = IF dir = "tx" THEN decode_byte(reader, c.byte) ELSE push(reader, c.byte)
      BY <1>3 DEF Read
    <2> QED BY <2>1, <2>2 DEF Deliver
  <1>5. /\ LineInv(d, l, s, h, r) /\ l # <<>>
        /\ c = l[1] /\ k = Tail(l) /\ q = Read(d, r, c.byte)
    BY <1>1, <1>2, <1>3
  <1>6. /\ LineInv(d, k, s, h, q.d) /\ s[c.frame] \in Frame
        /\ WholeIn(h, c.frame) => q.out = IF c.end THEN <<s[c.frame]>> ELSE <<>>
    <2>1. LineInv(d, k, s, h, q.d) /\ HandedOn(h, s, c, q)
      BY <1>5, FlowRead
    <2> QED BY <2>1 DEF HandedOn
  <1>7. PICK f : f = s[c.frame]
    OBVIOUS
  <1>8. f \in Frame /\ Append(due, f) \in Seq(Frame) /\ due \o <<f>> = Append(due, f)
    <2>1. PICK T, u : T = Frame /\ u = due
      OBVIOUS
    <2>2. u \in Seq(T) /\ f \in T
      BY <1>1, <1>6, <1>7, <2>1
    <2>3. Append(u, f) \in Seq(T) /\ u \o <<f>> = Append(u, f)
      BY <2>2, AppendProperties, AppendIsConcat
    <2> QED BY <2>1, <2>2, <2>3
  <1>9. due' \in Seq(Frame)
    BY <1>1, <1>3, <1>4, <1>7, <1>8
  <1>10. ASSUME due' # due PROVE got' = got \o <<f>> /\ due' = Append(due, f)
    <2>1. c.end /\ Whole(c.frame) /\ due' = Append(due, f)
      BY <1>3, <1>4, <1>7, <1>10
    <2>2. WholeIn(h, c.frame)
      BY <1>3, <2>1, WholeFacts
    <2> QED BY <1>4, <1>6, <1>7, <2>1, <2>2
  <1>11. ASSUME due' # due PROVE got' = got \o SubSeq(due', Len(due) + 1, Len(due'))
    <2>1. PICK u, v, n : u = due /\ v = due' /\ n = Len(due) + 1
      OBVIOUS
    <2>2. u \in Seq(Frame) /\ v = Append(u, f) /\ n = Len(u) + 1
      BY <1>1, <1>10, <1>11, <2>1
    <2>3. v \in Seq(Frame) /\ Len(v) = n /\ v[n] = f /\ n \in Nat /\ n >= 1
      <3>1. PICK T : T = Frame
        OBVIOUS
      <3>2. u \in Seq(T) /\ f \in T
        BY <1>8, <2>2, <3>1
      <3>3. /\ Append(u, f) \in Seq(T) /\ Len(Append(u, f)) = Len(u) + 1
            /\ Append(u, f)[Len(u) + 1] = f
        BY <3>2, AppendProperties
      <3>4. Len(u) \in Nat
        BY <3>2, LenProperties
      <3> QED BY <2>2, <3>1, <3>3, <3>4
    <2>4. SubSeq(v, n, n) = <<f>>
      <3>1. PICK w, y : w = SubSeq(v, n, n) /\ y = <<f>>
        OBVIOUS
      <3>2. w \in Seq(Frame) /\ Len(w) = 1 /\ w[1] = v[n]
        BY <2>3, <3>1
      <3>3. y \in Seq(Frame) /\ Len(y) = 1 /\ y[1] = f
        BY <1>8, <3>1
      <3>4. Len(w) = Len(y) /\ \A j \in 1..Len(w) : w[j] = y[j]
        BY <2>3, <3>2, <3>3
      <3>5. w = y
        BY <3>2, <3>3, <3>4, SeqEqual
      <3> QED BY <3>1, <3>5
    <2> QED BY <1>10, <1>11, <2>1, <2>3, <2>4
  <1>12. ASSUME dir = "rx", got = due PROVE got' = due'
    <2>1. WholeIn(h, c.frame) /\ Whole(c.frame)
      BY <1>1, <1>3, <1>12, WholeFacts DEF WholeIn
    <2>2. CASE c.end
      <3>1. q.out = <<f>> /\ due' = Append(due, f)
        BY <1>3, <1>4, <1>6, <1>7, <2>1, <2>2
      <3> QED BY <1>4, <1>8, <1>12, <3>1
    <2>3. CASE ~c.end
      <3>1. q.out = <<>> /\ due' = due
        BY <1>4, <1>6, <2>1, <2>3
      <3>2. due \o <<>> = due
        BY <1>1, ConcatEmptySeq
      <3> QED BY <1>4, <1>12, <3>1, <3>2
    <2> QED BY <2>2, <2>3
  <1>13. LineInv(dir', line', sent', hurt', reader') /\ seq_no' \in 0..255
    BY <1>1, <1>2, <1>3, <1>4, <1>6
  <1>14. dir' = "rx" => got' = due'
    BY <1>1, <1>2, <1>12
  <1>15. WireInv'
    BY <1>9, <1>13, <1>14 DEF WireInv
  <1>16. Delivers
    BY <1>11, <1>12 DEF Delivers
  <1> QED BY <1>15, <1>16

LEMMA StepBroken ==
    ASSUME WireInv, Break
    PROVE  WireInv' /\ due' = due
  <1>1. /\ dir = "rx" /\ line' = <<>> /\ reader' = Clean(dir)
        /\ dir' = dir /\ seq_no' = seq_no /\ got' = got /\ sent' = sent /\ due' = due /\ hurt' = hurt
    BY DEF Break, Clean
  <1>2. line' \in Seq(CellType) /\ Len(line') = 0
    BY <1>1, EmptySeq
  <1>3. Flow(dir', line', sent', hurt')
    BY <1>1, <1>2 DEF Flow
  <1>4. Ready(dir', line', sent', hurt', reader')
    BY <1>1 DEF Ready
  <1> QED BY <1>1, <1>2, <1>3, <1>4 DEF WireInv, LineInv

LEMMA StepWire ==
    ASSUME WireInv, [WireNext]_wireVars
    PROVE  /\ WireInv'
           /\ due' # due => got' = got \o SubSeq(due', Len(due) + 1, Len(due'))
  <1>1. CASE \E p \in Payloads : record(Len(p) + 1, p) \/ send(Len(p) + 1, p)
    BY <1>1, StepWritten
  <1>2. CASE Deliver
    BY <1>2, StepRead DEF Delivers
  <1>3. CASE Damage
    BY <1>3, StepDamaged
  <1>4. CASE Break
    BY <1>4, StepBroken
  <1>5. CASE UNCHANGED wireVars
    <2>1. /\ dir' = dir /\ seq_no' = seq_no /\ line' = line /\ reader' = reader /\ got' = got
          /\ sent' = sent /\ due' = due /\ hurt' = hurt
      BY <1>5 DEF wireVars
    <2> QED BY <2>1 DEF WireInv
  <1> QED BY <1>1, <1>2, <1>3, <1>4, <1>5 DEF WireNext

\* The invariant of the byte streams: the bytes in flight are laid out as they
\* were written but for the recorded damage, and the reader stands in the frame
\* whose byte comes next where its earlier bytes have brought it.
THEOREM WireInvariance ==
    WireSpec => []WireInv
  <1>1. WireInit => WireInv
    BY InitWire
  <1>2. WireInv /\ [WireNext]_wireVars => WireInv'
    BY StepWire
  <1> QED BY <1>1, <1>2, PTL DEF WireSpec

\* RxParser: the target executes exactly the commands that reached it whole, in
\* the order they were sent, for every payload and every place a connection may
\* break at.
THEOREM CommandsParsedTheorem ==
    WireSpec => []CommandsParsed
  <1>1. WireInv => CommandsParsed
    BY DEF WireInv, CommandsParsed
  <1> QED BY <1>1, WireInvariance, PTL

\* Both readers: a whole frame comes out with its last byte, as it was sent and
\* alone, for every payload and any amount of damage before it.
THEOREM WholeDecodedTheorem ==
    WireSpec => WholeDecoded
  <1>1. WireInv /\ [WireNext]_wireVars =>
           [due' # due => got' = got \o SubSeq(due', Len(due) + 1, Len(due'))]_wireVars
    BY StepWire
  <1> QED BY <1>1, WireInvariance, PTL DEF WireSpec, WholeDecoded

=============================================================================
