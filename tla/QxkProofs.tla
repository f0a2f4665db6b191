----------------------------- MODULE QxkProofs -----------------------------
(***************************************************************************)
(* Proofs about the QXK kernel and its primitives (QxkSync.tla), for any   *)
(* number of cores, interrupts, active objects, threads and ceilings, in   *)
(* the smp and in the single-core build.  The inductive invariant has six  *)
(* parts: types, the shape of calls under way, who claims what, what a     *)
(* waiter may be met by, who owes which ceiling, and the accounting of     *)
(* threads where calls take turns.                                         *)
(***************************************************************************)
EXTENDS QxkSync, FiniteSetTheorems, SequenceTheorems, TLAPS

Modes == AOs \cup Threads \cup {Idle}
Status == Nat \cup {Unlocked}

PostOps == {"has_events", "post", "post_mark", "mark"}
Step ==
    [op : PostOps, arg : AOs]
    \cup [op : {"block", "unblock", "ceil_lock"}, arg : Threads]
    \cup [op : {"store", "ceil_unlock"}, arg : Status]
    \cup [op : {"has_work"}, arg : Cores]

PCs == {"out", "plan", "set", "pop", "user", "check", "unready", "thread", "complete", "finish"}
Acts == {"run", "Continue", "Yield", "Blocked", "Terminated"}

TypeInv ==
    /\ lock_ceiling \in Nat /\ ceiling \in Nat /\ status \in Status
    /\ ao_ready \subseteq AOs /\ thread_ready \subseteq Threads
    /\ active \in [Cores -> Modes] /\ next \in [Cores -> Modes]
    /\ pc \in [Cores -> PCs] /\ mode \in [Cores -> Modes] /\ act \in [Cores -> Acts]
    /\ call \in [Contexts -> Seq(Step)]
    /\ held \in [Contexts -> Status]
    /\ owner \in Threads \cup {NoOwner}
    /\ waiting \subseteq Threads /\ senders \subseteq Threads

\* Core c has claimed its mode; it holds the guard of its thread.
AtWork == {"pop", "user", "check", "unready", "thread", "complete"}
Claims(c) == pc[c] = "set" \/ pc[c] \in AtWork
Guarded(c) == mode[c] \in Threads /\ pc[c] \in {"user", "complete", "finish"}

Claimed(c) ==
    /\ smp /\ pc[c] = "set" => next[c] = mode[c]
    /\ smp /\ pc[c] \in AtWork => active[c] = mode[c]
    /\ pc[c] \in {"pop", "check", "unready"} => mode[c] \in AOs
    /\ pc[c] = "user" => mode[c] \in AOs \cup Threads
    /\ pc[c] \in {"thread", "finish"} => mode[c] \in Threads

\* A core that a single-core build does not have.
Off(c) == ~smp /\ c # BootCore

ClaimInv ==
    /\ \A c \in Cores : Claimed(c)
    /\ \A c \in Cores : Off(c) => pc[c] = "out" /\ call[c] = <<>>
    /\ \A c, d \in Cores : c # d /\ Claims(c) /\ Claims(d) /\ mode[c] = mode[d] => mode[c] = Idle
    /\ \A c, d \in Cores : c # d /\ Guarded(c) /\ Guarded(d) => mode[c] # mode[d]

-----------------------------------------------------------------------------
(* The highest priority of a set exists, and so does every slot.  The rank *)
(* of its members is an injection into 0..n-1, hence onto.                 *)

Below(S, p) == {q \in S : q < p}

LEMMA PrioritiesFinite ==
    ASSUME NEW S, S \subseteq 1..63
    PROVE  IsFiniteSet(S) /\ Cardinality(S) \in Nat
PROOF
  <1>1. PICK n \in Nat : n = 63 OBVIOUS
  <1>2. S \in SUBSET Nat /\ \A s \in S : s <= n BY <1>1
  <1> QED BY <1>2, FS_BoundedSetOfNaturals, FS_CardinalityType

LEMMA EveryRank ==
    ASSUME NEW S, S \subseteq 1..63, NEW i \in 1..Cardinality(S)
    PROVE  \E p \in S : Cardinality(Below(S, p)) = i - 1
PROOF
  <1>1. IsFiniteSet(S) /\ Cardinality(S) \in Nat
    BY PrioritiesFinite
  <1> DEFINE n == Cardinality(S)
             rank == [p \in S |-> Cardinality(Below(S, p))]
  <1>2. ASSUME NEW p \in S
        PROVE  /\ IsFiniteSet(Below(S, p)) /\ Cardinality(Below(S, p)) \in Nat
               /\ Cardinality(Below(S, p)) < n
    <2>1. Below(S, p) \subseteq S \ {p}
      BY DEF Below
    <2>2. IsFiniteSet(S \ {p}) /\ Cardinality(S \ {p}) = n - 1
      BY <1>1, FS_RemoveElement
    <2>3. /\ IsFiniteSet(Below(S, p)) /\ Cardinality(Below(S, p)) \in Nat
          /\ Cardinality(Below(S, p)) <= n - 1
      BY <2>1, <2>2, FS_Subset, FS_CardinalityType
    <2> QED BY <1>1, <2>3
  <1>3. ASSUME NEW p \in S, NEW q \in S, p < q
        PROVE  Cardinality(Below(S, p)) # Cardinality(Below(S, q))
    <2>1. S \subseteq Int /\ p \in Int /\ q \in Int
      OBVIOUS
    <2>2. p \in Below(S, q) /\ p \notin Below(S, p)
      BY <1>3, <2>1 DEF Below
    <2>3. ASSUME NEW r \in Below(S, p) PROVE r \in Below(S, q)
      <3>1. r \in S /\ r \in Int /\ r < p
        BY <2>1 DEF Below
      <3> QED BY <1>3, <2>1, <3>1 DEF Below
    <2> QED BY <2>2, <2>3, <1>2, FS_Subset
  <1>4. rank \in Injection(S, 0..(n - 1))
    <2>1. rank \in [S -> 0..(n - 1)]
      BY <1>1, <1>2
    <2>2. ASSUME NEW p \in S, NEW q \in S, rank[p] = rank[q] PROVE p = q
      BY <1>3, <2>2
    <2> HIDE DEF rank
    <2> QED BY <2>1, <2>2 DEF Injection, IsInjective
  <1>5. IsFiniteSet(0..(n - 1)) /\ Cardinality(0..(n - 1)) = n
    <2>1. n \in Int /\ n >= 1 BY <1>1
    <2>2. /\ IsFiniteSet(0..(n - 1))
          /\ Cardinality(0..(n - 1)) = IF 0 > n - 1 THEN 0 ELSE (n - 1) - 0 + 1
      BY <2>1, FS_Interval
    <2> QED BY <2>1, <2>2
  <1>6. rank \in Surjection(S, 0..(n - 1))
    BY <1>4, <1>5, FS_Injection
  <1>7. i - 1 \in 0..(n - 1)
    BY <1>1
  <1>8. \E p \in S : rank[p] = i - 1
    <2> HIDE DEF rank, n
    <2> QED BY <1>6, <1>7 DEF Surjection
  <1> QED BY <1>8

LEMMA MaxIsMember ==
    ASSUME NEW S, S \subseteq 1..63, S # {}
    PROVE  Max(S) \in S
PROOF
  <1>1. IsFiniteSet(S) /\ Cardinality(S) \in Nat /\ Cardinality(S) # 0
    BY PrioritiesFinite, FS_EmptySet
  <1>2. PICK p \in S : Cardinality(Below(S, p)) = Cardinality(S) - 1
    <2>1. Cardinality(S) \in 1..Cardinality(S) BY <1>1
    <2> QED BY <2>1, EveryRank
  <1>3. IsFiniteSet(S \ {p}) /\ Cardinality(S \ {p}) = Cardinality(S) - 1
    BY <1>1, FS_RemoveElement
  <1>4. Below(S, p) \subseteq S \ {p}
    BY DEF Below
  <1>5. Below(S, p) = S \ {p}
    BY <1>2, <1>3, <1>4, FS_Subset
  <1>6. \A q \in S : p >= q
    BY <1>5 DEF Below
  <1> QED BY <1>6 DEF Max

LEMMA SlotIsAo ==
    ASSUME NEW i \in 1..Cardinality(AOs)
    PROVE  Slot(i) \in AOs
PROOF
  <1>1. \E p \in AOs : Cardinality(Below(AOs, p)) = i - 1
    BY QxkConstants, EveryRank
  <1> QED BY <1>1 DEF Slot, Below

-----------------------------------------------------------------------------
(* The critical sections left of a call.  A waker names each thread once;  *)
(* the two that take a ceiling, and has_work, come first in their call.    *)

StepsOf(s) == {s[i] : i \in DOMAIN s}
Todo(c) == StepsOf(call[c])
Taking == {"ceil_lock", "store"}
FirstOps == Taking \cup {"has_work"}

OnceEach(s) == \A i, j \in DOMAIN s : s[i].op = "unblock" /\ s[i] = s[j] => i = j
FirstOnly(s) == \A i \in DOMAIN s : s[i].op \in FirstOps => i = 1
WellFormed(s) == s \in Seq(Step) /\ OnceEach(s) /\ FirstOnly(s)

CallInv == \A c \in Contexts : OnceEach(call[c]) /\ FirstOnly(call[c])

LEMMA ShortCalls ==
    /\ WellFormed(<<>>) /\ StepsOf(<<>>) = {}
    /\ \A x \in Step : WellFormed(<<x>>) /\ StepsOf(<<x>>) = {x} /\ Len(<<x>>) = 1
  BY DEF WellFormed, OnceEach, FirstOnly, StepsOf

LEMMA StepFields ==
    ASSUME NEW x \in Step
    PROVE  /\ x = Do(x.op, x.arg)
           /\ x.op \in PostOps => x.arg \in AOs
           /\ x.op \in {"block", "unblock", "ceil_lock"} => x.arg \in Threads
           /\ x.op \in {"store", "ceil_unlock"} => x.arg \in Status
           /\ x.op = "has_work" => x.arg \in Cores
  BY DEF Step, PostOps, Do

LEMMA Steps ==
    /\ \A p \in AOs, o \in PostOps : Do(o, p) \in Step
    /\ \A t \in Threads, o \in {"block", "unblock", "ceil_lock"} : Do(o, t) \in Step
    /\ \A v \in Status, o \in {"store", "ceil_unlock"} : Do(o, v) \in Step
    /\ \A c \in Cores : Do("has_work", c) \in Step
    /\ \A o, a : Do(o, a).op = o /\ Do(o, a).arg = a
  BY DEF Step, PostOps, Do

LEMMA RestFacts ==
    ASSUME NEW s, WellFormed(s), s # <<>>,
           NEW k \in Seq(Step), Len(k) <= 1, \A x \in StepsOf(k) : x.op # "unblock",
           NEW r, r = k \o Tail(s)
    PROVE  /\ WellFormed(r) /\ StepsOf(r) = StepsOf(k) \cup StepsOf(Tail(s))
           /\ Head(s) \in Step /\ StepsOf(s) = {Head(s)} \cup StepsOf(Tail(s))
           /\ Head(s).op = "unblock" => Head(s) \notin StepsOf(Tail(s))
           /\ \A x \in StepsOf(Tail(s)) : x.op \notin FirstOps
           /\ WellFormed(Tail(s))
PROOF
  <1> DEFINE n == Len(s)
             m == Len(k)
             u == Tail(s)
  <1>1. /\ s \in Seq(Step) /\ n \in Nat /\ n >= 1 /\ DOMAIN s = 1..n /\ m \in {0, 1} /\ DOMAIN k = 1..m
        /\ Head(s) = s[1] /\ s[1] \in Step /\ m \in Nat
    <2>1. s \in Seq(Step) BY DEF WellFormed
    <2>2. m \in Nat /\ DOMAIN k = 1..m OBVIOUS
    <2>4. m \in {0, 1}
      <3> HIDE DEF m
      <3>1. m <= 1 BY DEF m
      <3> QED BY <2>2, <3>1
    <2>3. n \in Nat /\ n >= 1 /\ DOMAIN s = 1..n /\ Head(s) = s[1] /\ s[1] \in Step BY <2>1
    <2> QED BY <2>1, <2>2, <2>3, <2>4
  <1>2. u \in Seq(Step) /\ Len(u) = n - 1 /\ DOMAIN u = 1..(n - 1) /\ \A i \in 1..(n - 1) : u[i] = s[i + 1]
    BY <1>1
  <1> HIDE DEF u
  <1>3. /\ r \in Seq(Step) /\ Len(r) = m + (n - 1) /\ DOMAIN r = 1..(m + (n - 1))
        /\ \A i \in 1..m : r[i] = k[i]
        /\ \A i \in 1..(n - 1) : r[m + i] = u[i]
    <2>1. r = k \o u BY DEF u
    <2> QED BY <1>1, <1>2, <2>1
  <1>4. \A i \in DOMAIN r : i \in 1..m \/ (i - m \in 1..(n - 1) /\ r[i] = u[i - m])
    BY <1>1, <1>3
  <1>5. \A x \in StepsOf(u) : x.op \notin FirstOps
    <2> SUFFICES ASSUME NEW i \in 1..(n - 1) PROVE u[i].op \notin FirstOps
      BY <1>2 DEF StepsOf
    <2>1. i + 1 \in DOMAIN s /\ i + 1 # 1 /\ u[i] = s[i + 1]
      BY <1>1, <1>2
    <2> QED BY <2>1 DEF WellFormed, FirstOnly
  <1>6. ASSUME NEW i \in 1..(n - 1), NEW j \in 1..(n - 1), u[i].op = "unblock", u[i] = u[j] PROVE i = j
    <2>1. i + 1 \in DOMAIN s /\ j + 1 \in DOMAIN s /\ s[i + 1].op = "unblock" /\ s[i + 1] = s[j + 1]
      BY <1>1, <1>2, <1>6
    <2>2. i + 1 = j + 1 BY <2>1 DEF WellFormed, OnceEach
    <2> QED BY <2>2
  <1>7. StepsOf(r) = StepsOf(k) \cup StepsOf(u)
    <2>1. ASSUME NEW i \in DOMAIN r PROVE r[i] \in StepsOf(k) \cup StepsOf(u)
      BY <1>1, <1>2, <1>3, <1>4 DEF StepsOf
    <2>2. ASSUME NEW i \in DOMAIN k PROVE k[i] \in StepsOf(r)
      <3>1. i \in DOMAIN r /\ r[i] = k[i] BY <1>1, <1>3
      <3> QED BY <3>1 DEF StepsOf
    <2>3. ASSUME NEW i \in DOMAIN u PROVE u[i] \in StepsOf(r)
      <3>1. i \in 1..(n - 1) /\ m + i \in 1..(m + (n - 1))
        <4>1. n \in Nat /\ m \in Nat /\ i \in 1..(n - 1) BY <1>1, <1>2
        <4> HIDE DEF n, m
        <4> QED BY <4>1
      <3>2. m + i \in DOMAIN r /\ r[m + i] = u[i]
        <4> HIDE DEF n, m
        <4> QED BY <1>3, <3>1
      <3> QED BY <3>2 DEF StepsOf
    <2> QED BY <2>1, <2>2, <2>3 DEF StepsOf
  <1>8. StepsOf(s) = {Head(s)} \cup StepsOf(u)
    <2>1. ASSUME NEW i \in 1..n PROVE s[i] \in {s[1]} \cup StepsOf(u)
      <3>1. i = 1 \/ (i - 1 \in 1..(n - 1) /\ s[i] = u[i - 1]) BY <1>1, <1>2
      <3> QED BY <1>2, <3>1 DEF StepsOf
    <2>2. ASSUME NEW i \in 1..(n - 1) PROVE u[i] \in StepsOf(s)
      <3>1. i + 1 \in DOMAIN s /\ s[i + 1] = u[i] BY <1>1, <1>2
      <3> QED BY <3>1 DEF StepsOf
    <2>3. s[1] \in StepsOf(s)
      BY <1>1 DEF StepsOf
    <2> QED BY <1>1, <1>2, <2>1, <2>2, <2>3 DEF StepsOf
  <1>9. Head(s).op = "unblock" => Head(s) \notin StepsOf(u)
    <2> SUFFICES ASSUME s[1].op = "unblock", NEW i \in 1..(n - 1), s[1] = u[i] PROVE FALSE
      BY <1>1, <1>2 DEF StepsOf
    <2>1. 1 \in DOMAIN s /\ i + 1 \in DOMAIN s /\ s[1] = s[i + 1] /\ 1 # i + 1
      BY <1>1, <1>2
    <2> QED BY <2>1 DEF WellFormed, OnceEach
  <1>10. OnceEach(r)
    <2> SUFFICES ASSUME NEW i \in DOMAIN r, NEW j \in DOMAIN r, r[i].op = "unblock", r[i] = r[j]
                 PROVE  i = j
      BY DEF OnceEach
    <2>1. i \notin 1..m /\ j \notin 1..m
      BY <1>1, <1>3 DEF StepsOf
    <2>2. i - m \in 1..(n - 1) /\ r[i] = u[i - m] /\ j - m \in 1..(n - 1) /\ r[j] = u[j - m]
      BY <2>1, <1>4
    <2>3. i - m = j - m
      BY <2>2, <1>6
    <2>4. i \in Int /\ j \in Int /\ m \in Int
      BY <1>1, <1>3
    <2> QED BY <2>3, <2>4
  <1>11. FirstOnly(r)
    <2> SUFFICES ASSUME NEW i \in DOMAIN r, r[i].op \in FirstOps PROVE i = 1
      BY DEF FirstOnly
    <2>1. i \in 1..m
      BY <1>2, <1>4, <1>5 DEF StepsOf
    <2> QED BY <1>1, <2>1
  <1>12. WellFormed(u)
    <2>1. OnceEach(u) BY <1>2, <1>6 DEF OnceEach
    <2>2. FirstOnly(u) BY <1>5 DEF FirstOnly, StepsOf
    <2> QED BY <1>2, <2>1, <2>2 DEF WellFormed
  <1> QED BY <1>1, <1>3, <1>5, <1>7, <1>8, <1>9, <1>10, <1>11, <1>12 DEF WellFormed, u

LEMMA Callers == Used \subseteq Cores /\ Running \subseteq Contexts /\ Cores \subseteq Contexts
  BY SyncAssumption DEF Used, Running, Contexts

LEMMA BeginCall ==
    ASSUME TypeInv, CallInv, NEW c \in Contexts, NEW s, WellFormed(s), Begin(c, s)
    PROVE  /\ call' \in [Contexts -> Seq(Step)] /\ CallInv'
           /\ call[c] = <<>> /\ Todo(c) = {} /\ Todo(c)' = StepsOf(s) /\ call'[c] = s
           /\ \A d \in Contexts \ {c} : call'[d] = call[d] /\ Todo(d)' = Todo(d)
           /\ c \in Cores => pc[c] \in {"out", "user"} /\ act[c] = "run"
PROOF
  <1>1. call' = [call EXCEPT ![c] = s] /\ call[c] = <<>>
        /\ (c \in Cores => pc[c] \in {"out", "user"} /\ act[c] = "run")
    BY DEF Begin, Free
  <1>2. call \in [Contexts -> Seq(Step)] /\ s \in Seq(Step)
    BY DEF TypeInv, WellFormed
  <1>3. call'[c] = s /\ \A d \in Contexts \ {c} : call'[d] = call[d]
    BY <1>1, <1>2
  <1>4. call' \in [Contexts -> Seq(Step)]
    BY <1>1, <1>2
  <1>5. CallInv'
    BY <1>3 DEF CallInv, WellFormed
  <1>6. Todo(c) = {}
    BY <1>1, ShortCalls DEF Todo
  <1> QED BY <1>1, <1>3, <1>4, <1>5, <1>6 DEF Todo

\* The step of a call at its head gives way to at most one other.
LEMMA RestCall ==
    ASSUME TypeInv, CallInv, NEW c \in Contexts, call[c] # <<>>,
           NEW k \in Seq(Step), Len(k) <= 1, \A x \in StepsOf(k) : x.op # "unblock",
           Rest(c, k)
    PROVE  /\ call' \in [Contexts -> Seq(Step)] /\ CallInv'
           /\ Head(call[c]) \in Step
           /\ Todo(c) = {Head(call[c])} \cup StepsOf(Tail(call[c]))
           /\ Todo(c)' = StepsOf(k) \cup StepsOf(Tail(call[c]))
           /\ Head(call[c]).op = "unblock" => Head(call[c]) \notin StepsOf(Tail(call[c]))
           /\ \A x \in StepsOf(Tail(call[c])) : x.op \notin FirstOps
           /\ \A d \in Contexts \ {c} : call'[d] = call[d] /\ Todo(d)' = Todo(d)
PROOF
  <1> DEFINE s == call[c]
             r == k \o Tail(s)
  <1>1. call' = [call EXCEPT ![c] = r] /\ call \in [Contexts -> Seq(Step)]
    BY DEF Rest, TypeInv
  <1>2. WellFormed(s)
    BY <1>1 DEF WellFormed, CallInv
  <1>3. /\ WellFormed(r) /\ StepsOf(r) = StepsOf(k) \cup StepsOf(Tail(s))
        /\ Head(s) \in Step /\ StepsOf(s) = {Head(s)} \cup StepsOf(Tail(s))
        /\ Head(s).op = "unblock" => Head(s) \notin StepsOf(Tail(s))
        /\ \A x \in StepsOf(Tail(s)) : x.op \notin FirstOps
    BY <1>2, RestFacts
  <1> HIDE DEF r
  <1>4. call'[c] = r /\ \A d \in Contexts \ {c} : call'[d] = call[d]
    BY <1>1
  <1>5. call' \in [Contexts -> Seq(Step)]
    BY <1>1, <1>3 DEF WellFormed
  <1>6. CallInv'
    BY <1>3, <1>4 DEF CallInv, WellFormed
  <1> QED BY <1>3, <1>4, <1>5, <1>6 DEF Todo

-----------------------------------------------------------------------------
(* Waiters.  Nobody unblocks a thread that is in a wait list; a thread that *)
(* is to be unblocked, or waits, is not ready once its own block is done;   *)
(* a thread a core has chosen and that has not been told to block is in no  *)
(* list and nobody is about to unblock it.                                  *)

W == waiting \cup senders
Pends(op, t) == \E c \in Contexts : Do(op, t) \in Todo(c)

Unbound(t) == t \notin W /\ ~Pends("unblock", t)
FreshAt(p, m, a) ==
    /\ m \in Threads
    /\ \/ p \in {"set", "thread", "user"} /\ a # "Blocked"
       \/ p \in {"complete", "finish"} /\ a = "Yield"

Guarding == {"user", "complete", "finish"}

WakeInv ==
    /\ waiting \cap senders = {}
    /\ \A c \in Cores : FreshAt(pc[c], mode[c], act[c]) => Unbound(mode[c])
    /\ \A c \in Cores : pc[c] \notin Guarding \/ mode[c] \notin Threads => act[c] = "run"
    /\ \A c \in Contexts : \A x \in Todo(c) :
         /\ x.op = "block" => c \in Cores /\ pc[c] = "user" /\ act[c] = "Blocked" /\ mode[c] = x.arg
         /\ x.op = "has_work" => c \in Cores /\ pc[c] = "out"
    /\ \A t \in W : ~Pends("unblock", t)
    /\ \A t \in Threads : t \in W \/ Pends("unblock", t) => Pends("block", t) \/ t \notin thread_ready
    /\ \A c, d \in Contexts : c # d => \A x \in Todo(c) : x.op = "unblock" => x \notin Todo(d)

LEMMA PendingIsPends ==
    ASSUME NEW op, NEW t
    PROVE  Pending(op, t) <=> Pends(op, t)
  BY DEF Pending, Pends, Todo, StepsOf

-----------------------------------------------------------------------------
(* Ceilings.  While the ceiling is up, somebody has to give back the status *)
(* that says it was down: a context, the mutex, or a call on its way to or  *)
(* from the mutex.  One call at most takes the ceiling of the mutex.        *)

Saved(v) ==
    \/ status = v
    \/ \E c \in Contexts : held[c] = v
    \/ \E c \in Contexts : \E x \in Todo(c) : x.op \in {"store", "ceil_unlock"} /\ x.arg = v

CeilInv ==
    /\ \A c, d \in Contexts : \A x \in Todo(c), y \in Todo(d) :
         x.op \in Taking /\ y.op \in Taking => c = d
    /\ \A c \in Contexts : \A x \in Todo(c) :
         x.op \in Taking => owner # NoOwner /\ status = Unlocked
    /\ owner = NoOwner => status = Unlocked
    /\ lock_ceiling = 0 \/ Saved(0)

-----------------------------------------------------------------------------
(* Calls that take turns: one core, and nothing but it. *)

InTurn == ~smp /\ quiet
Settled(t) ==
    t \in thread_ready \/ t \in W \/ t \notin handler \/ Pends("unblock", t)

TurnInv ==
    InTurn =>
        /\ \A t \in Threads : Settled(t)
        /\ \A c \in Contexts \ {BootCore} : call[c] = <<>>
        /\ \A t \in Threads : Pends("block", t) => t \in W
        /\ \A c \in Cores : pc[c] \in {"complete", "finish"} /\ act[c] = "Terminated"
                              => mode[c] \notin handler

QxkInv == TypeInv /\ CallInv /\ ClaimInv /\ WakeInv /\ CeilInv /\ TurnInv

-----------------------------------------------------------------------------
(* dispatch_once: what a move of one core may do to the invariant. *)

At(c, p, m, a) ==
    /\ pc' \in [Cores -> PCs] /\ mode' \in [Cores -> Modes] /\ act' \in [Cores -> Acts]
    /\ pc'[c] = p /\ mode'[c] = m /\ act'[c] = a
    /\ \A d \in Cores \ {c} : pc'[d] = pc[d] /\ mode'[d] = mode[d] /\ act'[d] = act[d]

On(c, n, a) ==
    /\ next' \in [Cores -> Modes] /\ active' \in [Cores -> Modes]
    /\ next'[c] = n /\ active'[c] = a
    /\ \A d \in Cores \ {c} : next'[d] = next[d] /\ active'[d] = active[d]

LEMMA MovedAt ==
    ASSUME TypeInv, NEW c \in Cores, NEW p \in PCs, NEW m \in Modes, NEW a \in Acts,
           pc' = [pc EXCEPT ![c] = p], mode' = [mode EXCEPT ![c] = m], act' = [act EXCEPT ![c] = a]
    PROVE  At(c, p, m, a)
PROOF
  <1>1. pc \in [Cores -> PCs] /\ mode \in [Cores -> Modes] /\ act \in [Cores -> Acts]
    BY DEF TypeInv
  <1> QED BY <1>1 DEF At

\* Goto leaves the mode and the action of the core alone.
LEMMA GotoAt ==
    ASSUME TypeInv, NEW c \in Cores, NEW p \in PCs, Goto(c, p)
    PROVE  At(c, p, mode[c], act[c])
PROOF
  <1>1. pc \in [Cores -> PCs] /\ mode \in [Cores -> Modes] /\ act \in [Cores -> Acts]
    BY DEF TypeInv
  <1>2. pc' = [pc EXCEPT ![c] = p] /\ mode' = mode /\ act' = act
    BY DEF Goto
  <1> QED BY <1>1, <1>2 DEF At

LEMMA StayOn ==
    ASSUME TypeInv, NEW c \in Cores, next' = next, active' = active
    PROVE  On(c, next[c], active[c])
  BY DEF TypeInv, On

\* A core claims what it had claimed or what no other core has, and guards the
\* thread it guarded or one whose guard is free.
ClaimOk(c, p, m, n, a) ==
    /\ smp /\ p = "set" => n = m
    /\ smp /\ p \in AtWork => a = m
    /\ p \in {"pop", "check", "unready"} => m \in AOs
    /\ p = "user" => m \in AOs \cup Threads
    /\ p \in {"thread", "finish"} => m \in Threads
    /\ p = "set" \/ p \in AtWork => (Claims(c) /\ m = mode[c]) \/ m = Idle \/ ~Taken(c, m)
    /\ m \in Threads /\ p \in Guarding => (Guarded(c) /\ m = mode[c]) \/ GuardFree(m)

LEMMA ClaimMoves ==
    ASSUME TypeInv, ClaimInv, NEW c \in Used, NEW p, NEW m, NEW a, NEW n, NEW v,
           At(c, p, m, a), On(c, n, v), smp' = smp, call' = call, ClaimOk(c, p, m, n, v)
    PROVE  ClaimInv'
PROOF
  <1>1. c \in Cores /\ ~Off(c)
    BY Callers DEF Used, Off
  <1>2. \A d \in Cores : Claimed(d)'
    BY <1>1 DEF ClaimInv, Claimed, At, On, ClaimOk
  <1>3. \A d \in Cores : Off(d)' => pc'[d] = "out" /\ call'[d] = <<>>
    BY <1>1 DEF ClaimInv, Off, At
  <1>4. ASSUME NEW d \in Cores \ {c}, Claims(c)', Claims(d)', mode'[c] = mode'[d]
        PROVE  mode'[c] = Idle
    <2>1. pc'[d] = pc[d] /\ mode'[d] = mode[d] /\ Claims(d) /\ (p = "set" \/ p \in AtWork)
      BY <1>4 DEF At, Claims
    <2>2. CASE Claims(c) /\ m = mode[c]
      BY <1>1, <1>4, <2>1, <2>2 DEF ClaimInv, At
    <2>3. CASE m = Idle
      BY <2>3 DEF At
    <2>4. CASE ~Taken(c, m)
      <3>1. smp
        BY <1>1, <2>1 DEF ClaimInv, Off, Claims, AtWork, Used
      <3>2. next[d] = mode[d] \/ active[d] = mode[d]
        BY <2>1, <3>1 DEF ClaimInv, Claimed, Claims
      <3> QED BY <1>4, <2>1, <2>4, <3>1, <3>2 DEF Taken, At
    <2> QED BY <2>1, <2>2, <2>3, <2>4 DEF ClaimOk
  <1>5. ASSUME NEW d \in Cores \ {c}, Guarded(c)', Guarded(d)'
        PROVE  mode'[c] # mode'[d]
    <2>1. pc'[d] = pc[d] /\ mode'[d] = mode[d] /\ Guarded(d) /\ m \in Threads /\ p \in Guarding
      BY <1>5 DEF At, Guarded, Guarding
    <2>2. CASE Guarded(c) /\ m = mode[c]
      BY <1>1, <2>1, <2>2 DEF ClaimInv, At
    <2>3. CASE GuardFree(m)
      BY <2>1, <2>3 DEF GuardFree, Guarded, At
    <2> QED BY <2>1, <2>2, <2>3 DEF ClaimOk
  <1>6. ASSUME NEW d \in Cores \ {c}, NEW e \in Cores \ {c}, d # e
        PROVE  /\ Claims(d)' /\ Claims(e)' /\ mode'[d] = mode'[e] => mode'[d] = Idle
               /\ Guarded(d)' /\ Guarded(e)' => mode'[d] # mode'[e]
    BY <1>6 DEF ClaimInv, At, Claims, Guarded
  <1> QED BY <1>1, <1>2, <1>3, <1>4, <1>5, <1>6 DEF ClaimInv

LEMMA WakeMoves ==
    ASSUME TypeInv, WakeInv, NEW c \in Cores, NEW p, NEW m, NEW a, At(c, p, m, a),
           call' = call, waiting' = waiting, senders' = senders,
           call[c] = <<>> \/ pc[c] \notin {"user", "out"},
           FreshAt(p, m, a) => Unbound(m),
           p \notin Guarding \/ m \notin Threads => a = "run",
           \A t \in thread_ready' \ thread_ready : Unbound(t)
    PROVE  WakeInv'
PROOF
  <1>1. W' = W /\ (\A d \in Contexts : Todo(d)' = Todo(d))
    BY DEF W, Todo
  <1>2. \A op, t : Pends(op, t)' <=> Pends(op, t)
    BY <1>1 DEF Pends
  <1>4. ASSUME NEW d \in Cores, FreshAt(pc'[d], mode'[d], act'[d])
        PROVE  mode'[d] \notin W' /\ ~Pends("unblock", mode[d])'
    <2>1. PICK t : t = mode'[d]
      OBVIOUS
    <2>2. Unbound(t)
      <3>1. CASE d = c
        BY <1>4, <2>1, <3>1 DEF At
      <3>2. CASE d # c
        BY <1>4, <2>1, <3>2 DEF At, WakeInv
      <3> QED BY <3>1, <3>2
    <2>3. ~Pends("unblock", t)' /\ t \notin W'
      BY <1>1, <1>2, <2>2 DEF Unbound
    <2> QED BY <2>1, <2>3 DEF Pends
  <1>5. \A d \in Cores : pc'[d] \notin Guarding \/ mode'[d] \notin Threads => act'[d] = "run"
    BY DEF At, WakeInv
  <1>6. ASSUME NEW d \in Contexts, NEW x \in Todo(d)
        PROVE  /\ x.op = "block" => /\ d \in Cores /\ pc'[d] = "user" /\ act'[d] = "Blocked"
                                    /\ mode'[d] = x.arg
               /\ x.op = "has_work" => d \in Cores /\ pc'[d] = "out"
    <2>1. CASE d # c
      BY <1>6, <2>1 DEF At, WakeInv
    <2>2. CASE d = c
      <3>1. call[c] # <<>>
        BY <1>6, <2>2, ShortCalls DEF Todo
      <3> QED BY <1>6, <2>2, <3>1 DEF WakeInv
    <2> QED BY <2>1, <2>2
  <1>7. \A t \in Threads : t \in W \/ Pends("unblock", t)
                             => Pends("block", t) \/ t \notin thread_ready'
    BY DEF WakeInv, Unbound
  <1>8. waiting' \cap senders' = {} /\ \A t \in W : ~Pends("unblock", t)
    BY DEF WakeInv
  <1>9. \A d, e \in Contexts : d # e => \A x \in Todo(d) : x.op = "unblock" => x \notin Todo(e)
    BY DEF WakeInv
  <1>10. \A d \in Cores : (FreshAt(pc[d], mode[d], act[d]) => Unbound(mode[d]))'
    BY <1>4 DEF FreshAt, Unbound
  <1> QED BY <1>1, <1>2, <1>5, <1>6, <1>7, <1>8, <1>9, <1>10 DEF WakeInv

LEMMA NextModesFacts ==
    ASSUME TypeInv, NEW c \in Cores, NEW m \in NextModes(c)
    PROVE  /\ m \in Modes
           /\ m # Idle => ~Taken(c, m)
           /\ m \in Threads => m \in thread_ready
PROOF
  <1>1. ao_ready \subseteq AOs /\ thread_ready \subseteq Threads
    BY DEF TypeInv
  <1>2. CASE Eligible(c) # {}
    <2>1. Eligible(c) \subseteq 1..63
      BY <1>1, QxkConstants DEF Eligible
    <2>2. m \in Eligible(c)
      BY <1>2, <2>1, MaxIsMember DEF NextModes
    <2> QED BY <1>1, <2>2, QxkConstants DEF Eligible, Modes
  <1>3. CASE Eligible(c) = {} /\ Heads(c) # {}
    BY <1>1, <1>3 DEF NextModes, Heads, Modes
  <1>4. CASE Eligible(c) = {} /\ Heads(c) = {}
    BY <1>4, QxkConstants DEF NextModes, Modes
  <1> QED BY <1>2, <1>3, <1>4

TurnOk(p, m, a) ==
    InTurn =>
        /\ handler' \subseteq handler
        /\ \A t \in Threads : t \in thread_ready /\ t \notin thread_ready' => t \notin handler'
        /\ p \in {"complete", "finish"} /\ a = "Terminated" => m \notin handler'

LEMMA TurnMoves ==
    ASSUME TypeInv, TurnInv, NEW c \in Cores, NEW p, NEW m, NEW a, At(c, p, m, a),
           call' = call, waiting' = waiting, senders' = senders, smp' = smp, quiet' = quiet,
           TurnOk(p, m, a)
    PROVE  TurnInv'
PROOF
  <1>1. W' = W /\ (\A d \in Contexts : Todo(d)' = Todo(d)) /\ (InTurn' <=> InTurn)
    BY DEF W, Todo, InTurn
  <1>2. \A op, t : Pends(op, t)' <=> Pends(op, t)
    BY <1>1 DEF Pends
  <1> SUFFICES ASSUME InTurn
               PROVE  /\ \A t \in Threads : Settled(t)'
                      /\ \A d \in Contexts \ {BootCore} : call'[d] = <<>>
                      /\ \A t \in Threads : Pends("block", t)' => t \in W'
                      /\ \A d \in Cores : pc'[d] \in {"complete", "finish"} /\ act'[d] = "Terminated"
                                            => mode'[d] \notin handler'
    BY <1>1 DEF TurnInv
  <1>3. \A t \in Threads : Settled(t)'
    BY <1>1, <1>2 DEF TurnInv, TurnOk, Settled
  <1>4. ASSUME NEW d \in Cores, pc'[d] \in {"complete", "finish"}, act'[d] = "Terminated"
        PROVE  mode'[d] \notin handler'
    <2>1. CASE d = c
      BY <1>4, <2>1 DEF At, TurnOk
    <2>2. CASE d # c
      BY <1>4, <2>2 DEF At, TurnOk, TurnInv
    <2> QED BY <2>1, <2>2
  <1>5. \A d \in Contexts \ {BootCore} : call'[d] = <<>>
    BY DEF TurnInv
  <1>6. \A t \in Threads : Pends("block", t)' => t \in W'
    BY <1>1, <1>2 DEF TurnInv
  <1> QED BY <1>3, <1>4, <1>5, <1>6

\* Everything a move of core c has to meet.
Effect(c, p, m, a, n, v) ==
    /\ At(c, p, m, a) /\ On(c, n, v) /\ ClaimOk(c, p, m, n, v) /\ TurnOk(p, m, a)
    /\ call[c] = <<>> \/ pc[c] \notin {"user", "out"}
    /\ FreshAt(p, m, a) => Unbound(m)
    /\ p \notin Guarding \/ m \notin Threads => a = "run"
    /\ \A t \in thread_ready' \ thread_ready : t \in Threads /\ Unbound(t)
    /\ ao_ready' \subseteq ao_ready /\ lock_ceiling' = lock_ceiling

LEMMA EffectInv ==
    ASSUME QxkInv, NEW c \in Used, UNCHANGED <<call, held>>, UNCHANGED sync, UNCHANGED fixed,
           NEW p, NEW m, NEW a, NEW n, NEW v, Effect(c, p, m, a, n, v)
    PROVE  QxkInv'
PROOF
  <1>1. /\ call' = call /\ held' = held /\ status' = status /\ owner' = owner
        /\ waiting' = waiting /\ senders' = senders /\ smp' = smp /\ quiet' = quiet /\ ceiling' = ceiling
    BY DEF sync, fixed
  <1>2. c \in Cores
    BY Callers
  <1>3. TypeInv'
    BY <1>1 DEF QxkInv, TypeInv, Effect, At, On
  <1>4. CallInv' /\ (\A d \in Contexts : Todo(d)' = Todo(d))
    BY <1>1 DEF QxkInv, CallInv, Todo
  <1>5. CeilInv'
    <2>1. lock_ceiling' = lock_ceiling
      BY DEF Effect
    <2>2. Saved(0) => Saved(0)'
      BY <1>1, <1>4 DEF Saved
    <2> QED BY <1>1, <1>4, <2>1, <2>2 DEF QxkInv, CeilInv
  <1>6. ClaimInv'
    BY <1>1, ClaimMoves DEF QxkInv, Effect
  <1>7. WakeInv'
    BY <1>1, <1>2, WakeMoves DEF QxkInv, Effect
  <1>8. TurnInv'
    BY <1>1, <1>2, TurnMoves DEF QxkInv, Effect
  <1> QED BY <1>3, <1>4, <1>5, <1>6, <1>7, <1>8 DEF QxkInv

-----------------------------------------------------------------------------
(* The steps of dispatch_once. *)

\* What a core chooses is not bound by any wait list: a thread that still has
\* to block is claimed by the core that runs it.
LEMMA ChosenUnbound ==
    ASSUME QxkInv, NEW c \in Used, pc[c] \in {"out", "plan"},
           NEW t \in Threads, t \in thread_ready, ~Taken(c, t)
    PROVE  Unbound(t)
PROOF
  <1>1. c \in Cores BY Callers
  <1> SUFFICES ASSUME Pends("block", t) PROVE FALSE
    BY DEF QxkInv, WakeInv, Unbound
  <1>2. PICK d \in Contexts : Do("block", t) \in Todo(d)
    BY DEF Pends
  <1>3. d \in Cores /\ pc[d] = "user" /\ mode[d] = t
    BY <1>2, Steps DEF QxkInv, WakeInv
  <1>4. d # c
    BY <1>3
  <1>5. CASE smp
    <2>1. active[d] = t
      BY <1>3, <1>5 DEF QxkInv, ClaimInv, Claimed, AtWork
    <2> QED BY <1>3, <1>4, <1>5, <2>1 DEF Taken
  <1>6. CASE ~smp
    BY <1>3, <1>4, <1>6 DEF QxkInv, ClaimInv, Off, Used
  <1> QED BY <1>5, <1>6

LEMMA PlanEffect ==
    ASSUME QxkInv, NEW c \in Used, plan(c)
    PROVE  \E m, n : Effect(c, "set", m, act[c], n, active[c])
PROOF
  <1>1. /\ c \in Cores /\ TypeInv
    BY Callers DEF QxkInv
  <1>2. PICK m \in NextModes(c) : plan_next(c, m) /\ mode' = [mode EXCEPT ![c] = m]
    BY DEF plan
  <1>3. /\ pc[c] \in {"out", "plan"} /\ call[c] = <<>> /\ pc' = [pc EXCEPT ![c] = "set"] /\ act' = act
        /\ handler' = handler
    BY DEF plan, kernel
  <1>4. /\ next' = (IF smp THEN [next EXCEPT ![c] = m] ELSE next) /\ active' = active
        /\ UNCHANGED <<lock_ceiling, ao_ready, thread_ready>>
    BY <1>2 DEF plan_next
  <1>5. m \in Modes /\ (m # Idle => ~Taken(c, m)) /\ (m \in Threads => m \in thread_ready)
    BY <1>1, NextModesFacts
  <1>6. act[c] = "run" /\ act \in [Cores -> Acts] /\ act[c] \in Acts
    BY <1>1, <1>3 DEF QxkInv, WakeInv, Guarding, TypeInv
  <1>7. At(c, "set", m, act[c])
    <2>1. act' = [act EXCEPT ![c] = act[c]] BY <1>3, <1>6
    <2> QED BY <1>1, <1>2, <1>3, <1>5, <1>6, <2>1, MovedAt DEF PCs
  <1>8. PICK n : On(c, n, active[c]) /\ (smp => n = m)
    <2>1. next \in [Cores -> Modes] /\ active \in [Cores -> Modes]
      BY <1>1 DEF TypeInv
    <2>2. CASE smp
      <3>1. next' = [next EXCEPT ![c] = m] BY <1>4, <2>2
      <3>2. On(c, m, active[c]) BY <1>1, <1>4, <1>5, <2>1, <3>1 DEF On
      <3> QED BY <3>2
    <2>3. CASE ~smp
      <3>1. next' = next BY <1>4, <2>3
      <3>2. On(c, next[c], active[c]) BY <1>1, <1>4, <3>1, StayOn
      <3> QED BY <2>3, <3>2
    <2> QED BY <2>2, <2>3
  <1>9. ClaimOk(c, "set", m, n, active[c])
    BY <1>5, <1>8 DEF ClaimOk, AtWork, Guarding
  <1>10. FreshAt("set", m, act[c]) => Unbound(m)
    <2>1. m \in Threads => m # Idle BY QxkConstants
    <2> QED BY <1>3, <1>5, <2>1, ChosenUnbound DEF FreshAt
  <1>11. TurnOk("set", m, act[c])
    BY <1>3, <1>4 DEF TurnOk
  <1>12. Effect(c, "set", m, act[c], n, active[c])
    BY <1>3, <1>4, <1>6, <1>7, <1>8, <1>9, <1>10, <1>11 DEF Effect
  <1> QED BY <1>12

LEMMA ActivateEffect ==
    ASSUME QxkInv, NEW c \in Used, activate(c)
    PROVE  \E p : Effect(c, p, mode[c], act[c], Idle, mode[c])
PROOF
  <1>1. /\ c \in Cores /\ TypeInv /\ mode \in [Cores -> Modes] /\ mode[c] \in Modes
        /\ next \in [Cores -> Modes] /\ active \in [Cores -> Modes] /\ Idle \in Modes
    BY Callers DEF QxkInv, TypeInv, Modes
  <1>2. PICK p : p = IF mode[c] \in AOs THEN "pop" ELSE IF mode[c] \in Threads THEN "thread" ELSE "complete"
    OBVIOUS
  <1>3. /\ pc[c] = "set" /\ Goto(c, p) /\ handler' = handler /\ set_active(c, mode[c])
    BY <1>2 DEF activate, kernel
  <1>4. /\ active' = [active EXCEPT ![c] = mode[c]] /\ next' = [next EXCEPT ![c] = Idle]
        /\ UNCHANGED <<lock_ceiling, ao_ready, thread_ready>>
    BY <1>3 DEF set_active
  <1>5. At(c, p, mode[c], act[c])
    BY <1>1, <1>2, <1>3, GotoAt DEF PCs
  <1>6. On(c, Idle, mode[c])
    BY <1>1, <1>4 DEF On
  <1>7. act[c] = "run"
    BY <1>1, <1>3 DEF QxkInv, WakeInv, Guarding
  <1>8. ClaimOk(c, p, mode[c], Idle, mode[c])
    BY <1>2, <1>3, QxkConstants DEF ClaimOk, AtWork, Guarding, Claims
  <1>9. FreshAt(p, mode[c], act[c]) => Unbound(mode[c])
    BY <1>1, <1>2, <1>3, <1>7 DEF FreshAt, QxkInv, WakeInv
  <1>10. TurnOk(p, mode[c], act[c])
    BY <1>3, <1>4, <1>7 DEF TurnOk
  <1>11. Effect(c, p, mode[c], act[c], Idle, mode[c])
    BY <1>3, <1>4, <1>5, <1>6, <1>7, <1>8, <1>9, <1>10 DEF Effect
  <1> QED BY <1>11

\* The steps of an active object's turn.
LEMMA AoEffect ==
    ASSUME QxkInv, NEW c \in Used,
           pop_event(c) \/ ao_return(c) \/ check_empty(c) \/ unready(c)
    PROVE  \E p : Effect(c, p, mode[c], act[c], next[c], active[c])
PROOF
  <1>1. c \in Cores /\ TypeInv
    BY Callers DEF QxkInv
  <1>2. /\ pc[c] \in {"pop", "check", "unready"} \/ (pc[c] = "user" /\ call[c] = <<>>)
        /\ pc[c] \in AtWork /\ mode[c] \in AOs
    BY <1>1 DEF pop_event, ao_return, check_empty, unready, QxkInv, ClaimInv, Claimed, AtWork
  <1>3. PICK p \in {"user", "check", "unready", "complete"} : Goto(c, p)
    BY DEF pop_event, ao_return, check_empty, unready
  <1>4. /\ next' = next /\ active' = active /\ thread_ready' = thread_ready
        /\ lock_ceiling' = lock_ceiling /\ ao_ready' \subseteq ao_ready /\ handler' = handler
    BY DEF pop_event, ao_return, check_empty, unready, mark_ao_not_ready, sched, kernel
  <1>5. At(c, p, mode[c], act[c])
    BY <1>1, <1>3, GotoAt DEF PCs
  <1>6. On(c, next[c], active[c])
    BY <1>1, <1>4, StayOn
  <1>7. mode[c] \notin Threads
    BY <1>2, QxkConstants
  <1>8. act[c] = "run"
    BY <1>1, <1>7 DEF QxkInv, WakeInv
  <1>9. ClaimOk(c, p, mode[c], next[c], active[c])
    <2>1. smp => active[c] = mode[c]
      BY <1>1, <1>2 DEF QxkInv, ClaimInv, Claimed
    <2>2. Claims(c)
      BY <1>2 DEF Claims
    <2> QED BY <1>2, <1>3, <1>7, <2>1, <2>2 DEF ClaimOk
  <1>10. TurnOk(p, mode[c], act[c]) /\ ~FreshAt(p, mode[c], act[c])
    BY <1>4, <1>7, <1>8 DEF TurnOk, FreshAt
  <1>11. Effect(c, p, mode[c], act[c], next[c], active[c])
    BY <1>2, <1>4, <1>5, <1>6, <1>8, <1>9, <1>10 DEF Effect
  <1> QED BY <1>11

LEMMA PollEffect ==
    ASSUME QxkInv, NEW c \in Used, poll(c)
    PROVE  \E p, a : Effect(c, p, mode[c], a, next[c], active[c])
PROOF
  <1>1. c \in Cores /\ TypeInv
    BY Callers DEF QxkInv
  <1>2. /\ pc[c] = "thread" /\ GuardFree(mode[c]) /\ mode[c] \in Threads
        /\ smp => active[c] = mode[c]
    BY <1>1 DEF poll, QxkInv, ClaimInv, Claimed, AtWork
  <1>3. /\ act[c] = "run" /\ Unbound(mode[c])
    BY <1>1, <1>2 DEF QxkInv, WakeInv, Guarding, FreshAt
  <1>4. /\ next' = next /\ active' = active /\ thread_ready' = thread_ready
        /\ lock_ceiling' = lock_ceiling /\ ao_ready' = ao_ready /\ handler' = handler
    BY DEF poll, sched, kernel
  <1>5. On(c, next[c], active[c])
    BY <1>1, <1>4, StayOn
  <1>6. Claims(c)
    BY <1>2 DEF Claims, AtWork
  <1>7. CASE mode[c] \in handler
    <2>1. Goto(c, "user")
      BY <1>7 DEF poll
    <2>2. At(c, "user", mode[c], act[c])
      BY <1>1, <2>1, GotoAt DEF PCs
    <2>3. ClaimOk(c, "user", mode[c], next[c], active[c]) /\ TurnOk("user", mode[c], act[c])
      BY <1>2, <1>4, <1>6 DEF ClaimOk, TurnOk
    <2>4. Effect(c, "user", mode[c], act[c], next[c], active[c])
      BY <1>2, <1>3, <1>4, <1>5, <2>2, <2>3 DEF Effect, Guarding
    <2> QED BY <2>4
  <1>8. CASE mode[c] \notin handler
    <2>1. pc' = [pc EXCEPT ![c] = "complete"] /\ act' = [act EXCEPT ![c] = "Terminated"] /\ mode' = mode
      BY <1>8 DEF poll
    <2>2. mode' = [mode EXCEPT ![c] = mode[c]] /\ mode[c] \in Modes
      BY <1>1, <2>1 DEF TypeInv
    <2>3. At(c, "complete", mode[c], "Terminated")
      BY <1>1, <2>1, <2>2, MovedAt DEF PCs, Acts
    <2>4. ClaimOk(c, "complete", mode[c], next[c], active[c]) /\ TurnOk("complete", mode[c], "Terminated")
      BY <1>2, <1>4, <1>6, <1>8 DEF ClaimOk, TurnOk
    <2>5. Effect(c, "complete", mode[c], "Terminated", next[c], active[c])
      BY <1>2, <1>3, <1>4, <1>5, <2>3, <2>4 DEF Effect, Guarding
    <2> QED BY <2>5
  <1> QED BY <1>7, <1>8

LEMMA PollReturnEffect ==
    ASSUME QxkInv, NEW c \in Used, NEW a \in {"Continue", "Yield", "Blocked", "Terminated"},
           poll_return(c, a)
    PROVE  Effect(c, "complete", mode[c], a, next[c], active[c])
PROOF
  <1>1. c \in Cores /\ TypeInv
    BY Callers DEF QxkInv
  <1>2. /\ pc[c] = "user" /\ mode[c] \in Threads /\ call[c] = <<>>
        /\ (a = "Blocked") = (act[c] = "Blocked") /\ pc[c] \in AtWork
        /\ smp => active[c] = mode[c]
    BY <1>1 DEF poll_return, QxkInv, ClaimInv, Claimed, AtWork
  <1>3. /\ next' = next /\ active' = active /\ thread_ready' = thread_ready
        /\ lock_ceiling' = lock_ceiling /\ ao_ready' = ao_ready
        /\ handler' = IF a = "Terminated" THEN handler \ {mode[c]} ELSE handler
        /\ pc' = [pc EXCEPT ![c] = "complete"] /\ act' = [act EXCEPT ![c] = a] /\ mode' = mode
    BY DEF poll_return, sched
  <1>4. On(c, next[c], active[c])
    BY <1>1, <1>3, StayOn
  <1>5. mode' = [mode EXCEPT ![c] = mode[c]] /\ mode[c] \in Modes
    BY <1>1, <1>3 DEF TypeInv
  <1>6. At(c, "complete", mode[c], a)
    BY <1>1, <1>3, <1>5, MovedAt DEF PCs, Acts
  <1>7. Claims(c) /\ Guarded(c)
    BY <1>2 DEF Claims, Guarded
  <1>8. ClaimOk(c, "complete", mode[c], next[c], active[c]) /\ TurnOk("complete", mode[c], a)
    BY <1>2, <1>3, <1>7 DEF ClaimOk, TurnOk
  <1>9. FreshAt("complete", mode[c], a) => Unbound(mode[c])
    <2>1. SUFFICES ASSUME a = "Yield" PROVE Unbound(mode[c])
      BY DEF FreshAt
    <2>2. act[c] # "Blocked"
      BY <1>2, <2>1
    <2> QED BY <1>1, <1>2, <2>2 DEF QxkInv, WakeInv, FreshAt
  <1> QED BY <1>2, <1>3, <1>4, <1>6, <1>8, <1>9 DEF Effect, Guarding

LEMMA CompleteEffect ==
    ASSUME QxkInv, NEW c \in Used, complete(c)
    PROVE  \E p, v : Effect(c, p, mode[c], act[c], next[c], v)
PROOF
  <1>1. c \in Cores /\ TypeInv /\ active \in [Cores -> Modes] /\ next \in [Cores -> Modes] /\ Idle \in Modes
    BY Callers DEF QxkInv, TypeInv, Modes
  <1>2. PICK p : p = IF mode[c] \in Threads THEN "finish" ELSE "out"
    OBVIOUS
  <1>3. /\ pc[c] = "complete" /\ Goto(c, p) /\ complete_execution(c, mode[c]) /\ handler' = handler
    BY <1>2 DEF complete, kernel
  <1>4. /\ active' = (IF smp /\ active[c] = mode[c] THEN [active EXCEPT ![c] = Idle] ELSE active)
        /\ UNCHANGED <<lock_ceiling, ao_ready, thread_ready, next>>
    BY <1>3 DEF complete_execution
  <1>5. PICK v : On(c, next[c], v)
    <2>1. CASE smp /\ active[c] = mode[c]
      <3>1. On(c, next[c], Idle) BY <1>1, <1>4, <2>1 DEF On
      <3> QED BY <3>1
    <2>2. CASE ~(smp /\ active[c] = mode[c])
      <3>1. active' = active BY <1>4, <2>2
      <3>2. On(c, next[c], active[c]) BY <1>1, <1>4, <3>1, StayOn
      <3> QED BY <3>2
    <2> QED BY <2>1, <2>2
  <1>6. At(c, p, mode[c], act[c])
    BY <1>1, <1>2, <1>3, GotoAt DEF PCs
  <1>7. ClaimOk(c, p, mode[c], next[c], v)
    BY <1>2, <1>3 DEF ClaimOk, AtWork, Guarding, Guarded
  <1>8. TurnOk(p, mode[c], act[c])
    BY <1>1, <1>2, <1>3, <1>4 DEF TurnOk, QxkInv, TurnInv
  <1>9. FreshAt(p, mode[c], act[c]) => Unbound(mode[c])
    BY <1>1, <1>2, <1>3 DEF QxkInv, WakeInv, FreshAt
  <1>10. p \notin Guarding \/ mode[c] \notin Threads => act[c] = "run"
    BY <1>1, <1>2 DEF QxkInv, WakeInv, Guarding
  <1>11. Effect(c, p, mode[c], act[c], next[c], v)
    BY <1>3, <1>4, <1>5, <1>6, <1>7, <1>8, <1>9, <1>10 DEF Effect
  <1> QED BY <1>11

LEMMA FinishEffect ==
    ASSUME QxkInv, NEW c \in Used, finish(c)
    PROVE  Effect(c, "out", mode[c], "run", next[c], active[c])
PROOF
  <1>1. c \in Cores /\ TypeInv
    BY Callers DEF QxkInv
  <1>2. /\ pc[c] = "finish" /\ mode[c] \in Threads
    BY <1>1 DEF finish, QxkInv, ClaimInv, Claimed
  <1>3. /\ pc' = [pc EXCEPT ![c] = "out"] /\ act' = [act EXCEPT ![c] = "run"] /\ mode' = mode
        /\ handler' = handler
    BY DEF finish, kernel
  <1>4. /\ next' = next /\ active' = active /\ lock_ceiling' = lock_ceiling /\ ao_ready' = ao_ready
        /\ thread_ready' \subseteq thread_ready \cup {mode[c]}
        /\ act[c] # "Yield" => thread_ready' \subseteq thread_ready
        /\ act[c] # "Terminated" => thread_ready \subseteq thread_ready'
        /\ thread_ready \ {mode[c]} \subseteq thread_ready'
    <2>1. CASE act[c] = "Yield"
      BY <2>1 DEF finish, mark_thread_ready
    <2>2. CASE act[c] = "Terminated"
      BY <2>2 DEF finish, mark_thread_not_ready
    <2>3. CASE act[c] # "Yield" /\ act[c] # "Terminated"
      BY <2>3 DEF finish, sched
    <2> QED BY <2>1, <2>2, <2>3
  <1>5. On(c, next[c], active[c])
    BY <1>1, <1>4, StayOn
  <1>6. mode' = [mode EXCEPT ![c] = mode[c]] /\ mode[c] \in Modes
    BY <1>1, <1>3 DEF TypeInv
  <1>7. At(c, "out", mode[c], "run")
    BY <1>1, <1>3, <1>6, MovedAt DEF PCs, Acts
  <1>8. ClaimOk(c, "out", mode[c], next[c], active[c])
    BY DEF ClaimOk, AtWork, Guarding
  <1>9. ASSUME NEW t \in thread_ready' \ thread_ready PROVE t \in Threads /\ Unbound(t)
    <2>1. t = mode[c] /\ act[c] = "Yield"
      BY <1>4
    <2> QED BY <1>1, <1>2, <2>1 DEF QxkInv, WakeInv, FreshAt
  <1>10. TurnOk("out", mode[c], "run")
    <2> SUFFICES ASSUME InTurn, NEW t \in Threads, t \in thread_ready, t \notin thread_ready'
                 PROVE  t \notin handler
      BY <1>3 DEF TurnOk
    <2>1. t = mode[c] /\ act[c] = "Terminated"
      BY <1>4
    <2> QED BY <1>1, <1>2, <2>1 DEF QxkInv, TurnInv
  <1> QED BY <1>2, <1>4, <1>5, <1>7, <1>8, <1>9, <1>10 DEF Effect, FreshAt

LEMMA DispatchInv ==
    ASSUME QxkInv, NEW c \in Used, Dispatch(c), UNCHANGED sync, UNCHANGED fixed
    PROVE  QxkInv'
PROOF
  <1>1. UNCHANGED <<call, held>>
    BY DEF Dispatch, plan, activate, pop_event, ao_return, check_empty, unready, poll, complete,
           finish, poll_return, bound
  <1>2. \E p, m, a, n, v : Effect(c, p, m, a, n, v)
    <2>1. CASE plan(c) BY <2>1, PlanEffect
    <2>2. CASE activate(c) BY <2>2, ActivateEffect
    <2>3. CASE pop_event(c) \/ ao_return(c) \/ check_empty(c) \/ unready(c) BY <2>3, AoEffect
    <2>4. CASE poll(c) BY <2>4, PollEffect
    <2>5. CASE complete(c) BY <2>5, CompleteEffect
    <2>6. CASE finish(c) BY <2>6, FinishEffect
    <2>7. ASSUME NEW a \in {"Continue", "Yield", "Blocked", "Terminated"}, poll_return(c, a)
          PROVE  \E p, m, n, v : Effect(c, p, m, a, n, v)
      BY <2>7, PollReturnEffect
    <2> QED BY <2>1, <2>2, <2>3, <2>4, <2>5, <2>6, <2>7 DEF Dispatch
  <1> QED BY <1>1, <1>2, EffectInv

-----------------------------------------------------------------------------
(* The first critical section of a call: it wakes waiters, or none. *)

\* What every call leaves alone but one that makes its thread wait.
Quietly ==
    /\ pc' = pc /\ mode' = mode /\ next' = next /\ active' = active
    /\ ao_ready' = ao_ready /\ thread_ready' = thread_ready /\ handler' = handler
    /\ smp' = smp /\ quiet' = quiet /\ ceiling' = ceiling

\* The parts of the invariant that do not speak of the ceiling.
CoreInv == CallInv /\ ClaimInv /\ WakeInv /\ TurnInv /\ call \in [Contexts -> Seq(Step)]

LEMMA ClaimStays ==
    ASSUME ClaimInv, Quietly, \A d \in Cores : Off(d) => call'[d] = call[d]
    PROVE  ClaimInv'
  BY DEF ClaimInv, Quietly, Claimed, Claims, Guarded, Off

\* In a single-core build only its core and the interrupts call.
LEMMA RunningOn ==
    ASSUME NEW c \in Running
    PROVE  /\ c \in Contexts /\ (c \in Cores => ~Off(c))
           /\ InTurn => c = BootCore
PROOF
  <1>1. c \in Contexts /\ Cores \cap Posters = {}
    BY Callers, QxkConstants
  <1>2. CASE c \in Used
    BY <1>1, <1>2, Callers DEF Used, Off, InTurn
  <1>3. CASE c \in Posters /\ ~quiet
    BY <1>1, <1>3 DEF InTurn
  <1> QED BY <1>2, <1>3 DEF Running

\* The waiters a call takes off the lists are exactly those it will unblock.
LEMMA WakingCall ==
    ASSUME QxkInv, NEW c \in Running, NEW s, WellFormed(s), Begin(c, s), Quietly, act' = act,
           waiting' \subseteq waiting, senders' \subseteq senders,
           \A x \in StepsOf(s) :
               /\ x.op # "block" /\ (x.op = "has_work" => c \in Cores /\ pc[c] = "out")
               /\ x.op = "unblock" => x.arg \in W /\ x.arg \notin W',
           \A t \in W \ W' : Do("unblock", t) \in StepsOf(s)
    PROVE  CoreInv'
PROOF
  <1>1. /\ call' \in [Contexts -> Seq(Step)] /\ CallInv'
        /\ call[c] = <<>> /\ Todo(c) = {} /\ Todo(c)' = StepsOf(s) /\ call'[c] = s
        /\ \A d \in Contexts \ {c} : call'[d] = call[d] /\ Todo(d)' = Todo(d)
    BY RunningOn, BeginCall DEF QxkInv
  <1>2. c \in Contexts /\ (c \in Cores => ~Off(c)) /\ (InTurn => c = BootCore)
    BY RunningOn
  <1>3. ClaimInv'
    BY <1>1, <1>2, Callers, ClaimStays DEF QxkInv
  <1>4. W' \subseteq W
    BY DEF W
  <1>5. \A t : Pends("block", t)' <=> Pends("block", t)
    BY <1>1, <1>2, Steps DEF Pends
  <1>6. ASSUME NEW t PROVE Pends("unblock", t)' <=> Pends("unblock", t) \/ Do("unblock", t) \in StepsOf(s)
    BY <1>1, <1>2 DEF Pends
  <1>7. ASSUME NEW t, Do("unblock", t) \in StepsOf(s) PROVE t \in W /\ t \notin W' /\ ~Pends("unblock", t)
    BY <1>7, Steps DEF QxkInv, WakeInv
  <1>8. ASSUME NEW t, Unbound(t) PROVE t \notin W' /\ ~Pends("unblock", t)'
    BY <1>4, <1>6, <1>7, <1>8 DEF Unbound
  <1>9. WakeInv'
    <2>1. waiting' \cap senders' = {}
      BY DEF QxkInv, WakeInv
    <2>2. \A d \in Cores : (FreshAt(pc[d], mode[d], act[d]) => Unbound(mode[d]))'
      <3> SUFFICES ASSUME NEW d \in Cores, FreshAt(pc[d], mode[d], act[d])
                   PROVE  mode[d] \notin W' /\ ~(Pends("unblock", mode[d])')
        BY DEF Quietly, FreshAt, Unbound
      <3>1. PICK t : t = mode[d] /\ Unbound(t)
        BY DEF QxkInv, WakeInv
      <3>2. t \notin W' /\ ~Pends("unblock", t)'
        BY <3>1, <1>8
      <3> QED BY <3>1, <3>2 DEF Quietly, Pends
    <2>3. \A d \in Cores : (pc[d] \notin Guarding \/ mode[d] \notin Threads => act[d] = "run")'
      BY DEF QxkInv, WakeInv, Quietly
    <2>4. ASSUME NEW d \in Contexts, NEW x \in Todo(d)'
          PROVE  /\ x.op = "block" => d \in Cores /\ pc'[d] = "user" /\ act'[d] = "Blocked" /\ mode'[d] = x.arg
                 /\ x.op = "has_work" => d \in Cores /\ pc'[d] = "out"
      <3>1. CASE d = c BY <1>1, <2>4, <3>1 DEF Quietly
      <3>2. CASE d # c BY <1>1, <2>4, <3>2 DEF Quietly, QxkInv, WakeInv
      <3> QED BY <3>1, <3>2
    <2>5. \A t \in W' : ~Pends("unblock", t)'
      BY <1>4, <1>6, <1>7 DEF QxkInv, WakeInv
    <2>6. \A t \in Threads : t \in W' \/ Pends("unblock", t)' => Pends("block", t)' \/ t \notin thread_ready'
      BY <1>4, <1>5, <1>6, <1>7 DEF QxkInv, WakeInv, Quietly
    <2>7. ASSUME NEW d \in Contexts, NEW e \in Contexts, d # e, NEW x \in Todo(d)', x.op = "unblock"
          PROVE  x \notin Todo(e)'
      <3>1. ASSUME NEW f \in Contexts, NEW y \in StepsOf(s), y.op = "unblock" PROVE y \notin Todo(f)
        <4>1. y \in Step
          BY <3>1 DEF WellFormed, StepsOf
        <4>2. y = Do("unblock", y.arg)
          BY <3>1, <4>1, StepFields
        <4>3. ~Pends("unblock", y.arg)
          BY <1>7, <4>2
        <4> QED BY <4>2, <4>3 DEF Pends
      <3>2. CASE d = c BY <1>1, <2>7, <3>1, <3>2
      <3>3. CASE e = c BY <1>1, <2>7, <3>1, <3>3
      <3>4. CASE d # c /\ e # c BY <1>1, <2>7, <3>4 DEF QxkInv, WakeInv
      <3> QED BY <3>2, <3>3, <3>4
    <2> QED BY <2>1, <2>2, <2>3, <2>4, <2>5, <2>6, <2>7 DEF WakeInv
  <1>10. TurnInv'
    <2>1. InTurn' <=> InTurn
      BY DEF InTurn, Quietly
    <2> SUFFICES ASSUME InTurn
                 PROVE  /\ \A t \in Threads : Settled(t)'
                        /\ \A d \in Contexts \ {BootCore} : call'[d] = <<>>
                        /\ \A t \in Threads : Pends("block", t)' => t \in W'
                        /\ \A d \in Cores : pc'[d] \in {"complete", "finish"} /\ act'[d] = "Terminated"
                                              => mode'[d] \notin handler'
      BY <2>1 DEF TurnInv
    <2>2. \A t \in Threads : Settled(t)'
      BY <1>6 DEF QxkInv, TurnInv, Settled, Quietly
    <2>3. \A d \in Contexts \ {BootCore} : call'[d] = <<>>
      BY <1>1, <1>2 DEF QxkInv, TurnInv
    <2>4. ASSUME NEW t, Pends("block", t) PROVE FALSE
      <3>1. PICK d \in Contexts : Do("block", t) \in Todo(d)
        BY <2>4 DEF Pends
      <3>2. d = c
        BY <1>2, <3>1, ShortCalls DEF QxkInv, TurnInv, Todo
      <3> QED BY <1>1, <3>1, <3>2
    <2>5. \A d \in Cores : pc'[d] \in {"complete", "finish"} /\ act'[d] = "Terminated"
                             => mode'[d] \notin handler'
      BY DEF QxkInv, TurnInv, Quietly
    <2> QED BY <1>5, <2>2, <2>3, <2>4, <2>5
  <1> QED BY <1>1, <1>3, <1>9, <1>10 DEF CoreInv

\* The call of a running thread that puts it into a wait list.
LEMMA WaitingCall ==
    ASSUME QxkInv, NEW c \in Running, NEW t \in Threads, RunsThread(c, t),
           Begin(c, <<Do("block", t)>>), Quietly, act' = [act EXCEPT ![c] = "Blocked"],
           \/ waiting' = waiting \cup {t} /\ senders' = senders
           \/ waiting' = waiting /\ senders' = senders \cup {t}
    PROVE  CoreInv' /\ act' \in [Cores -> Acts]
PROOF
  <1> DEFINE s == <<Do("block", t)>>
  <1>1. WellFormed(s) /\ StepsOf(s) = {Do("block", t)}
    BY Steps, ShortCalls
  <1> HIDE DEF s
  <1>2. /\ call' \in [Contexts -> Seq(Step)] /\ CallInv'
        /\ call[c] = <<>> /\ Todo(c) = {} /\ Todo(c)' = StepsOf(s)
        /\ \A d \in Contexts \ {c} : call'[d] = call[d] /\ Todo(d)' = Todo(d)
        /\ c \in Cores => act[c] = "run"
    BY <1>1, RunningOn, BeginCall DEF QxkInv, s
  <1>3. c \in Contexts /\ c \in Cores /\ ~Off(c) /\ (InTurn => c = BootCore) /\ pc[c] = "user" /\ mode[c] = t
    BY RunningOn DEF RunsThread
  <1>4. ClaimInv'
    BY <1>2, <1>3, Callers, ClaimStays DEF QxkInv
  <1>5. /\ act \in [Cores -> Acts] /\ act' \in [Cores -> Acts] /\ act'[c] = "Blocked"
        /\ \A d \in Cores \ {c} : act'[d] = act[d]
    BY <1>3 DEF QxkInv, TypeInv, Acts
  <1>6. Unbound(t)
    BY <1>2, <1>3 DEF QxkInv, WakeInv, FreshAt
  <1>7. W' = W \cup {t}
    BY DEF W
  <1>8. \A u : Pends("unblock", u)' <=> Pends("unblock", u)
    BY <1>1, <1>2, <1>3, Steps DEF Pends
  <1>9. ASSUME NEW u PROVE Pends("block", u)' <=> Pends("block", u) \/ u = t
    <2>1. Do("block", u) \in Todo(c)' <=> u = t
      <3>1. Do("block", u) = Do("block", t) => u = t
        BY DEF Do
      <3> QED BY <1>1, <1>2, <3>1
    <2>2. Do("block", u) \notin Todo(c)
      BY <1>2
    <2> QED BY <1>2, <1>3, <2>1, <2>2 DEF Pends
  <1>10. ASSUME NEW d \in Cores \ {c}, FreshAt(pc[d], mode[d], act[d]) PROVE mode[d] # t
    <2>1. SUFFICES ASSUME mode[d] = t PROVE FALSE
      OBVIOUS
    <2>2. CASE pc[d] \in {"set", "thread", "user"}
      <3>1. Claims(c) /\ Claims(d) /\ t # Idle
        BY <1>3, <2>2, QxkConstants DEF Claims, AtWork
      <3> QED BY <1>3, <2>1, <3>1 DEF QxkInv, ClaimInv
    <2>3. CASE pc[d] \in {"complete", "finish"}
      <3>1. Guarded(c) /\ Guarded(d)
        BY <1>3, <2>1, <2>3 DEF Guarded
      <3> QED BY <1>3, <2>1, <3>1 DEF QxkInv, ClaimInv
    <2> QED BY <1>10, <2>2, <2>3 DEF FreshAt
  <1>11. WakeInv'
    <2>1. waiting' \cap senders' = {}
      BY <1>6 DEF QxkInv, WakeInv, Unbound, W
    <2>2. \A d \in Cores : (FreshAt(pc[d], mode[d], act[d]) => Unbound(mode[d]))'
      <3> SUFFICES ASSUME NEW d \in Cores, FreshAt(pc[d], mode[d], act'[d])
                   PROVE  mode[d] \notin W' /\ ~(Pends("unblock", mode[d])')
        BY DEF Quietly, FreshAt, Unbound
      <3>1. d # c
        BY <1>3, <1>5 DEF FreshAt
      <3>2. FreshAt(pc[d], mode[d], act[d])
        BY <1>5, <3>1
      <3>3. PICK u : u = mode[d] /\ Unbound(u) /\ u # t
        BY <1>10, <3>1, <3>2 DEF QxkInv, WakeInv
      <3>4. u \notin W' /\ ~Pends("unblock", u)'
        BY <3>3, <1>7, <1>8 DEF Unbound
      <3> QED BY <3>3, <3>4 DEF Quietly, Pends
    <2>3. \A d \in Cores : (pc[d] \notin Guarding \/ mode[d] \notin Threads => act[d] = "run")'
      BY <1>3, <1>5 DEF QxkInv, WakeInv, Quietly, Guarding
    <2>4. ASSUME NEW d \in Contexts, NEW x \in Todo(d)'
          PROVE  /\ x.op = "block" => d \in Cores /\ pc'[d] = "user" /\ act'[d] = "Blocked" /\ mode'[d] = x.arg
                 /\ x.op = "has_work" => d \in Cores /\ pc'[d] = "out"
      <3>1. CASE d = c
        <4>1. x = Do("block", t) BY <1>1, <1>2, <2>4, <3>1
        <4> QED BY <1>3, <1>5, <3>1, <4>1, Steps DEF Quietly
      <3>2. CASE d # c BY <1>2, <1>5, <2>4, <3>2 DEF Quietly, QxkInv, WakeInv
      <3> QED BY <3>1, <3>2
    <2>5. \A u \in W' : ~Pends("unblock", u)'
      BY <1>6, <1>7, <1>8 DEF QxkInv, WakeInv, Unbound
    <2>6. \A u \in Threads : u \in W' \/ Pends("unblock", u)' => Pends("block", u)' \/ u \notin thread_ready'
      BY <1>7, <1>8, <1>9 DEF QxkInv, WakeInv, Quietly
    <2>7. ASSUME NEW d \in Contexts, NEW e \in Contexts, d # e, NEW x \in Todo(d)', x.op = "unblock"
          PROVE  x \notin Todo(e)'
      <3>1. \A y \in Todo(c)' : y.op # "unblock"
        BY <1>1, <1>2, Steps
      <3> QED BY <1>2, <2>7, <3>1 DEF QxkInv, WakeInv
    <2> QED BY <2>1, <2>2, <2>3, <2>4, <2>5, <2>6, <2>7 DEF WakeInv
  <1>12. TurnInv'
    <2>1. InTurn' <=> InTurn
      BY DEF InTurn, Quietly
    <2> SUFFICES ASSUME InTurn
                 PROVE  /\ \A u \in Threads : Settled(u)'
                        /\ \A d \in Contexts \ {BootCore} : call'[d] = <<>>
                        /\ \A u \in Threads : Pends("block", u)' => u \in W'
                        /\ \A d \in Cores : pc'[d] \in {"complete", "finish"} /\ act'[d] = "Terminated"
                                              => mode'[d] \notin handler'
      BY <2>1 DEF TurnInv
    <2>2. \A u \in Threads : Settled(u)'
      BY <1>7, <1>8 DEF QxkInv, TurnInv, Settled, Quietly
    <2>3. \A d \in Contexts \ {BootCore} : call'[d] = <<>>
      BY <1>2, <1>3 DEF QxkInv, TurnInv
    <2>4. \A u \in Threads : Pends("block", u)' => u \in W'
      BY <1>7, <1>9 DEF QxkInv, TurnInv
    <2>5. \A d \in Cores : pc'[d] \in {"complete", "finish"} /\ act'[d] = "Terminated"
                             => mode'[d] \notin handler'
      BY <1>3, <1>5 DEF QxkInv, TurnInv, Quietly
    <2> QED BY <2>2, <2>3, <2>4, <2>5
  <1> QED BY <1>2, <1>4, <1>5, <1>11, <1>12 DEF CoreInv

-----------------------------------------------------------------------------
(* A further critical section of a call. *)

LEMMA FurtherStep ==
    ASSUME QxkInv, NEW c \in Contexts, call[c] # <<>>, NEW x, x = Head(call[c]),
           NEW k \in Seq(Step), Len(k) <= 1,
           \A y \in StepsOf(k) : y.op \notin {"block", "unblock", "has_work"},
           Rest(c, k), mode' = mode, act' = act, next' = next, active' = active,
           handler' = handler, smp' = smp, quiet' = quiet, waiting' = waiting, senders' = senders,
           \/ pc' = pc
           \/ x.op = "has_work" /\ pc' = [pc EXCEPT ![c] = "plan"],
           thread_ready' = IF x.op = "block" THEN thread_ready \ {x.arg}
                           ELSE IF x.op = "unblock" THEN thread_ready \cup {x.arg} ELSE thread_ready
    PROVE  CoreInv' /\ pc' \in [Cores -> PCs]
PROOF
  <1> DEFINE T == StepsOf(Tail(call[c]))
  <1>1. /\ call' \in [Contexts -> Seq(Step)] /\ CallInv' /\ x \in Step
        /\ Todo(c) = {x} \cup T /\ Todo(c)' = StepsOf(k) \cup T
        /\ x.op = "unblock" => x \notin T
        /\ \A y \in T : y.op \notin FirstOps
        /\ \A d \in Contexts \ {c} : call'[d] = call[d] /\ Todo(d)' = Todo(d)
    <2>1. \A y \in StepsOf(k) : y.op # "unblock"
      OBVIOUS
    <2> QED BY <2>1, RestCall DEF QxkInv
  <1> HIDE DEF T
  <1>2. x = Do(x.op, x.arg) /\ (x.op \in {"block", "unblock"} => x.arg \in Threads)
    BY <1>1, StepFields
  <1>3. pc \in [Cores -> PCs] /\ pc' \in [Cores -> PCs]
        /\ \A d \in Cores : pc'[d] = pc[d] \/ (d = c /\ x.op = "has_work" /\ pc[c] = "out" /\ pc'[c] = "plan")
    <2>1. pc \in [Cores -> PCs] BY DEF QxkInv, TypeInv
    <2>2. x.op = "has_work" => c \in Cores /\ pc[c] = "out" BY <1>1 DEF QxkInv, WakeInv
    <2> QED BY <2>1, <2>2 DEF PCs
  <1>4. \A d \in Cores : Off(d) => d # c
    BY DEF QxkInv, ClaimInv
  <1>5. ClaimInv'
    <2>1. \A d \in Cores : Claims(d)' => Claims(d) /\ pc'[d] = pc[d]
      BY <1>3 DEF Claims, AtWork
    <2>2. \A d \in Cores : Guarded(d)' => Guarded(d)
      BY <1>3 DEF Guarded
    <2>3. \A d \in Cores : Claimed(d)'
      BY <1>3 DEF QxkInv, ClaimInv, Claimed, AtWork
    <2>4. \A d \in Cores : Off(d)' => pc'[d] = "out" /\ call'[d] = <<>>
      BY <1>1, <1>3, <1>4, Callers DEF QxkInv, ClaimInv, Off
    <2> QED BY <2>1, <2>2, <2>3, <2>4 DEF QxkInv, ClaimInv
  <1>6. W' = W
    BY DEF W
  <1>7. ASSUME NEW t PROVE Pends("unblock", t)' => Pends("unblock", t)
    BY <1>1, Steps DEF Pends
  <1>8. ASSUME NEW t, Pends("unblock", t), x # Do("unblock", t) PROVE Pends("unblock", t)'
    BY <1>1, <1>8 DEF Pends
  <1>9. ASSUME NEW t PROVE Pends("block", t)' => Pends("block", t)
    BY <1>1, Steps DEF Pends
  <1>10. ASSUME NEW t, Pends("block", t), x # Do("block", t) PROVE Pends("block", t)'
    BY <1>1, <1>10 DEF Pends
  <1>11. x.op = "unblock" => Pends("unblock", x.arg) /\ ~Pends("unblock", x.arg)' /\ x.arg \notin W
    <2> SUFFICES ASSUME x.op = "unblock" PROVE Pends("unblock", x.arg) /\ ~Pends("unblock", x.arg)'
      BY DEF QxkInv, WakeInv
    <2>1. PICK t : t = x.arg /\ x = Do("unblock", t)
      BY <1>2
    <2>2. Pends("unblock", t)
      BY <1>1, <2>1 DEF Pends
    <2>3. \A d \in Contexts \ {c} : x \notin Todo(d)
      BY <1>1 DEF QxkInv, WakeInv
    <2>4. x \notin Todo(c)'
      BY <1>1
    <2>5. ~Pends("unblock", t)'
      BY <1>1, <2>1, <2>3, <2>4 DEF Pends
    <2> QED BY <2>1, <2>2, <2>5
  <1>12. WakeInv'
    <2>1. waiting' \cap senders' = {}
      BY DEF QxkInv, WakeInv
    <2>2. \A d \in Cores : (FreshAt(pc[d], mode[d], act[d]) => Unbound(mode[d]))'
      <3> SUFFICES ASSUME NEW d \in Cores, FreshAt(pc'[d], mode[d], act[d])
                   PROVE  mode[d] \notin W' /\ ~(Pends("unblock", mode[d])')
        BY DEF FreshAt, Unbound
      <3>1. FreshAt(pc[d], mode[d], act[d])
        BY <1>3 DEF FreshAt
      <3>2. PICK t : t = mode[d] /\ Unbound(t)
        BY <3>1 DEF QxkInv, WakeInv
      <3>3. t \notin W' /\ ~Pends("unblock", t)'
        BY <3>2, <1>6, <1>7 DEF Unbound
      <3> QED BY <3>2, <3>3 DEF Pends
    <2>3. \A d \in Cores : (pc[d] \notin Guarding \/ mode[d] \notin Threads => act[d] = "run")'
      BY <1>3 DEF QxkInv, WakeInv, Guarding
    <2>4. ASSUME NEW d \in Contexts, NEW y \in Todo(d)'
          PROVE  /\ y.op = "block" => d \in Cores /\ pc'[d] = "user" /\ act'[d] = "Blocked" /\ mode'[d] = y.arg
                 /\ y.op = "has_work" => d \in Cores /\ pc'[d] = "out"
      <3>1. CASE d = c
        <4>1. y.op # "has_work"
          BY <1>1, <2>4, <3>1 DEF FirstOps
        <4>2. y.op = "block" => y \in Todo(c)
          BY <1>1, <2>4, <3>1
        <4>3. y.op = "block" => c \in Cores /\ pc[c] = "user" /\ act[c] = "Blocked" /\ mode[c] = y.arg
          BY <4>2 DEF QxkInv, WakeInv
        <4> QED BY <1>3, <3>1, <4>1, <4>3
      <3>2. CASE d # c
        <4>1. y \in Todo(d) BY <1>1, <2>4, <3>2
        <4> QED BY <1>3, <3>2, <4>1 DEF QxkInv, WakeInv
      <3> QED BY <3>1, <3>2
    <2>5. \A t \in W' : ~Pends("unblock", t)'
      BY <1>6, <1>7 DEF QxkInv, WakeInv
    <2>6. ASSUME NEW t \in Threads, t \in W' \/ Pends("unblock", t)'
          PROVE  Pends("block", t)' \/ t \notin thread_ready'
      <3>1. Pends("block", t) \/ t \notin thread_ready
        BY <1>6, <1>7, <2>6 DEF QxkInv, WakeInv
      <3>2. CASE x = Do("block", t)
        BY <3>2, Steps
      <3>3. CASE x = Do("unblock", t)
        <4>1. x.op = "unblock" /\ x.arg = t BY <3>3, Steps
        <4> QED BY <1>6, <1>11, <2>6, <4>1
      <3>4. CASE x # Do("block", t) /\ x # Do("unblock", t)
        <4>1. t \in thread_ready' => t \in thread_ready BY <1>2, <3>4
        <4> QED BY <1>10, <3>1, <3>4, <4>1
      <3> QED BY <3>2, <3>3, <3>4
    <2>7. ASSUME NEW d \in Contexts, NEW e \in Contexts, d # e, NEW y \in Todo(d)', y.op = "unblock"
          PROVE  y \notin Todo(e)'
      <3>1. \A f \in Contexts : y \in Todo(f)' => y \in Todo(f)
        BY <1>1, <2>7
      <3> QED BY <2>7, <3>1 DEF QxkInv, WakeInv
    <2> QED BY <2>1, <2>2, <2>3, <2>4, <2>5, <2>6, <2>7 DEF WakeInv
  <1>13. TurnInv'
    <2>1. InTurn' <=> InTurn
      BY DEF InTurn
    <2> SUFFICES ASSUME InTurn
                 PROVE  /\ \A t \in Threads : Settled(t)'
                        /\ \A d \in Contexts \ {BootCore} : call'[d] = <<>>
                        /\ \A t \in Threads : Pends("block", t)' => t \in W'
                        /\ \A d \in Cores : pc'[d] \in {"complete", "finish"} /\ act'[d] = "Terminated"
                                              => mode'[d] \notin handler'
      BY <2>1 DEF TurnInv
    <2>2. ASSUME NEW t \in Threads PROVE Settled(t)'
      <3>1. Settled(t)
        BY DEF QxkInv, TurnInv
      <3>2. CASE x = Do("block", t)
        <4>1. Pends("block", t) BY <1>1, <3>2 DEF Pends
        <4> QED BY <1>6, <4>1 DEF QxkInv, TurnInv, Settled
      <3>3. CASE x = Do("unblock", t)
        BY <3>3, Steps DEF Settled
      <3>4. CASE x # Do("block", t) /\ x # Do("unblock", t)
        <4>1. t \in thread_ready => t \in thread_ready' BY <1>2, <3>4
        <4> QED BY <1>6, <1>8, <3>1, <3>4, <4>1 DEF Settled
      <3> QED BY <3>2, <3>3, <3>4
    <2>3. \A d \in Contexts \ {BootCore} : call'[d] = <<>>
      BY <1>1 DEF QxkInv, TurnInv
    <2>4. \A t \in Threads : Pends("block", t)' => t \in W'
      BY <1>6, <1>9 DEF QxkInv, TurnInv
    <2>5. \A d \in Cores : pc'[d] \in {"complete", "finish"} /\ act'[d] = "Terminated"
                             => mode'[d] \notin handler'
      BY <1>3 DEF QxkInv, TurnInv
    <2> QED BY <2>2, <2>3, <2>4, <2>5
  <1> QED BY <1>1, <1>3, <1>5, <1>12, <1>13 DEF CoreInv

-----------------------------------------------------------------------------
(* The calls, by what they leave in call[c]. *)

LEMMA PlainCall ==
    ASSUME QxkInv, NEW c \in Running, NEW s, WellFormed(s), Begin(c, s), Quietly, act' = act,
           waiting' = waiting, senders' = senders,
           \A x \in StepsOf(s) :
               /\ x.op \notin {"block", "unblock"}
               /\ x.op = "has_work" => c \in Cores /\ pc[c] = "out"
    PROVE  CoreInv'
PROOF
  <1>1. W' = W BY DEF W
  <1> QED BY <1>1, WakingCall

LEMMA WakeSteps ==
    ASSUME NEW t \in Threads, NEW b, b = <<>> \/ \E v \in Status : b = <<Do("ceil_unlock", v)>>
    PROVE  /\ WellFormed(b \o Waking(t)) /\ WellFormed(b)
           /\ StepsOf(b \o Waking(t)) = StepsOf(b) \cup {Do("unblock", t)}
           /\ \A x \in StepsOf(b) : x.op = "ceil_unlock"
PROOF
  <1>1. PICK u \in Step : u = Do("unblock", t) /\ u.op = "unblock"
    BY Steps
  <1>2. Waking(t) = <<u>>
    BY <1>1 DEF Waking
  <1>3. CASE b = <<>>
    <2>1. b \o <<u>> = <<u>> BY <1>3
    <2> QED BY <1>1, <1>2, <1>3, <2>1, ShortCalls
  <1>4. ASSUME NEW v \in Status, b = <<Do("ceil_unlock", v)>>
        PROVE  /\ WellFormed(b \o <<u>>) /\ WellFormed(b) /\ StepsOf(b \o <<u>>) = StepsOf(b) \cup {u}
               /\ \A x \in StepsOf(b) : x.op = "ceil_unlock"
    <2>1. PICK x \in Step : x = Do("ceil_unlock", v) /\ x.op = "ceil_unlock"
      BY Steps
    <2>2. PICK r : r = b \o <<u>> /\ b = <<x>>
      BY <1>4, <2>1
    <2>3. WellFormed(r) /\ StepsOf(r) = {x, u}
      <3>1. <<x>> \in Seq(Step) /\ <<u>> \in Seq(Step) /\ Len(<<x>>) = 1 /\ Len(<<u>>) = 1
        OBVIOUS
      <3>2. r \in Seq(Step) /\ Len(r) = 2 /\ DOMAIN r = 1..2 /\ r[1] = x /\ r[2] = u
        BY <2>2, <3>1
      <3>3. DOMAIN r = {1, 2}
        BY <3>2
      <3> QED BY <1>1, <2>1, <3>2, <3>3 DEF WellFormed, OnceEach, FirstOnly, StepsOf, FirstOps, Taking
    <2> QED BY <2>1, <2>2, <2>3, ShortCalls
  <1> QED BY <1>1, <1>2, <1>3, <1>4

\* A waker takes one waiter off a list, if there is one.
LEMMA WakeCall ==
    ASSUME QxkInv, NEW c \in Running, Quietly, act' = act,
           NEW b, b = <<>> \/ \E v \in Status : b = <<Do("ceil_unlock", v)>>,
           \/ Wake(c, waiting, waiting', b) /\ senders' = senders
           \/ Wake(c, senders, senders', b) /\ waiting' = waiting
    PROVE  /\ CoreInv' /\ waiting' \subseteq waiting /\ senders' \subseteq senders
           /\ \E s : /\ WellFormed(s) /\ Begin(c, s) /\ StepsOf(b) \subseteq StepsOf(s)
                     /\ \A x \in StepsOf(s) : x.op = "unblock" \/ x \in StepsOf(b)
PROOF
  <1>1. /\ WellFormed(b) /\ \A x \in StepsOf(b) : x.op = "ceil_unlock"
    <2>1. \A v \in Status : Do("ceil_unlock", v) \in Step /\ Do("ceil_unlock", v).op = "ceil_unlock"
      BY Steps
    <2> QED BY <2>1, ShortCalls
  <1>2. CASE Begin(c, b) /\ waiting' = waiting /\ senders' = senders
    <2>1. CoreInv'
      BY <1>1, <1>2, PlainCall
    <2> QED BY <1>1, <1>2, <2>1
  <1>3. ASSUME NEW t \in W, Begin(c, b \o Waking(t)), waiting' \subseteq waiting, senders' \subseteq senders,
               W \ W' = {t}
        PROVE  CoreInv' /\ \E s : /\ WellFormed(s) /\ Begin(c, s) /\ StepsOf(b) \subseteq StepsOf(s)
                                  /\ \A x \in StepsOf(s) : x.op = "unblock" \/ x \in StepsOf(b)
    <2>1. t \in Threads
      BY DEF QxkInv, TypeInv, W
    <2>2. PICK s : s = b \o Waking(t)
      OBVIOUS
    <2>3. WellFormed(s) /\ StepsOf(s) = StepsOf(b) \cup {Do("unblock", t)}
      BY <2>1, <2>2, WakeSteps
    <2>4. Begin(c, s)
      BY <1>3, <2>2
    <2>5. Do("unblock", t).op = "unblock" /\ Do("unblock", t).arg = t
      BY Steps
    <2>6. CoreInv'
      BY <1>1, <1>3, <2>3, <2>4, <2>5, WakingCall
    <2> QED BY <2>3, <2>4, <2>5, <2>6
  <1>4. waiting \cap senders = {}
    BY DEF QxkInv, WakeInv
  <1>5. CASE Wake(c, waiting, waiting', b) /\ senders' = senders
    <2>1. CASE waiting = {}
      BY <1>2, <1>5, <2>1 DEF Wake
    <2>2. CASE waiting # {}
      <3>1. PICK t \in Highest(waiting) : Begin(c, b \o Waking(t)) /\ waiting' = waiting \ {t}
        BY <1>5, <2>2 DEF Wake
      <3>2. t \in waiting
        BY DEF Highest
      <3>3. t \in W /\ W \ W' = {t}
        BY <1>4, <1>5, <3>1, <3>2 DEF W
      <3> QED BY <1>3, <1>5, <3>1, <3>3
    <2> QED BY <2>1, <2>2
  <1>6. CASE Wake(c, senders, senders', b) /\ waiting' = waiting
    <2>1. CASE senders = {}
      BY <1>2, <1>6, <2>1 DEF Wake
    <2>2. CASE senders # {}
      <3>1. PICK t \in Highest(senders) : Begin(c, b \o Waking(t)) /\ senders' = senders \ {t}
        BY <1>6, <2>2 DEF Wake
      <3>2. t \in senders
        BY DEF Highest
      <3>3. t \in W /\ W \ W' = {t}
        BY <1>4, <1>6, <3>1, <3>2 DEF W
      <3> QED BY <1>3, <1>6, <3>1, <3>3
    <2> QED BY <2>1, <2>2
  <1> QED BY <1>5, <1>6

\* notify_all unblocks each waiter once: a sequence of the waiters, as long as
\* there are waiters, that names them all.
LEMMA NotifyAllSteps ==
    ASSUME QxkInv, NEW o \in Orders(waiting),
           NEW s, s = [i \in DOMAIN o |-> Do("unblock", o[i])]
    PROVE  WellFormed(s) /\ StepsOf(s) = {Do("unblock", t) : t \in waiting}
PROOF
  <1>1. IsFiniteSet(waiting) /\ waiting \subseteq Threads /\ Cardinality(waiting) \in Nat
    BY QxkConstants, FS_Subset, FS_CardinalityType DEF QxkInv, TypeInv
  <1> DEFINE n == Cardinality(waiting)
  <1>2. o \in [1..n -> waiting] /\ \A t \in waiting : \E i \in 1..n : o[i] = t
    BY DEF Orders
  <1>3. IsFiniteSet(1..n) /\ Cardinality(1..n) = n
    <2>1. IsFiniteSet(1..n) /\ Cardinality(1..n) = IF 1 > n THEN 0 ELSE n - 1 + 1
      BY <1>1, FS_Interval
    <2> QED BY <1>1, <2>1
  <1>4. o \in Surjection(1..n, waiting)
    BY <1>2 DEF Surjection
  <1>5. o \in Injection(1..n, waiting)
    BY <1>3, <1>4, FS_SurjSameCardinalityImpliesInj
  <1>6. \A i, j \in 1..n : o[i] = o[j] => i = j
    BY <1>2, <1>5 DEF Injection, IsInjective
  <1>7. s = [i \in 1..n |-> Do("unblock", o[i])] /\ \A i \in 1..n : o[i] \in Threads
    BY <1>1, <1>2
  <1> HIDE DEF n
  <1>8. DOMAIN s = 1..n /\ \A i \in 1..n : s[i] = Do("unblock", o[i]) /\ s[i] \in Step
    BY <1>7, Steps
  <1>9. s \in Seq(Step)
    <2>1. s \in [1..n -> Step] BY <1>7, <1>8
    <2>2. n \in Nat BY <1>1 DEF n
    <2> QED BY <2>1, <2>2
  <1>10. OnceEach(s) /\ FirstOnly(s)
    <2>1. \A i, j \in 1..n : s[i] = s[j] => o[i] = o[j]
      BY <1>8 DEF Do
    <2>2. \A i \in 1..n : s[i].op \notin FirstOps
      BY <1>8, Steps DEF FirstOps, Taking
    <2> QED BY <1>6, <1>8, <2>1, <2>2 DEF OnceEach, FirstOnly
  <1>11. StepsOf(s) = {Do("unblock", t) : t \in waiting}
    BY <1>2, <1>8 DEF StepsOf
  <1> QED BY <1>9, <1>10, <1>11 DEF WellFormed

LEMMA NotifyAllCall ==
    ASSUME QxkInv, NEW c \in Running, Quietly, act' = act, notify_all(c)
    PROVE  CoreInv' /\ \E s : WellFormed(s) /\ Begin(c, s) /\ \A x \in StepsOf(s) : x.op = "unblock"
PROOF
  <1>1. PICK o \in Orders(waiting) : Begin(c, [i \in DOMAIN o |-> Do("unblock", o[i])])
    BY DEF notify_all
  <1>2. PICK s : s = [i \in DOMAIN o |-> Do("unblock", o[i])]
    OBVIOUS
  <1>3. WellFormed(s) /\ StepsOf(s) = {Do("unblock", t) : t \in waiting}
    BY <1>2, NotifyAllSteps
  <1>4. Begin(c, s) /\ waiting' = {} /\ senders' = senders
    BY <1>1, <1>2 DEF notify_all
  <1>5. waiting \cap senders = {}
    BY DEF QxkInv, WakeInv
  <1>6. ASSUME NEW x \in StepsOf(s) PROVE x.op = "unblock" /\ x.arg \in W /\ x.arg \notin W'
    <2>1. PICK t \in waiting : x = Do("unblock", t) BY <1>3
    <2>2. x.op = "unblock" /\ x.arg = t BY <2>1, Steps
    <2> QED BY <1>4, <1>5, <2>2 DEF W
  <1>7. \A t \in W \ W' : Do("unblock", t) \in StepsOf(s)
    BY <1>3, <1>4 DEF W
  <1>8. waiting' \subseteq waiting /\ senders' \subseteq senders
    BY <1>4
  <1>9. CoreInv'
    BY <1>3, <1>4, <1>6, <1>7, <1>8, WakingCall
  <1> QED BY <1>3, <1>4, <1>6, <1>9

-----------------------------------------------------------------------------
(* Who has to give the ceiling back. *)

CeilOps == {"ceil_lock", "store", "ceil_unlock"}

LEMMA CeilSame ==
    ASSUME CeilInv, lock_ceiling' = lock_ceiling, held' = held, status' = status, owner' = owner,
           \A d \in Contexts : \A x : x.op \in CeilOps => (x \in Todo(d)' <=> x \in Todo(d))
    PROVE  CeilInv'
PROOF
  <1>1. Saved(0) => Saved(0)'
    BY DEF Saved, CeilOps
  <1> QED BY <1>1 DEF CeilInv, CeilOps, Taking

LEMMA CeilBegin ==
    ASSUME QxkInv, NEW c \in Running, NEW s, WellFormed(s), Begin(c, s),
           \A x \in StepsOf(s) : x.op \notin CeilOps,
           lock_ceiling' = lock_ceiling, held' = held, status' = status, owner' = owner
    PROVE  CeilInv'
PROOF
  <1>1. /\ Todo(c) = {} /\ Todo(c)' = StepsOf(s) /\ \A d \in Contexts \ {c} : Todo(d)' = Todo(d)
    BY RunningOn, BeginCall DEF QxkInv
  <1>2. \A d \in Contexts : \A x : x.op \in CeilOps => (x \in Todo(d)' <=> x \in Todo(d))
    BY <1>1
  <1> QED BY <1>2, CeilSame DEF QxkInv

LEMMA CallsKeep ==
    ASSUME QxkInv, Quietly, act' \in [Cores -> Acts], waiting' \subseteq Threads, senders' \subseteq Threads,
           lock_ceiling' \in Nat, status' \in Status, held' \in [Contexts -> Status],
           owner' \in Threads \cup {NoOwner}, CoreInv', CeilInv'
    PROVE  QxkInv'
  BY DEF QxkInv, TypeInv, CoreInv, Quietly

\* A call that neither takes nor gives back the ceiling.
LEMMA UnrelatedCall ==
    ASSUME QxkInv, NEW c \in Running, NEW s, WellFormed(s), Begin(c, s), Quietly, CoreInv',
           \A x \in StepsOf(s) : x.op \notin CeilOps, act' \in [Cores -> Acts],
           waiting' \subseteq Threads, senders' \subseteq Threads,
           lock_ceiling' = lock_ceiling, held' = held, status' = status, owner' = owner
    PROVE  QxkInv'
PROOF
  <1>1. CeilInv' BY CeilBegin
  <1>2. /\ lock_ceiling' \in Nat /\ status' \in Status /\ held' \in [Contexts -> Status]
        /\ owner' \in Threads \cup {NoOwner}
    BY DEF QxkInv, TypeInv
  <1> QED BY <1>1, <1>2, CallsKeep

\* What the call of c leaves unchanged when it only goes through lists and counts.
Untouched == lock_ceiling' = lock_ceiling /\ held' = held /\ status' = status /\ owner' = owner

LEMMA EmptyCall ==
    ASSUME QxkInv, NEW c \in Running, Begin(c, <<>>), Quietly, Untouched, act' = act,
           waiting' = waiting, senders' = senders
    PROVE  QxkInv'
PROOF
  <1>1. CoreInv'
    BY PlainCall, ShortCalls
  <1>2. act' \in [Cores -> Acts] /\ waiting' \subseteq Threads /\ senders' \subseteq Threads
    BY DEF QxkInv, TypeInv
  <1> QED BY <1>1, <1>2, UnrelatedCall, ShortCalls DEF Untouched

LEMMA WakingOnly ==
    ASSUME QxkInv, NEW c \in Running, Quietly, Untouched, act' = act,
           \/ Wake(c, waiting, waiting', <<>>) /\ senders' = senders
           \/ Wake(c, senders, senders', <<>>) /\ waiting' = waiting
    PROVE  QxkInv'
PROOF
  <1>1. PICK b : b = <<>> OBVIOUS
  <1>2. /\ CoreInv' /\ waiting' \subseteq waiting /\ senders' \subseteq senders
        /\ \E s : /\ WellFormed(s) /\ Begin(c, s)
                  /\ \A x \in StepsOf(s) : x.op = "unblock" \/ x \in StepsOf(b)
    BY <1>1, WakeCall
  <1>3. act' \in [Cores -> Acts] /\ waiting' \subseteq Threads /\ senders' \subseteq Threads
    BY <1>2 DEF QxkInv, TypeInv
  <1>4. PICK s : WellFormed(s) /\ Begin(c, s) /\ \A x \in StepsOf(s) : x.op = "unblock"
    BY <1>1, <1>2, ShortCalls
  <1>5. \A x \in StepsOf(s) : x.op \notin CeilOps
    BY <1>4 DEF CeilOps
  <1> QED BY <1>2, <1>3, <1>4, <1>5, UnrelatedCall DEF Untouched

LEMMA WaitingOnly ==
    ASSUME QxkInv, NEW c \in Running, NEW t \in Threads, RunsThread(c, t), Quietly, Untouched,
           \/ Enqueue(c, t, waiting, waiting') /\ senders' = senders
           \/ Enqueue(c, t, senders, senders') /\ waiting' = waiting
    PROVE  QxkInv'
PROOF
  <1>1. /\ Begin(c, <<Do("block", t)>>) /\ act' = [act EXCEPT ![c] = "Blocked"]
        /\ \/ waiting' = waiting \cup {t} /\ senders' = senders
           \/ waiting' = waiting /\ senders' = senders \cup {t}
    BY DEF Enqueue
  <1>2. CoreInv' /\ act' \in [Cores -> Acts]
    BY <1>1, WaitingCall
  <1>3. waiting' \subseteq Threads /\ senders' \subseteq Threads
    BY <1>1 DEF QxkInv, TypeInv
  <1>4. PICK s : s = <<Do("block", t)>> OBVIOUS
  <1>5. WellFormed(s) /\ Begin(c, s) /\ \A x \in StepsOf(s) : x.op \notin CeilOps
    BY <1>1, <1>4, Steps, ShortCalls DEF CeilOps
  <1> QED BY <1>2, <1>3, <1>5, UnrelatedCall DEF Untouched

-----------------------------------------------------------------------------
(* The primitives. *)

LEMMA SemaphoreInv ==
    ASSUME QxkInv, UNCHANGED fixed, NEW c \in Running,
           wait_timeout(c) \/ signal(c) \/ \E t \in Threads : wait(c, t)
    PROVE  QxkInv'
PROOF
  <1>1. Quietly /\ Untouched
    BY DEF wait_timeout, try_wait, signal, wait, Enqueue, Quietly, Untouched, sched, kernel, local, fixed
  <1>2. CASE wait_timeout(c)
    <2>1. Begin(c, <<>>) /\ act' = act /\ waiting' = waiting /\ senders' = senders
      BY <1>2 DEF wait_timeout, try_wait, local
    <2> QED BY <1>1, <2>1, EmptyCall
  <1>3. CASE signal(c)
    <2>1. Wake(c, waiting, waiting', <<>>) /\ act' = act /\ senders' = senders
      BY <1>3 DEF signal, local
    <2> QED BY <1>1, <2>1, WakingOnly
  <1>4. ASSUME NEW t \in Threads, wait(c, t) PROVE QxkInv'
    <2>1. CASE count > 0
      <3>1. Begin(c, <<>>) /\ act' = act /\ waiting' = waiting /\ senders' = senders
        BY <1>4, <2>1 DEF wait, local
      <3> QED BY <1>1, <3>1, EmptyCall
    <2>2. CASE ~(count > 0)
      <3>1. RunsThread(c, t) /\ Enqueue(c, t, waiting, waiting') /\ senders' = senders
        BY <1>4, <2>2 DEF wait
      <3> QED BY <1>1, <3>1, WaitingOnly
    <2> QED BY <2>1, <2>2
  <1> QED BY <1>2, <1>3, <1>4

LEMMA MessageQueueInv ==
    ASSUME QxkInv, UNCHANGED fixed, NEW c \in Running,
           try_send(c) \/ try_receive(c) \/ \E t \in Threads : send(c, t) \/ receive(c, t)
    PROVE  QxkInv'
PROOF
  <1>1. Quietly /\ Untouched
    BY DEF try_send, try_receive, send, receive, Enqueue, Quietly, Untouched, sched, kernel, local, fixed
  <1>2. CASE try_send(c)
    <2>1. Wake(c, waiting, waiting', <<>>) /\ act' = act /\ senders' = senders
      BY <1>2 DEF try_send, local
    <2> QED BY <1>1, <2>1, WakingOnly
  <1>3. CASE try_receive(c)
    <2>1. Begin(c, <<>>) /\ act' = act /\ waiting' = waiting /\ senders' = senders
      BY <1>3 DEF try_receive, local
    <2> QED BY <1>1, <2>1, EmptyCall
  <1>4. ASSUME NEW t \in Threads, send(c, t) PROVE QxkInv'
    <2>1. CASE count < Capacity
      <3>1. Wake(c, waiting, waiting', <<>>) /\ act' = act /\ senders' = senders
        BY <1>4, <2>1 DEF send, local
      <3> QED BY <1>1, <3>1, WakingOnly
    <2>2. CASE ~(count < Capacity)
      <3>1. RunsThread(c, t) /\ Enqueue(c, t, senders, senders') /\ waiting' = waiting
        BY <1>4, <2>2 DEF send
      <3> QED BY <1>1, <3>1, WaitingOnly
    <2> QED BY <2>1, <2>2
  <1>5. ASSUME NEW t \in Threads, receive(c, t) PROVE QxkInv'
    <2>1. CASE count > 0
      <3>1. Wake(c, senders, senders', <<>>) /\ act' = act /\ waiting' = waiting
        BY <1>5, <2>1 DEF receive, local
      <3> QED BY <1>1, <3>1, WakingOnly
    <2>2. CASE ~(count > 0)
      <3>1. RunsThread(c, t) /\ Enqueue(c, t, waiting, waiting') /\ senders' = senders
        BY <1>5, <2>2 DEF receive
      <3> QED BY <1>1, <3>1, WaitingOnly
    <2> QED BY <2>1, <2>2
  <1> QED BY <1>2, <1>3, <1>4, <1>5

LEMMA CondvarInv ==
    ASSUME QxkInv, UNCHANGED fixed, NEW c \in Running,
           notify_one(c) \/ notify_all(c) \/ \E t \in Threads : cond_wait(c, t)
    PROVE  QxkInv'
PROOF
  <1>1. Quietly /\ Untouched
    BY DEF notify_one, notify_all, cond_wait, Enqueue, Quietly, Untouched, sched, kernel, local, fixed
  <1>2. CASE notify_one(c)
    <2>1. Wake(c, waiting, waiting', <<>>) /\ act' = act /\ senders' = senders
      BY <1>2 DEF notify_one, local
    <2> QED BY <1>1, <2>1, WakingOnly
  <1>3. CASE notify_all(c)
    <2>1. act' = act /\ waiting' = {} /\ senders' = senders
      BY <1>3 DEF notify_all, local
    <2>2. CoreInv' /\ \E s : WellFormed(s) /\ Begin(c, s) /\ \A x \in StepsOf(s) : x.op = "unblock"
      BY <1>1, <1>3, <2>1, NotifyAllCall
    <2>3. PICK s : WellFormed(s) /\ Begin(c, s) /\ \A x \in StepsOf(s) : x.op \notin CeilOps
      BY <2>2 DEF CeilOps
    <2>4. act' \in [Cores -> Acts] /\ waiting' \subseteq Threads /\ senders' \subseteq Threads
      BY <2>1 DEF QxkInv, TypeInv
    <2> QED BY <1>1, <2>2, <2>3, <2>4, UnrelatedCall DEF Untouched
  <1>4. ASSUME NEW t \in Threads, cond_wait(c, t) PROVE QxkInv'
    <2>1. RunsThread(c, t) /\ Enqueue(c, t, waiting, waiting') /\ senders' = senders
      BY <1>4 DEF cond_wait
    <2> QED BY <1>1, <2>1, WaitingOnly
  <1> QED BY <1>2, <1>3, <1>4

\* The mutex is granted; its ceiling, if it has one, is taken by what follows.
LEMMA GrantInv ==
    ASSUME QxkInv, NEW c \in Running, NEW t \in Threads, owner = NoOwner, owner' = t,
           NEW s, s = <<>> \/ s = <<Do("ceil_lock", t)>>, Begin(c, s), Quietly, act' = act,
           waiting' = waiting, senders' = senders,
           lock_ceiling' = lock_ceiling, held' = held, status' = status
    PROVE  QxkInv'
PROOF
  <1>1. WellFormed(s) /\ \A x \in StepsOf(s) : x.op = "ceil_lock"
    BY Steps, ShortCalls
  <1>2. CoreInv'
    BY <1>1, PlainCall
  <1>3. /\ Todo(c) = {} /\ Todo(c)' = StepsOf(s) /\ c \in Contexts
        /\ \A d \in Contexts \ {c} : Todo(d)' = Todo(d)
    BY <1>1, RunningOn, BeginCall DEF QxkInv
  <1>4. \A d \in Contexts : \A x \in Todo(d) : x.op \notin Taking
    BY DEF QxkInv, CeilInv
  <1>5. status = Unlocked /\ t # NoOwner
    BY SyncAssumption DEF QxkInv, CeilInv
  <1>6. Saved(0) => Saved(0)'
    BY <1>3 DEF Saved
  <1>7. CeilInv'
    BY <1>3, <1>4, <1>5, <1>6 DEF QxkInv, CeilInv
  <1>8. /\ lock_ceiling' \in Nat /\ status' \in Status /\ held' \in [Contexts -> Status]
        /\ act' \in [Cores -> Acts] /\ waiting' \subseteq Threads /\ senders' \subseteq Threads
    BY DEF QxkInv, TypeInv
  <1> QED BY <1>2, <1>7, <1>8, CallsKeep

\* Nobody is between taking the ceiling and storing what it was.
LEMMA NoneTaking ==
    ASSUME QxkInv, \A d \in Contexts : ~Doing(d, "ceil_lock") /\ ~Doing(d, "store")
    PROVE  \A d \in Contexts : \A x \in Todo(d) : x.op \notin Taking
PROOF
  <1> SUFFICES ASSUME NEW d \in Contexts, NEW x \in Todo(d), x.op \in Taking PROVE FALSE
    OBVIOUS
  <1>1. PICK i \in DOMAIN call[d] : x = call[d][i]
    BY DEF Todo, StepsOf
  <1>2. i = 1
    BY <1>1 DEF QxkInv, CallInv, FirstOnly, FirstOps
  <1>3. call[d] \in Seq(Step)
    BY DEF QxkInv, TypeInv
  <1>4. call[d] # <<>> /\ Head(call[d]) = x
    BY <1>1, <1>2, <1>3
  <1> QED BY <1>4 DEF Doing, Taking

LEMMA MutexUnlockInv ==
    ASSUME QxkInv, UNCHANGED fixed, NEW c \in Running, NEW t \in Threads, mutex_unlock(c, t)
    PROVE  QxkInv'
PROOF
  <1>1. /\ Quietly /\ act' = act /\ senders' = senders /\ held' = held /\ lock_ceiling' = lock_ceiling
        /\ owner' = NoOwner /\ status' = Unlocked
    BY DEF mutex_unlock, Quietly, sched, kernel, local, fixed
  <1>2. PICK b : /\ b = IF status # Unlocked THEN <<Do("ceil_unlock", status)>> ELSE <<>>
                 /\ Wake(c, waiting, waiting', b)
    BY DEF mutex_unlock
  <1>3. status \in Status
    BY DEF QxkInv, TypeInv
  <1>4. /\ CoreInv' /\ waiting' \subseteq waiting
        /\ \E s : /\ WellFormed(s) /\ Begin(c, s) /\ StepsOf(b) \subseteq StepsOf(s)
                  /\ \A x \in StepsOf(s) : x.op = "unblock" \/ x \in StepsOf(b)
    BY <1>1, <1>2, <1>3, WakeCall
  <1>5. PICK s : /\ WellFormed(s) /\ Begin(c, s) /\ StepsOf(b) \subseteq StepsOf(s)
                 /\ \A x \in StepsOf(s) : x.op = "unblock" \/ x \in StepsOf(b)
    BY <1>4
  <1>6. \A x \in StepsOf(b) : x.op = "ceil_unlock"
    BY <1>2, <1>3, Steps, ShortCalls
  <1>7. /\ Todo(c) = {} /\ Todo(c)' = StepsOf(s) /\ c \in Contexts
        /\ \A d \in Contexts \ {c} : Todo(d)' = Todo(d)
    BY <1>5, RunningOn, BeginCall DEF QxkInv
  <1>8. \A d \in Contexts : \A x \in Todo(d) : x.op \notin Taking
    BY NoneTaking DEF mutex_unlock
  <1>9. \A d \in Contexts : \A x \in Todo(d)' : x.op \notin Taking
    BY <1>5, <1>6, <1>7, <1>8 DEF Taking
  <1>10. ASSUME Saved(0) PROVE Saved(0)'
    <2>1. CASE status = 0
      <3>1. status # Unlocked
        BY <2>1 DEF Unlocked
      <3>2. Do("ceil_unlock", 0) \in StepsOf(b) /\ Do("ceil_unlock", 0).op = "ceil_unlock"
            /\ Do("ceil_unlock", 0).arg = 0
        BY <1>2, <1>3, <2>1, <3>1, Steps, ShortCalls
      <3> QED BY <1>5, <1>7, <3>2 DEF Saved
    <2>2. CASE \E d \in Contexts : held[d] = 0
      BY <1>1, <2>2 DEF Saved
    <2>3. CASE \E d \in Contexts : \E x \in Todo(d) : x.op \in {"store", "ceil_unlock"} /\ x.arg = 0
      BY <1>7, <2>3 DEF Saved
    <2> QED BY <1>10, <2>1, <2>2, <2>3 DEF Saved
  <1>11. CeilInv'
    BY <1>1, <1>9, <1>10 DEF QxkInv, CeilInv
  <1>12. /\ lock_ceiling' \in Nat /\ status' \in Status /\ held' \in [Contexts -> Status]
         /\ act' \in [Cores -> Acts] /\ waiting' \subseteq Threads /\ senders' \subseteq Threads
    BY <1>1, <1>4 DEF QxkInv, TypeInv, Status
  <1> QED BY <1>1, <1>4, <1>11, <1>12, CallsKeep

LEMMA MutexInv ==
    ASSUME QxkInv, UNCHANGED fixed, NEW c \in Running, NEW t \in Threads,
           try_lock(c, t) \/ mutex_lock(c, t) \/ mutex_unlock(c, t)
    PROVE  QxkInv'
PROOF
  <1>1. CASE try_lock(c, t)
    <2>1. /\ Quietly /\ act' = act /\ waiting' = waiting /\ senders' = senders /\ held' = held
          /\ lock_ceiling' = lock_ceiling /\ status' = status
      BY <1>1 DEF try_lock, Quietly, sched, kernel, local, fixed
    <2>2. owner = NoOwner /\ owner' = t /\ Begin(c, <<>>)
      BY <1>1 DEF try_lock, Granted
    <2> QED BY <2>1, <2>2, GrantInv
  <1>2. CASE mutex_lock(c, t)
    <2>1. Quietly /\ senders' = senders /\ held' = held /\ lock_ceiling' = lock_ceiling /\ status' = status
      BY <1>2 DEF mutex_lock, Enqueue, Quietly, sched, kernel, local, fixed
    <2>2. CASE owner = NoOwner
      <3>1. /\ owner' = t /\ act' = act /\ waiting' = waiting
            /\ \E s : s \in {<<>>, <<Do("ceil_lock", t)>>} /\ Begin(c, s)
        BY <1>2, <2>2 DEF mutex_lock, Granted, local
      <3> QED BY <2>1, <2>2, <3>1, GrantInv
    <2>3. CASE owner # NoOwner
      <3>1. RunsThread(c, t) /\ Enqueue(c, t, waiting, waiting') /\ owner' = owner
        BY <1>2, <2>3 DEF mutex_lock
      <3> QED BY <2>1, <3>1, WaitingOnly DEF Untouched
    <2> QED BY <2>2, <2>3
  <1>3. CASE mutex_unlock(c, t)
    BY <1>3, MutexUnlockInv
  <1> QED BY <1>1, <1>2, <1>3

LEMMA SyncCallInv ==
    ASSUME QxkInv, UNCHANGED fixed, NEW c \in Running, SyncCall(c)
    PROVE  QxkInv'
PROOF
  <1>1. CASE wait_timeout(c) \/ signal(c) \/ \E t \in Threads : wait(c, t)
    BY <1>1, SemaphoreInv
  <1>2. CASE try_send(c) \/ try_receive(c) \/ \E t \in Threads : send(c, t) \/ receive(c, t)
    BY <1>2, MessageQueueInv
  <1>3. CASE notify_one(c) \/ notify_all(c) \/ \E t \in Threads : cond_wait(c, t)
    BY <1>3, CondvarInv
  <1>4. CASE \E t \in Threads : try_lock(c, t) \/ mutex_lock(c, t) \/ mutex_unlock(c, t)
    BY <1>4, MutexInv
  <1> QED BY <1>1, <1>2, <1>3, <1>4 DEF SyncCall

-----------------------------------------------------------------------------
(* Posts and the scheduler lock. *)

LEMMA PostCallInv ==
    ASSUME QxkInv, UNCHANGED fixed, UNCHANGED sync, NEW c \in Running, PostCall(c)
    PROVE  QxkInv'
PROOF
  <1>1. /\ Quietly /\ act' = act /\ waiting' = waiting /\ senders' = senders /\ held' = held
        /\ lock_ceiling' = lock_ceiling /\ status' = status /\ owner' = owner
    BY DEF PostCall, publish_ao, post_ao, Quietly, sched, kernel, local, fixed, sync
  <1>2. PICK s : WellFormed(s) /\ Begin(c, s) /\ \A x \in StepsOf(s) : x.op = "has_events"
    <2>1. CASE publish_ao(c)
      <3>1. PICK s : s = Publishing /\ Begin(c, s)
        BY <2>1 DEF publish_ao
      <3>2. Cardinality(AOs) \in Nat
        BY QxkConstants, PrioritiesFinite
      <3>3. \A i \in 1..Cardinality(AOs) : Do("has_events", Slot(i)) \in Step
        BY SlotIsAo, Steps DEF PostOps
      <3>4. s = [i \in 1..Cardinality(AOs) |-> Do("has_events", Slot(i))]
        BY <3>1 DEF Publishing
      <3>5. s \in Seq(Step) /\ DOMAIN s = 1..Cardinality(AOs)
        <4>1. s \in [1..Cardinality(AOs) -> Step] BY <3>3, <3>4
        <4> QED BY <3>2, <4>1
      <3>6. \A i \in DOMAIN s : s[i].op = "has_events"
        BY <3>4, Steps
      <3>7. WellFormed(s) /\ \A x \in StepsOf(s) : x.op = "has_events"
        BY <3>5, <3>6 DEF WellFormed, OnceEach, FirstOnly, FirstOps, Taking, StepsOf
      <3> QED BY <3>1, <3>7
    <2>2. ASSUME NEW p \in AOs, post_ao(c, p)
          PROVE  \E s : WellFormed(s) /\ Begin(c, s) /\ \A x \in StepsOf(s) : x.op = "has_events"
      <3>1. PICK s : s = <<Do("has_events", p)>> /\ Begin(c, s)
        BY <2>2 DEF post_ao, Posting
      <3>2. Do("has_events", p) \in Step /\ Do("has_events", p).op = "has_events"
        BY Steps DEF PostOps
      <3> QED BY <3>1, <3>2, ShortCalls
    <2> QED BY <2>1, <2>2 DEF PostCall
  <1>3. CoreInv'
    BY <1>1, <1>2, PlainCall
  <1>4. \A x \in StepsOf(s) : x.op \notin CeilOps
    BY <1>2 DEF CeilOps
  <1>5. act' \in [Cores -> Acts] /\ waiting' \subseteq Threads /\ senders' \subseteq Threads
    BY <1>1 DEF QxkInv, TypeInv
  <1> QED BY <1>1, <1>2, <1>3, <1>4, <1>5, UnrelatedCall

LEMMA MaxOfTwo ==
    ASSUME NEW a \in Nat, NEW b \in Nat
    PROVE  Max({a, b}) = IF a > b THEN a ELSE b
PROOF
  <1>1. \E x \in {a, b} : \A y \in {a, b} : x >= y
    <2>1. CASE a > b BY <2>1
    <2>2. CASE ~(a > b) BY <2>2
    <2> QED BY <2>1, <2>2
  <1>2. Max({a, b}) \in {a, b} /\ \A y \in {a, b} : Max({a, b}) >= y
    BY <1>1 DEF Max
  <1> QED BY <1>2

\* lock raises the ceiling and says what it was; unlock only lowers it.
LEMMA LockFacts ==
    ASSUME lock_ceiling \in Nat, NEW l \in Nat, lock(l)
    PROVE  /\ lock_ceiling' \in Nat /\ lock_status(l) \in Status
           /\ \/ lock_ceiling' = lock_ceiling
              \/ lock_status(l) = lock_ceiling
PROOF
  <1>1. lock_ceiling' = IF l > lock_ceiling THEN l ELSE lock_ceiling
    BY MaxOfTwo DEF lock
  <1>2. CASE l > lock_ceiling
    BY <1>1, <1>2 DEF lock_status, Status
  <1>3. CASE ~(l > lock_ceiling)
    BY <1>1, <1>3 DEF lock_status, Status
  <1> QED BY <1>2, <1>3

LEMMA UnlockFacts ==
    ASSUME lock_ceiling \in Nat, NEW v \in Status, unlock(v)
    PROVE  /\ lock_ceiling' \in Nat
           /\ v = 0 => lock_ceiling' = 0
           /\ lock_ceiling = 0 => lock_ceiling' = 0
PROOF
  <1>1. lock_ceiling' = IF v # Unlocked /\ lock_ceiling > v THEN v ELSE lock_ceiling
    BY DEF unlock
  <1>2. CASE v = Unlocked
    BY <1>1, <1>2 DEF Unlocked
  <1>3. CASE v \in Nat
    BY <1>1, <1>3 DEF Unlocked
  <1> QED BY <1>2, <1>3 DEF Status

\* A context that raises the ceiling from 0 has to give 0 back; the one that
\* gives 0 back lowers the ceiling to it.
LEMMA LockCallInv ==
    ASSUME QxkInv, UNCHANGED fixed, UNCHANGED sync, NEW c \in Running, LockCall(c)
    PROVE  QxkInv'
PROOF
  <1>1. /\ Quietly /\ act' = act /\ waiting' = waiting /\ senders' = senders
        /\ status' = status /\ owner' = owner
    BY DEF LockCall, unlock_scheduler, lock_scheduler, lock, unlock, Quietly, kernel, local, fixed, sync
  <1>2. /\ lock_ceiling \in Nat /\ held \in [Contexts -> Status] /\ c \in Contexts
        /\ act' \in [Cores -> Acts] /\ waiting' \subseteq Threads /\ senders' \subseteq Threads
        /\ status' \in Status /\ owner' \in Threads \cup {NoOwner}
    BY <1>1, RunningOn DEF QxkInv, TypeInv
  <1>3. ASSUME NEW s, WellFormed(s), Begin(c, s), \A x \in StepsOf(s) : x.op = "has_work" /\ c \in Cores /\ pc[c] = "out",
               held' \in [Contexts -> Status], lock_ceiling' \in Nat, lock_ceiling' = 0 \/ Saved(0)'
        PROVE  QxkInv'
    <2>1. CoreInv'
      BY <1>1, <1>3, PlainCall
    <2>2. Todo(c) = {} /\ Todo(c)' = StepsOf(s) /\ \A d \in Contexts \ {c} : Todo(d)' = Todo(d)
      BY <1>3, RunningOn, BeginCall DEF QxkInv
    <2>3. \A d \in Contexts : \A x : x.op \in Taking => (x \in Todo(d)' <=> x \in Todo(d))
      BY <1>3, <2>2 DEF Taking
    <2>4. CeilInv'
      BY <1>1, <1>3, <2>3 DEF QxkInv, CeilInv
    <2> QED BY <1>1, <1>2, <1>3, <2>1, <2>4, CallsKeep
  <1>4. ASSUME NEW s, WellFormed(s), Begin(c, s), Saved(0), NEW e \in Status,
               \A x \in StepsOf(s) : x.op = "has_work",
               held' = [held EXCEPT ![c] = e], e = 0 \/ held[c] # 0
        PROVE  Saved(0)'
    <2>1. Todo(c) = {} /\ \A d \in Contexts \ {c} : Todo(d)' = Todo(d)
      BY <1>4, RunningOn, BeginCall DEF QxkInv
    <2>2. CASE status = 0
      BY <1>1, <2>2 DEF Saved
    <2>3. CASE \E d \in Contexts : held[d] = 0
      BY <1>2, <1>4, <2>3 DEF Saved
    <2>4. CASE \E d \in Contexts : \E x \in Todo(d) : x.op \in {"store", "ceil_unlock"} /\ x.arg = 0
      BY <2>1, <2>4 DEF Saved
    <2> QED BY <1>4, <2>2, <2>3, <2>4 DEF Saved
  <1>5. ASSUME NEW l \in Ceilings \ {0}, lock_scheduler(c, l) PROVE QxkInv'
    <2>1. Begin(c, <<>>) /\ held[c] = Unlocked /\ held' = [held EXCEPT ![c] = lock_status(l)] /\ lock(l)
      BY <1>5 DEF lock_scheduler
    <2>2. l \in Nat
      BY CeilingAssumption
    <2>3. /\ lock_ceiling' \in Nat /\ lock_status(l) \in Status
          /\ lock_ceiling' = lock_ceiling \/ lock_status(l) = lock_ceiling
      BY <1>2, <2>1, <2>2, LockFacts
    <2>4. held' \in [Contexts -> Status] /\ held'[c] = lock_status(l)
      BY <1>2, <2>1, <2>3
    <2>5. lock_ceiling' = 0 \/ Saved(0)'
      <3>1. CASE lock_ceiling = 0
        BY <1>2, <2>3, <2>4, <3>1 DEF Saved
      <3>2. CASE lock_ceiling # 0
        <4>1. Saved(0) BY <3>2 DEF QxkInv, CeilInv
        <4>2. held[c] # 0 BY <2>1 DEF Unlocked
        <4> QED BY <1>4, <2>1, <2>3, <4>1, <4>2, ShortCalls
      <3> QED BY <3>1, <3>2
    <2> QED BY <1>3, <2>1, <2>3, <2>4, <2>5, ShortCalls
  <1>6. CASE unlock_scheduler(c)
    <2>1. held[c] # Unlocked /\ unlock(held[c]) /\ held' = [held EXCEPT ![c] = Unlocked] /\ held[c] \in Status
      BY <1>2, <1>6 DEF unlock_scheduler
    <2>2. PICK s : /\ s = IF c \in Cores /\ pc[c] = "out" THEN <<Do("has_work", c)>> ELSE <<>>
                   /\ Begin(c, s)
      BY <1>6 DEF unlock_scheduler
    <2>3. WellFormed(s) /\ \A x \in StepsOf(s) : x.op = "has_work" /\ c \in Cores /\ pc[c] = "out"
      <3>1. CASE c \in Cores /\ pc[c] = "out"
        BY <2>2, <3>1, Steps, ShortCalls
      <3>2. CASE ~(c \in Cores /\ pc[c] = "out")
        BY <2>2, <3>2, ShortCalls
      <3> QED BY <3>1, <3>2
    <2>4. /\ lock_ceiling' \in Nat /\ (held[c] = 0 => lock_ceiling' = 0)
          /\ lock_ceiling = 0 => lock_ceiling' = 0
      BY <1>2, <2>1, UnlockFacts
    <2>5. held' \in [Contexts -> Status] /\ Unlocked \in Status
      BY <1>2, <2>1 DEF Status
    <2>6. lock_ceiling' = 0 \/ Saved(0)'
      <3>1. CASE lock_ceiling = 0 \/ held[c] = 0
        BY <2>4, <3>1
      <3>2. CASE lock_ceiling # 0 /\ held[c] # 0
        <4>1. Saved(0) BY <3>2 DEF QxkInv, CeilInv
        <4> QED BY <1>4, <2>1, <2>2, <2>3, <2>5, <3>2, <4>1
      <3> QED BY <3>1, <3>2
    <2> QED BY <1>3, <2>2, <2>3, <2>4, <2>5, <2>6
  <1> QED BY <1>5, <1>6 DEF LockCall

-----------------------------------------------------------------------------
(* The further critical sections of a call. *)

LEMMA CeilRest ==
    ASSUME QxkInv, NEW c \in Contexts, call[c] # <<>>, Head(call[c]).op \notin CeilOps,
           NEW k \in Seq(Step), Len(k) <= 1, \A x \in StepsOf(k) : x.op \in PostOps,
           Rest(c, k), Untouched
    PROVE  CeilInv'
PROOF
  <1>1. \A x \in StepsOf(k) : x.op \notin CeilOps /\ x.op # "unblock"
    BY DEF CeilOps, PostOps
  <1>2. /\ Todo(c) = {Head(call[c])} \cup StepsOf(Tail(call[c]))
        /\ Todo(c)' = StepsOf(k) \cup StepsOf(Tail(call[c]))
        /\ \A d \in Contexts \ {c} : Todo(d)' = Todo(d)
    BY <1>1, RestCall DEF QxkInv
  <1>3. \A d \in Contexts : \A x : x.op \in CeilOps => (x \in Todo(d)' <=> x \in Todo(d))
    BY <1>1, <1>2
  <1> QED BY <1>3, CeilSame DEF QxkInv, Untouched

\* What a further step leaves alone, and the types of what it changes.
Apart ==
    /\ mode' = mode /\ act' = act /\ next' = next /\ active' = active /\ handler' = handler
    /\ smp' = smp /\ quiet' = quiet /\ ceiling' = ceiling
    /\ waiting' = waiting /\ senders' = senders /\ held' = held /\ owner' = owner

LEMMA StepKeeps ==
    ASSUME QxkInv, Apart, CoreInv', CeilInv', pc' \in [Cores -> PCs],
           ao_ready' \subseteq AOs, thread_ready' \subseteq Threads,
           lock_ceiling' \in Nat, status' \in Status
    PROVE  QxkInv'
  BY DEF QxkInv, TypeInv, CoreInv, Apart

LEMMA KernelStepInv ==
    ASSUME QxkInv, UNCHANGED fixed, UNCHANGED sync, NEW c \in Contexts, KernelStep(c)
    PROVE  QxkInv'
PROOF
  <1> DEFINE x == Head(call[c])
  <1>1. /\ Apart /\ Untouched /\ thread_ready' = thread_ready /\ call[c] # <<>>
        /\ x.op \in PostOps \cup {"has_work"}
    BY DEF KernelStep, has_events, post, mark, mark_ao_ready, dispatch_if_work, Goto, Doing, PostOps,
           Apart, Untouched, sched, kernel, local, bound, fixed, sync
  <1>2. call[c] \in Seq(Step) /\ x \in Step /\ (x.op \in PostOps => x.arg \in AOs)
    <2>1. call[c] \in Seq(Step)
      BY DEF QxkInv, TypeInv
    <2>2. x \in Step
      BY <1>1, <2>1
    <2> QED BY <2>1, <2>2, StepFields
  <1>3. PICK k : Rest(c, k) /\ \/ k = <<>>
                               \/ x.op \in PostOps /\ \E o \in PostOps : k = <<Do(o, x.arg)>>
    BY DEF KernelStep, has_events, post, mark, dispatch_if_work, Doing, Arg, PostOps
  <1>4. k \in Seq(Step) /\ Len(k) <= 1 /\ \A y \in StepsOf(k) : y.op \in PostOps
    <2>1. CASE k = <<>>
      BY <2>1, ShortCalls
    <2>2. ASSUME NEW o \in PostOps, x.op \in PostOps, k = <<Do(o, x.arg)>>
          PROVE  k \in Seq(Step) /\ Len(k) <= 1 /\ \A y \in StepsOf(k) : y.op \in PostOps
      <3>1. Do(o, x.arg) \in Step /\ Do(o, x.arg).op = o
        BY <1>2, <2>2, Steps
      <3> QED BY <2>2, <3>1, ShortCalls
    <2> QED BY <1>3, <2>1, <2>2
  <1>5. pc' = pc \/ (x.op = "has_work" /\ pc' = [pc EXCEPT ![c] = "plan"])
    BY DEF KernelStep, has_events, post, mark, dispatch_if_work, Goto, Doing, local
  <1>6. ao_ready' \subseteq AOs
    <2>1. ao_ready \subseteq AOs
      BY DEF QxkInv, TypeInv
    <2>2. CASE mark(c)
      BY <1>2, <2>1, <2>2 DEF mark, mark_ao_ready, Doing, Arg, PostOps
    <2>3. CASE ~mark(c)
      BY <2>1, <2>3 DEF KernelStep, has_events, post, dispatch_if_work, sched
    <2> QED BY <2>2, <2>3
  <1> HIDE DEF x
  <1>7. CoreInv' /\ pc' \in [Cores -> PCs]
    <2>1. x.op \notin {"block", "unblock"}
      BY <1>1 DEF PostOps
    <2>2. \A y \in StepsOf(k) : y.op \notin {"block", "unblock", "has_work"}
      BY <1>4 DEF PostOps
    <2>3. thread_ready' = IF x.op = "block" THEN thread_ready \ {x.arg}
                          ELSE IF x.op = "unblock" THEN thread_ready \cup {x.arg} ELSE thread_ready
      BY <1>1, <2>1
    <2> QED BY <1>1, <1>3, <1>4, <1>5, <2>2, <2>3, FurtherStep DEF Apart, x
  <1>8. CeilInv'
    <2>1. x.op \notin CeilOps
      BY <1>1 DEF CeilOps, PostOps
    <2> QED BY <1>1, <1>3, <1>4, <2>1, CeilRest DEF x
  <1>9. thread_ready' \subseteq Threads /\ lock_ceiling' \in Nat /\ status' \in Status
    BY <1>1 DEF QxkInv, TypeInv, Untouched
  <1> QED BY <1>1, <1>6, <1>7, <1>8, <1>9, StepKeeps

\* The ceiling of the mutex goes up, the mutex takes note, the ceiling goes
\* down: at each step what it was before is kept by somebody.
LEMMA CeilStepInv ==
    ASSUME QxkInv, NEW c \in Contexts, ceiling \in Nat,
           ceil_lock(c) \/ store_status(c) \/ ceil_unlock(c)
    PROVE  CeilInv'
PROOF
  <1> DEFINE x == Head(call[c])
             T == StepsOf(Tail(call[c]))
  <1>1. call[c] # <<>> /\ x.op \in CeilOps /\ owner' = owner /\ held' = held
    BY DEF ceil_lock, store_status, ceil_unlock, Doing, CeilOps, bound, sync
  <1>2. call[c] \in Seq(Step) /\ x \in Step /\ lock_ceiling \in Nat
        /\ (x.op \in {"store", "ceil_unlock"} => x.arg \in Status)
    <2>1. call[c] \in Seq(Step) /\ lock_ceiling \in Nat
      BY DEF QxkInv, TypeInv
    <2>2. x \in Step
      BY <1>1, <2>1
    <2> QED BY <2>1, <2>2, StepFields
  <1>3. ASSUME NEW k \in Seq(Step), Len(k) <= 1, \A y \in StepsOf(k) : y.op = "store", Rest(c, k)
        PROVE  /\ Todo(c) = {x} \cup T /\ Todo(c)' = StepsOf(k) \cup T
               /\ \A y \in T : y.op \notin FirstOps
               /\ \A d \in Contexts \ {c} : Todo(d)' = Todo(d)
    <2>1. \A y \in StepsOf(k) : y.op # "unblock"
      BY <1>3
    <2> QED BY <1>1, <1>3, <2>1, RestCall DEF QxkInv
  <1> HIDE DEF x, T
  <1>4. CASE ceil_lock(c)
    <2>1. /\ x.op = "ceil_lock" /\ lock(ceiling) /\ status' = status
          /\ Rest(c, <<Do("store", lock_status(ceiling))>>)
      BY <1>4 DEF ceil_lock, Doing, sync, x
    <2>2. /\ lock_ceiling' \in Nat /\ lock_status(ceiling) \in Status
          /\ lock_ceiling' = lock_ceiling \/ lock_status(ceiling) = lock_ceiling
      BY <1>2, <2>1, LockFacts
    <2>3. PICK y : y = Do("store", lock_status(ceiling)) /\ y \in Step /\ y.op = "store"
                   /\ y.arg = lock_status(ceiling)
      BY <2>2, Steps
    <2>4. <<y>> \in Seq(Step) /\ Len(<<y>>) <= 1 /\ StepsOf(<<y>>) = {y}
      BY <2>3, ShortCalls
    <2>5. /\ Todo(c) = {x} \cup T /\ Todo(c)' = {y} \cup T
          /\ \A z \in T : z.op \notin FirstOps
          /\ \A d \in Contexts \ {c} : Todo(d)' = Todo(d)
      BY <1>3, <2>1, <2>3, <2>4
    <2>6. owner # NoOwner /\ status = Unlocked
          /\ \A d \in Contexts \ {c} : \A z \in Todo(d) : z.op \notin Taking
      BY <2>1, <2>5 DEF QxkInv, CeilInv, Taking
    <2>7. lock_ceiling' = 0 \/ Saved(0)'
      <3>1. CASE lock_ceiling = 0
        BY <2>2, <2>3, <2>5, <3>1 DEF Saved
      <3>2. CASE lock_ceiling # 0
        <4>1. Saved(0) BY <3>2 DEF QxkInv, CeilInv
        <4>2. status # 0 BY <2>6 DEF Unlocked
        <4>3. CASE \E d \in Contexts : held[d] = 0
          BY <1>1, <4>3 DEF Saved
        <4>4. CASE \E d \in Contexts : \E z \in Todo(d) : z.op \in {"store", "ceil_unlock"} /\ z.arg = 0
          BY <2>1, <2>5, <4>4 DEF Saved
        <4> QED BY <4>1, <4>2, <4>3, <4>4 DEF Saved
      <3> QED BY <3>1, <3>2
    <2>8. \A d \in Contexts : \A z \in Todo(d)' : z.op \in Taking => d = c
      BY <2>6, <2>5
    <2> QED BY <1>1, <2>1, <2>6, <2>7, <2>8 DEF CeilInv
  <1>5. CASE store_status(c)
    <2>1. /\ x.op = "store" /\ status' = x.arg /\ lock_ceiling' = lock_ceiling /\ Rest(c, <<>>)
      BY <1>5 DEF store_status, Doing, Arg, sched, x
    <2>2. /\ Todo(c) = {x} \cup T /\ Todo(c)' = T
          /\ \A z \in T : z.op \notin FirstOps
          /\ \A d \in Contexts \ {c} : Todo(d)' = Todo(d)
      <3>1. <<>> \in Seq(Step) /\ Len(<<>>) <= 1 /\ StepsOf(<<>>) = {}
        BY ShortCalls
      <3> QED BY <1>3, <2>1, <3>1
    <2>3. owner # NoOwner /\ status = Unlocked
          /\ \A d \in Contexts \ {c} : \A z \in Todo(d) : z.op \notin Taking
      BY <2>1, <2>2 DEF QxkInv, CeilInv, Taking
    <2>4. ASSUME Saved(0) PROVE Saved(0)'
      <3>1. status # 0 BY <2>3 DEF Unlocked
      <3>2. CASE \E d \in Contexts : held[d] = 0
        BY <1>1, <3>2 DEF Saved
      <3>3. CASE \E d \in Contexts : \E z \in Todo(d) : z.op \in {"store", "ceil_unlock"} /\ z.arg = 0
        BY <2>1, <2>2, <3>3 DEF Saved
      <3> QED BY <2>4, <3>1, <3>2, <3>3 DEF Saved
    <2>5. \A d \in Contexts : \A z \in Todo(d)' : z.op \notin Taking
      BY <2>2, <2>3 DEF FirstOps
    <2> QED BY <1>1, <2>1, <2>3, <2>4, <2>5 DEF QxkInv, CeilInv
  <1>6. CASE ceil_unlock(c)
    <2>1. /\ x.op = "ceil_unlock" /\ status' = status /\ Rest(c, <<>>) /\ unlock(x.arg)
      BY <1>6 DEF ceil_unlock, Doing, Arg, sync, x
    <2>2. /\ Todo(c) = {x} \cup T /\ Todo(c)' = T
          /\ \A d \in Contexts \ {c} : Todo(d)' = Todo(d)
      <3>1. <<>> \in Seq(Step) /\ Len(<<>>) <= 1 /\ StepsOf(<<>>) = {}
        BY ShortCalls
      <3> QED BY <1>3, <2>1, <3>1
    <2>3. /\ lock_ceiling' \in Nat /\ (x.arg = 0 => lock_ceiling' = 0)
          /\ lock_ceiling = 0 => lock_ceiling' = 0
      BY <1>2, <2>1, UnlockFacts
    <2>4. lock_ceiling' = 0 \/ Saved(0)'
      <3>1. CASE lock_ceiling = 0 \/ x.arg = 0
        BY <2>3, <3>1
      <3>2. CASE lock_ceiling # 0 /\ x.arg # 0
        <4>1. Saved(0) BY <3>2 DEF QxkInv, CeilInv
        <4> QED BY <1>1, <2>1, <2>2, <3>2, <4>1 DEF Saved
      <3> QED BY <3>1, <3>2
    <2>5. \A d \in Contexts : Todo(d)' \subseteq Todo(d)
      BY <2>2
    <2> QED BY <1>1, <2>1, <2>4, <2>5 DEF QxkInv, CeilInv
  <1> QED BY <1>4, <1>5, <1>6

LEMMA SyncStepInv ==
    ASSUME QxkInv, UNCHANGED fixed, NEW c \in Contexts, SyncStep(c)
    PROVE  QxkInv'
PROOF
  <1> DEFINE x == Head(call[c])
  <1>1. /\ Apart /\ pc' = pc /\ ao_ready' = ao_ready /\ call[c] # <<>>
        /\ x.op \in CeilOps \cup {"block", "unblock"}
    BY DEF SyncStep, ceil_lock, store_status, ceil_unlock, block, unblock, lock, unlock, block_thread,
           unblock_thread, mark_thread_ready, mark_thread_not_ready, Doing, CeilOps,
           Apart, sched, kernel, local, bound, fixed, sync
  <1>2. call[c] \in Seq(Step) /\ x \in Step /\ (x.op \in {"block", "unblock"} => x.arg \in Threads)
        /\ (x.op \in {"store", "ceil_unlock"} => x.arg \in Status)
    <2>1. call[c] \in Seq(Step)
      BY DEF QxkInv, TypeInv
    <2>2. x \in Step
      BY <1>1, <2>1
    <2> QED BY <2>1, <2>2, StepFields
  <1>3. ceiling \in Nat /\ lock_ceiling \in Nat /\ status \in Status
        /\ ao_ready' \subseteq AOs /\ thread_ready \subseteq Threads
    BY <1>1 DEF QxkInv, TypeInv
  <1>4. thread_ready' = IF x.op = "block" THEN thread_ready \ {x.arg}
                        ELSE IF x.op = "unblock" THEN thread_ready \cup {x.arg} ELSE thread_ready
    BY DEF SyncStep, ceil_lock, store_status, ceil_unlock, block, unblock, lock, unlock, block_thread,
           unblock_thread, mark_thread_ready, mark_thread_not_ready, Doing, Arg, sched
  <1>5. PICK k : /\ Rest(c, k)
                 /\ k = <<>> \/ (lock(ceiling) /\ k = <<Do("store", lock_status(ceiling))>>)
    BY DEF SyncStep, ceil_lock, store_status, ceil_unlock, block, unblock
  <1>6. k \in Seq(Step) /\ Len(k) <= 1 /\ \A y \in StepsOf(k) : y.op = "store"
    <2>1. CASE k = <<>>
      BY <2>1, ShortCalls
    <2>2. CASE lock(ceiling) /\ k = <<Do("store", lock_status(ceiling))>>
      <3>1. lock_status(ceiling) \in Status
        BY <1>3, <2>2, LockFacts
      <3>2. PICK y : y = Do("store", lock_status(ceiling)) /\ y \in Step /\ y.op = "store"
        BY <3>1, Steps
      <3> QED BY <2>2, <3>2, ShortCalls
    <2> QED BY <1>5, <2>1, <2>2
  <1>7. lock_ceiling' \in Nat /\ status' \in Status
    <2>1. CASE ceil_lock(c)
      BY <1>3, <2>1, LockFacts DEF ceil_lock, sync
    <2>2. CASE store_status(c)
      BY <1>2, <1>3, <2>2 DEF store_status, Doing, Arg, sched
    <2>3. CASE ceil_unlock(c)
      <3>1. unlock(x.arg) /\ x.arg \in Status /\ status' = status
        BY <1>2, <2>3 DEF ceil_unlock, Doing, Arg, sync
      <3> QED BY <1>3, <3>1, UnlockFacts
    <2>4. CASE block(c) \/ unblock(c)
      BY <1>3, <2>4 DEF block, unblock, block_thread, unblock_thread, mark_thread_ready,
                        mark_thread_not_ready, sync
    <2> QED BY <2>1, <2>2, <2>3, <2>4 DEF SyncStep
  <1> HIDE DEF x
  <1>8. CoreInv' /\ pc' \in [Cores -> PCs]
    <2>1. \A y \in StepsOf(k) : y.op \notin {"block", "unblock", "has_work"}
      BY <1>6
    <2> QED BY <1>1, <1>4, <1>5, <1>6, <2>1, FurtherStep DEF Apart, x
  <1>9. CeilInv'
    <2>1. CASE block(c) \/ unblock(c)
      <3>1. Untouched /\ Rest(c, <<>>) /\ x.op \notin CeilOps
        BY <2>1 DEF block, unblock, block_thread, unblock_thread, mark_thread_ready, Doing, CeilOps,
                    mark_thread_not_ready, Untouched, bound, sync, x
      <3>2. <<>> \in Seq(Step) /\ Len(<<>>) <= 1 /\ StepsOf(<<>>) = {}
        BY ShortCalls
      <3> QED BY <1>1, <3>1, <3>2, CeilRest DEF x
    <2>2. CASE ceil_lock(c) \/ store_status(c) \/ ceil_unlock(c)
      BY <1>3, <2>2, CeilStepInv
    <2> QED BY <2>1, <2>2 DEF SyncStep
  <1>10. thread_ready' \subseteq Threads
    BY <1>2, <1>3, <1>4
  <1> QED BY <1>1, <1>3, <1>7, <1>8, <1>9, <1>10, StepKeeps

-----------------------------------------------------------------------------
(* The invariant holds, and what follows from it. *)

LEMMA QxkInvInit ==
    ASSUME InitSync PROVE QxkInv
PROOF
  <1> USE DEF InitSync, InitKernel, InitScheduler
  <1>1. \A c \in Contexts : call[c] = <<>> /\ Todo(c) = {}
    BY ShortCalls DEF Todo
  <1>2. TypeInv
    <2>1. ceiling \in Nat
      BY CeilingAssumption
    <2>2. call \in [Contexts -> Seq(Step)]
      BY ShortCalls DEF WellFormed
    <2>3. held \in [Contexts -> Status] /\ status \in Status /\ lock_ceiling \in Nat
      BY DEF Status
    <2>4. pc \in [Cores -> PCs] /\ act \in [Cores -> Acts] /\ mode \in [Cores -> Modes]
          /\ active \in [Cores -> Modes] /\ next \in [Cores -> Modes]
      BY DEF PCs, Acts, Modes
    <2> QED BY <2>1, <2>2, <2>3, <2>4 DEF TypeInv
  <1>3. CallInv
    BY <1>1, ShortCalls DEF CallInv, WellFormed
  <1>4. ClaimInv
    BY <1>1, Callers DEF ClaimInv, Claimed, Claims, Guarded, AtWork
  <1>5. WakeInv
    BY <1>1 DEF WakeInv, FreshAt, Pends, W
  <1>6. CeilInv
    BY <1>1 DEF CeilInv
  <1>7. TurnInv
    BY <1>1 DEF TurnInv, Settled, Pends
  <1> QED BY <1>2, <1>3, <1>4, <1>5, <1>6, <1>7 DEF QxkInv

LEMMA QxkInvNext ==
    ASSUME QxkInv, [NextSync]_vars PROVE QxkInv'
PROOF
  <1>1. CASE UNCHANGED vars
    BY <1>1 DEF vars, sched, kernel, local, bound, sync, fixed, QxkInv, TypeInv, CallInv, ClaimInv, Claimed,
                Claims, Guarded, Off, WakeInv, W, FreshAt, Unbound, Pends, Todo, CeilInv, Saved, TurnInv,
                InTurn, Settled
  <1>2. CASE NextSync
    <2>1. UNCHANGED fixed
      BY <1>2 DEF NextSync
    <2>2. ASSUME NEW c \in Used, Dispatch(c), UNCHANGED sync PROVE QxkInv'
      BY <2>1, <2>2, DispatchInv
    <2>3. ASSUME NEW c \in Running, PostCall(c), UNCHANGED sync PROVE QxkInv'
      BY <2>1, <2>3, PostCallInv
    <2>4. ASSUME NEW c \in Running, LockCall(c), UNCHANGED sync PROVE QxkInv'
      BY <2>1, <2>4, LockCallInv
    <2>5. ASSUME NEW c \in Contexts, KernelStep(c), UNCHANGED sync PROVE QxkInv'
      BY <2>1, <2>5, KernelStepInv
    <2>6. ASSUME NEW c \in Running, SyncCall(c) PROVE QxkInv'
      BY <2>1, <2>6, SyncCallInv
    <2>7. ASSUME NEW c \in Contexts, SyncStep(c) PROVE QxkInv'
      BY <2>1, <2>7, SyncStepInv
    <2> QED BY <1>2, <2>2, <2>3, <2>4, <2>5, <2>6, <2>7 DEF NextSync
  <1> QED BY <1>1, <1>2

(* The claims, waiters, ceilings and turns of QxkInv survive every critical *)
(* section of the kernel and of the primitives, in any interleaving.        *)
THEOREM QxkInvHolds == SpecSync => []QxkInv
PROOF
  <1>1. InitSync => QxkInv BY QxkInvInit
  <1>2. QxkInv /\ [NextSync]_vars => QxkInv' BY QxkInvNext
  <1> QED BY <1>1, <1>2, PTL DEF SpecSync

(* plan_next claims what it chooses under the scheduler's lock, and the     *)
(* claim lasts until complete_execution: however many cores there are, no   *)
(* two of them ever run the same active object or thread.                   *)
THEOREM CoresNeverShare == SpecSync => []OneCoreAtATime
PROOF
  <1>1. QxkInv => OneCoreAtATime
    <2> SUFFICES ASSUME QxkInv, NEW c \in Cores, NEW d \in Cores, c # d,
                        pc[c] = "user", pc[d] = "user", mode[c] = mode[d]
                 PROVE  FALSE
      BY DEF OneCoreAtATime
    <2>1. Claims(c) /\ Claims(d) /\ mode[c] \in AOs \cup Threads
      BY DEF Claims, AtWork, QxkInv, ClaimInv, Claimed
    <2> QED BY <2>1, QxkConstants DEF QxkInv, ClaimInv
  <1> QED BY <1>1, QxkInvHolds, PTL

(* lock returns the ceiling it raised and unlock only lowers: once every    *)
(* context, the mutex and every call in flight have given back what they    *)
(* took, in whatever order, the scheduler's ceiling is 0 again.             *)
THEOREM CeilingComesDown == SpecSync => []CeilingReleased
PROOF
  <1>1. QxkInv => CeilingReleased
    <2> SUFFICES ASSUME QxkInv, \A c \in Contexts : held[c] = Unlocked, status = Unlocked,
                        ~InFlight("ceil_unlock"), ~InFlight("store"), Saved(0)
                 PROVE  FALSE
      BY DEF CeilingReleased, QxkInv, CeilInv
    <2>1. Unlocked # 0
      BY DEF Unlocked
    <2>2. PICK c \in Contexts : \E x \in Todo(c) : x.op \in {"store", "ceil_unlock"}
      BY <2>1 DEF Saved
    <2> QED BY <2>2 DEF Todo, StepsOf, InFlight
  <1> QED BY <1>1, QxkInvHolds, PTL

(* A thread in a wait list of a primitive whose own block_thread is done is *)
(* not in the ready queue: nothing but its waker schedules it again.        *)
THEOREM WaitersStayBlocked == SpecSync => []NoSpuriousWakeup
PROOF
  <1>1. QxkInv => NoSpuriousWakeup
    <2> SUFFICES ASSUME QxkInv, NEW t \in waiting \cup senders
                 PROVE  Pending("block", t) \/ t \notin thread_ready
      BY DEF NoSpuriousWakeup
    <2>1. t \in Threads /\ t \in W
      BY DEF QxkInv, TypeInv, W
    <2> QED BY <2>1, PendingIsPends DEF QxkInv, WakeInv
  <1> QED BY <1>1, QxkInvHolds, PTL

(* On one core with nothing else that calls the primitives, a live thread   *)
(* is ready, in a wait list, or about to be unblocked by a call under way:  *)
(* push_waiter and block_thread outside the lock lose no thread there.      *)
THEOREM NoThreadForgotten == SpecSync => []NoLostWakeupInTurn
PROOF
  <1>1. QxkInv => NoLostWakeupInTurn
    <2> SUFFICES ASSUME QxkInv, InTurn, NEW t \in Threads PROVE Accounted(t)
      BY DEF NoLostWakeupInTurn, InTurn
    <2>1. Settled(t)
      BY DEF QxkInv, TurnInv
    <2> QED BY <2>1, PendingIsPends DEF Settled, Accounted, W
  <1> QED BY <1>1, QxkInvHolds, PTL
=============================================================================
