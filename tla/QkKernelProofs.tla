--------------------------- MODULE QkKernelProofs ---------------------------
(***************************************************************************)
(* Proofs about QkKernel, for any set of active objects, thresholds,       *)
(* cores, posting threads and ceilings.                                    *)
(***************************************************************************)
EXTENDS QkKernel, SequenceTheorems, TLAPS

USE DEF Contexts, ghosts

-----------------------------------------------------------------------------
(* What the helpers on the stacks return *)

(* A sequence without its last element. *)
LEMMA FrontOfSeq ==
    ASSUME NEW S, NEW s \in Seq(S), Len(s) > 0
    PROVE  /\ SubSeq(s, 1, Len(s) - 1) \in Seq(S)
           /\ Len(SubSeq(s, 1, Len(s) - 1)) = Len(s) - 1
           /\ \A i \in 1..Len(s) - 1 : SubSeq(s, 1, Len(s) - 1)[i] = s[i]
  <1> DEFINE n == Len(s) - 1
             front == SubSeq(s, 1, n)
  <1>1. n \in Nat /\ \A i \in 1..n : s[i] \in S
    OBVIOUS
  <1>2. /\ front \in Seq(S)
        /\ Len(front) = IF 1 <= n THEN n - 1 + 1 ELSE 0
        /\ \A i \in 1..(n - 1 + 1) : front[i] = s[1 + i - 1]
    BY <1>1, SubSeqProperties
  <1> HIDE DEF front, n
  <1>3. Len(front) = n /\ \A i \in 1..n : front[i] = s[i]
    BY <1>1, <1>2
  <1> QED
    BY <1>2, <1>3 DEF front, n

(* Appending a frame on one core keeps every other frame in its place. *)
LEMMA PushStack ==
    ASSUME NEW c \in Cores, NEW f \in Frame,
           stack \in [Cores -> Seq(Frame)], stack' = Push(c, f)
    PROVE  /\ stack' \in [Cores -> Seq(Frame)]
           /\ Len(stack'[c]) = Len(stack[c]) + 1
           /\ \A i \in 1..Len(stack[c]) : stack'[c][i] = stack[c][i]
           /\ stack'[c][Len(stack'[c])] = f
           /\ \A d \in Cores : d # c => stack'[d] = stack[d]
  <1>1. stack[c] \in Seq(Frame)
    OBVIOUS
  <1>2. Append(stack[c], f) \in Seq(Frame)
    BY <1>1
  <1>3. stack'[c] = Append(stack[c], f) /\ \A d \in Cores : d # c => stack'[d] = stack[d]
    BY DEF Push
  <1>4. stack' \in [Cores -> Seq(Frame)]
    BY <1>2 DEF Push
  <1> QED
    BY <1>1, <1>3, <1>4

(* Dropping the last frame keeps the others. *)
LEMMA PopStack ==
    ASSUME NEW c \in Cores, stack \in [Cores -> Seq(Frame)],
           Len(stack[c]) > 0, stack' = Pop(c)
    PROVE  /\ stack' \in [Cores -> Seq(Frame)]
           /\ Len(stack'[c]) = Len(stack[c]) - 1
           /\ \A i \in 1..Len(stack[c]) - 1 : stack'[c][i] = stack[c][i]
           /\ \A d \in Cores : d # c => stack'[d] = stack[d]
  <1>1. stack[c] \in Seq(Frame)
    OBVIOUS
  <1>2. /\ SubSeq(stack[c], 1, Len(stack[c]) - 1) \in Seq(Frame)
        /\ Len(SubSeq(stack[c], 1, Len(stack[c]) - 1)) = Len(stack[c]) - 1
        /\ \A i \in 1..Len(stack[c]) - 1 :
             SubSeq(stack[c], 1, Len(stack[c]) - 1)[i] = stack[c][i]
    BY <1>1, FrontOfSeq
  <1>3. /\ stack'[c] = SubSeq(stack[c], 1, Len(stack[c]) - 1)
        /\ \A d \in Cores : d # c => stack'[d] = stack[d]
    BY DEF Pop
  <1>4. stack' \in [Cores -> Seq(Frame)]
    BY <1>2 DEF Pop
  <1> QED
    BY <1>2, <1>3, <1>4

(* Replacing the last frame keeps the others. *)
LEMMA SetTopStack ==
    ASSUME NEW c \in Cores, NEW f \in Frame, stack \in [Cores -> Seq(Frame)],
           Len(stack[c]) > 0, stack' = SetTop(c, f)
    PROVE  /\ stack' \in [Cores -> Seq(Frame)]
           /\ Len(stack'[c]) = Len(stack[c])
           /\ \A i \in 1..Len(stack[c]) - 1 : stack'[c][i] = stack[c][i]
           /\ stack'[c][Len(stack[c])] = f
           /\ \A d \in Cores : d # c => stack'[d] = stack[d]
  <1>1. stack[c] \in Seq(Frame) /\ Len(stack[c]) \in 1..Len(stack[c])
    OBVIOUS
  <1>2. [stack[c] EXCEPT ![Len(stack[c])] = f] \in Seq(Frame)
    BY <1>1
  <1>3. /\ stack'[c] = [stack[c] EXCEPT ![Len(stack[c])] = f]
        /\ \A d \in Cores : d # c => stack'[d] = stack[d]
    BY DEF SetTop
  <1>4. stack' \in [Cores -> Seq(Frame)]
    BY <1>2 DEF SetTop
  <1> QED
    BY <1>1, <1>3, <1>4

-----------------------------------------------------------------------------
(* The inductive invariant *)

UserPCs == {"user", "run", "post", "push", "mark", "replan"}

(* Frame 1 is the main loop; each frame above it saved the object below it  *)
(* and runs an object above every threshold below it.                       *)
GoodStack(s) ==
    /\ Len(s) >= 1
    /\ s[1].prio = 0
    /\ \A i \in 2..Len(s) : /\ s[i].prio \in Prios
                            /\ s[i].restore_prio = s[i-1].prio
                            /\ s[i].restore_threshold = threshold_for(s[i-1].prio)
    /\ \A i, j \in 1..Len(s) : i < j => s[j].prio > threshold_for(s[i].prio)

StackInv == \A c \in Cores : GoodStack(stack[c])

(* Between two critical sections the scheduler's view of a core is that of  *)
(* its top frame; a planned object is announced in next_prio.               *)
CoreInv ==
    \A c \in Cores :
        /\ pc[c] \notin UserPCs => Len(stack[c]) > 1
        /\ pc[c] # "commit" => /\ active_prio[c] = Top(c).prio
                               /\ active_threshold[c] = threshold_for(Top(c).prio)
        /\ pc[c] = "commit" => next_prio[c] = Top(c).prio
        /\ pc[c] \in {"push", "mark"} => posting[c].target \in Prios

(* executing_cores knows of every object in execution. *)
ExecInv ==
    SMP => \A c \in Cores : \A i \in Executing(c) :
                executing_cores[stack[c][i].prio] = c

(* A planned object is neither in execution on another core nor planned     *)
(* there.                                                                   *)
PlanInv ==
    SMP => \A c, d \in Cores :
        c # d /\ pc[d] = "commit" =>
            /\ \A i \in Executing(c) : stack[c][i].prio # Top(d).prio
            /\ pc[c] = "commit" => Top(c).prio # Top(d).prio

(* A post by another thread or an interrupt is to a registered object. *)
PosterInv ==
    \A x \in Posters : pc[x] \in {"push", "mark"} => posting[x].target \in Prios

KInv == TypeOK /\ StackInv /\ CoreInv /\ ExecInv /\ PlanInv
IInv == KInv /\ PosterInv

-----------------------------------------------------------------------------
(* Types *)

(* Thresholds are in range and not below the priority. *)
LEMMA ThresholdFor ==
    ASSUME NEW p \in Prios \cup {0}
    PROVE  threshold_for(p) \in 0..63 /\ threshold_for(p) >= p /\ p \in 0..63
  BY RegistrationsAssumption DEF ValidRegistrations, threshold_for

(* The top frame is a frame. *)
LEMMA TopFrame ==
    ASSUME TypeOK, StackInv, NEW c \in Cores
    PROVE  /\ stack \in [Cores -> Seq(Frame)]
           /\ Len(stack[c]) \in Nat /\ Len(stack[c]) >= 1 /\ Len(stack[c]) > 0
           /\ Top(c) \in Frame
           /\ Top(c).prio \in Prios \cup {0}
           /\ Top(c).restore_prio \in Prios \cup {0}
           /\ Top(c).restore_threshold \in 0..63
           /\ Top(c).then \in {"user", "run"}
           /\ Top(c).held \in Seq(Status)
  <1>1. stack[c] \in Seq(Frame) /\ Len(stack[c]) >= 1
    BY DEF TypeOK, StackInv, GoodStack
  <1>2. Top(c) \in Frame
    BY <1>1 DEF Top
  <1>3. stack \in [Cores -> Seq(Frame)] /\ Len(stack[c]) \in Nat
    BY <1>1 DEF TypeOK
  <1> QED
    BY <1>1, <1>2, <1>3 DEF Frame

(* A prefix of a good stack is good. *)
LEMMA GoodPrefix ==
    ASSUME NEW s \in Seq(Frame), GoodStack(s), NEW t \in Seq(Frame),
           Len(t) >= 1, Len(t) <= Len(s), \A i \in 1..Len(t) : t[i] = s[i]
    PROVE  GoodStack(t)
  <1>1. Len(s) \in Nat /\ Len(t) \in Nat
    OBVIOUS
  <1>2. \A i \in 2..Len(t) : i \in 2..Len(s) /\ t[i] = s[i] /\ t[i-1] = s[i-1]
    BY <1>1
  <1>3. \A i \in 1..Len(t) : i \in 1..Len(s) /\ t[i] = s[i]
    BY <1>1
  <1>4. t[1] = s[1]
    BY <1>1
  <1> QED BY <1>2, <1>3, <1>4 DEF GoodStack

(* So is one with the same objects and saved values, whatever the locks. *)
LEMMA GoodSame ==
    ASSUME NEW s \in Seq(Frame), GoodStack(s), NEW t \in Seq(Frame), Len(t) = Len(s),
           \A i \in 1..Len(s) : /\ t[i].prio = s[i].prio
                                /\ t[i].restore_prio = s[i].restore_prio
                                /\ t[i].restore_threshold = s[i].restore_threshold
    PROVE  GoodStack(t)
  <1>1. Len(s) \in Nat /\ Len(s) >= 1
    BY DEF GoodStack
  <1>2. \A i \in 2..Len(s) : i \in 1..Len(s) /\ i - 1 \in 1..Len(s)
    BY <1>1
  <1>3. t[1].prio = s[1].prio
    BY <1>1
  <1> QED BY <1>1, <1>2, <1>3 DEF GoodStack

(* No object is twice on a good stack. *)
LEMMA DistinctPrios ==
    ASSUME NEW s \in Seq(Frame), GoodStack(s),
           NEW a \in 1..Len(s), NEW b \in 1..Len(s), a < b
    PROVE  s[a].prio # s[b].prio
  <1>1. s[a] \in Frame /\ s[b] \in Frame
    OBVIOUS
  <1>2. s[a].prio \in Prios \cup {0} /\ s[b].prio \in Prios \cup {0}
    BY <1>1 DEF Frame
  <1> DEFINE t == threshold_for(s[a].prio)
             x == s[a].prio
             y == s[b].prio
  <1>3. y > t
    BY DEF GoodStack
  <1>4. x \in 0..63 /\ t \in 0..63 /\ t >= x
    BY <1>2, ThresholdFor
  <1>5. y \in 0..63
    BY <1>2, ThresholdFor
  <1> HIDE DEF t, x, y
  <1>6. x # y
    BY <1>3, <1>4, <1>5
  <1> QED BY <1>6 DEF x, y

(* One more frame, above the threshold of the top one, keeps a stack good. *)
LEMMA GoodExtend ==
    ASSUME NEW s \in Seq(Frame), GoodStack(s), NEW t \in Seq(Frame), NEW n \in Nat,
           n = Len(s), Len(t) = n + 1, \A i \in 1..n : t[i] = s[i],
           t[n + 1].prio \in Prios,
           t[n + 1].prio > threshold_for(s[n].prio),
           t[n + 1].restore_prio = s[n].prio,
           t[n + 1].restore_threshold = threshold_for(s[n].prio)
    PROVE  GoodStack(t)
  <1>1. n >= 1 /\ t[1] = s[1] /\ t[n] = s[n] /\ n + 1 - 1 = n
    BY DEF GoodStack
  <1>2. ASSUME NEW i \in 2..n + 1
        PROVE  /\ t[i].prio \in Prios
               /\ t[i].restore_prio = t[i-1].prio
               /\ t[i].restore_threshold = threshold_for(t[i-1].prio)
    <2>1. CASE i = n + 1
      BY <1>1, <2>1
    <2>2. CASE i # n + 1
      <3>1. i \in 2..n /\ t[i] = s[i] /\ t[i-1] = s[i-1]
        BY <2>2
      <3> QED BY <3>1 DEF GoodStack
    <2> QED BY <2>1, <2>2
  <1>3. ASSUME NEW i \in 1..n PROVE t[n + 1].prio > threshold_for(s[i].prio)
    <2>1. s[n] \in Frame /\ s[i] \in Frame
      BY <1>1
    <2>2. s[n].prio \in Prios \cup {0} /\ s[i].prio \in Prios \cup {0}
      BY <2>1 DEF Frame
    <2>3. /\ threshold_for(s[n].prio) \in 0..63
          /\ threshold_for(s[n].prio) >= s[n].prio
          /\ threshold_for(s[i].prio) \in 0..63
          /\ s[n].prio \in 0..63
      BY <2>2, ThresholdFor
    <2>4. t[n + 1].prio \in 0..63
      BY ThresholdFor
    <2>5. i # n => s[n].prio > threshold_for(s[i].prio)
      BY <1>1 DEF GoodStack
    <2>6. CASE i = n
      BY <2>6
    <2>7. CASE i # n
      <3> DEFINE a == threshold_for(s[n].prio)
                 b == threshold_for(s[i].prio)
                 x == s[n].prio
                 y == t[n + 1].prio
      <3>1. a \in 0..63 /\ b \in 0..63 /\ x \in 0..63 /\ y \in 0..63
        BY <2>3, <2>4, Zenon
      <3>2. y > a /\ a >= x /\ x > b
        BY <2>3, <2>5, <2>7, Zenon
      <3> HIDE DEF a, b, x, y
      <3>3. y > b
        BY <3>1, <3>2
      <3> QED BY <3>3 DEF b, y
    <2> QED BY <2>6, <2>7
  <1>4. ASSUME NEW i \in 1..n + 1, NEW j \in 1..n + 1, i < j
        PROVE  t[j].prio > threshold_for(t[i].prio)
    <2>1. i \in 1..n /\ t[i] = s[i]
      BY <1>4
    <2>2. CASE j = n + 1
      BY <1>3, <2>1, <2>2
    <2>3. CASE j # n + 1
      <3>1. j \in 1..n /\ t[j] = s[j]
        BY <2>3
      <3> QED BY <1>4, <2>1, <3>1 DEF GoodStack
    <2> QED BY <2>2, <2>3
  <1> QED BY <1>1, <1>2, <1>4 DEF GoodStack

(* Updating one field of a frame. *)
LEMMA SetHeld ==
    ASSUME NEW f \in Frame, NEW h \in Seq(Status)
    PROVE  /\ [f EXCEPT !.held = h] \in Frame
           /\ [f EXCEPT !.held = h].held = h
           /\ [f EXCEPT !.held = h].prio = f.prio
           /\ [f EXCEPT !.held = h].restore_prio = f.restore_prio
           /\ [f EXCEPT !.held = h].restore_threshold = f.restore_threshold
  BY DEF Frame

LEMMA SetPrio ==
    ASSUME NEW f \in Frame, NEW p \in Prios
    PROVE  /\ [f EXCEPT !.prio = p] \in Frame
           /\ [f EXCEPT !.prio = p].prio = p
           /\ [f EXCEPT !.prio = p].held = f.held
           /\ [f EXCEPT !.prio = p].restore_prio = f.restore_prio
           /\ [f EXCEPT !.prio = p].restore_threshold = f.restore_threshold
  BY DEF Frame

(* Updating a post in progress. *)
LEMMA SetTarget ==
    ASSUME NEW o \in PostOp, NEW p \in Prios, NEW b \in BOOLEAN
    PROVE  [o EXCEPT !.target = p, !.was_empty = b] \in PostOp
  BY DEF PostOp

LEMMA SetTodo ==
    ASSUME NEW o \in PostOp, NEW p
    PROVE  [o EXCEPT !.todo = o.todo \ {p}] \in PostOp
  BY DEF PostOp

(* The count of calls stays within its bound. *)
LEMMA OpsCounted ==
    ASSUME TypeOK, CountOp
    PROVE  ops' \in 0..MaxOps
  <1>1. ops \in 0..MaxOps
    BY DEF TypeOK
  <1> QED
    BY <1>1, BoundsAssumption DEF CountOp

(* Posts keep the types, whoever makes them. *)
LEMMA PostTypes ==
    ASSUME IInv, NEW x \in Contexts,
           \/ PostStep(x)
           \/ \E S \in SUBSET Prios \ {{}}, then \in {"user", "run"} : publish(x, S, then)
    PROVE  TypeOK'
  <1>0. TypeOK /\ StackInv /\ CoreInv /\ PosterInv
    BY DEF IInv, KInv
  <1> USE <1>0
  <1>1. ASSUME NEW S \in SUBSET Prios \ {{}}, NEW then \in {"user", "run"},
               publish(x, S, then)
        PROVE  TypeOK'
    <2>1. [NoPost EXCEPT !.todo = S, !.then = then] \in PostOp
      BY DEF NoPost, PostOp
    <2>2. ops' \in 0..MaxOps
      BY <1>1, OpsCounted DEF publish
    <2> QED
      BY <1>1, <2>1, <2>2 DEF publish, TypeOK, GoTo, PCs, sched
  <1>2. CASE post_has_events(x)
    <2>1. PICK p \in Prios :
            posting' = [posting EXCEPT ![x].target = p, ![x].was_empty = (queue[p] = 0)]
      BY <1>2 DEF post_has_events
    <2>2. posting' \in [Contexts -> PostOp]
      <3> DEFINE b == (queue[p] = 0)
      <3>1. b \in BOOLEAN /\ posting \in [Contexts -> PostOp] /\ posting[x] \in PostOp
        BY DEF TypeOK
      <3>2. posting' = [posting EXCEPT ![x] = [posting[x] EXCEPT !.target = p, !.was_empty = b]]
        BY <2>1
      <3> HIDE DEF b
      <3>3. [posting[x] EXCEPT !.target = p, !.was_empty = b] \in PostOp
        BY <3>1, SetTarget
      <3> QED BY <3>1, <3>2, <3>3
    <2> QED
      BY <1>2, <2>2 DEF post_has_events, RacedBy, TypeOK, GoTo, PCs, sched
  <1>3. CASE post_push(x)
    <2>1. posting[x] \in PostOp /\ posting[x].then \in {"user", "run"}
      BY DEF TypeOK, PostOp
    <2>2. posting' \in [Contexts -> PostOp]
      <3>1. posting \in [Contexts -> PostOp]
        BY DEF TypeOK
      <3>2. [posting[x] EXCEPT !.todo = posting[x].todo \ {posting[x].target}] \in PostOp
        BY <2>1, SetTodo
      <3>3. posting' = posting \/ posting' = [posting EXCEPT ![x] =
              [posting[x] EXCEPT !.todo = posting[x].todo \ {posting[x].target}]]
        BY <1>3 DEF post_push
      <3> QED BY <3>1, <3>2, <3>3
    <2>3. pc' \in [Contexts -> PCs]
      BY <1>3, <2>1 DEF post_push, AfterRecipient, GoTo, TypeOK, PCs
    <2>4. queue' \in [Prios -> Nat]
      BY <1>3 DEF post_push, TypeOK, CoreInv, PosterInv
    <2> QED
      BY <1>3, <2>2, <2>3, <2>4 DEF post_push, TypeOK, sched
  <1>4. CASE post_mark_ready(x)
    <2>1. posting[x] \in PostOp /\ posting[x].then \in {"user", "run"}
      BY DEF TypeOK, PostOp
    <2>2. posting' \in [Contexts -> PostOp]
      <3>1. posting \in [Contexts -> PostOp]
        BY DEF TypeOK
      <3>2. [posting[x] EXCEPT !.todo = posting[x].todo \ {posting[x].target}] \in PostOp
        BY <2>1, SetTodo
      <3>3. posting' = posting \/ posting' = [posting EXCEPT ![x] =
              [posting[x] EXCEPT !.todo = posting[x].todo \ {posting[x].target}]]
        BY <1>4 DEF post_mark_ready
      <3> QED BY <3>1, <3>2, <3>3
    <2>3. pc' \in [Contexts -> PCs]
      BY <1>4, <2>1 DEF post_mark_ready, AfterRecipient, GoTo, TypeOK, PCs
    <2>4. ready' \in SUBSET Prios
      BY <1>4 DEF post_mark_ready, TypeOK, CoreInv, PosterInv
    <2> QED
      BY <1>4, <2>2, <2>3, <2>4 DEF post_mark_ready, TypeOK
  <1> QED
    BY <1>1, <1>2, <1>3, <1>4 DEF PostStep

(* Every step preserves the types. *)
LEMMA TypeStep ==
    ASSUME IInv, Next
    PROVE  TypeOK'
  <1>0. TypeOK /\ StackInv /\ CoreInv
    BY DEF IInv, KInv
  <1>1. CASE start
    BY <1>0, <1>1 DEF start, TypeOK
  <1>2. ASSUME NEW c \in Cores, UserStep(c) \/ KernelStep(c) PROVE TypeOK'
    <2> USE <1>0
    <2>0. /\ stack \in [Cores -> Seq(Frame)]
          /\ Len(stack[c]) \in Nat /\ Len(stack[c]) >= 1 /\ Len(stack[c]) > 0
          /\ Top(c) \in Frame
          /\ Top(c).prio \in Prios \cup {0}
          /\ Top(c).restore_prio \in Prios \cup {0}
          /\ Top(c).restore_threshold \in 0..63
          /\ Top(c).then \in {"user", "run"}
          /\ Top(c).held \in Seq(Status)
      BY TopFrame
    <2>1. ASSUME NEW S \in SUBSET Prios \ {{}}, NEW then \in {"user", "run"},
                 publish(c, S, then)
          PROVE  TypeOK'
      BY <2>1, PostTypes
    <2>2. ASSUME NEW ceiling \in Ceilings, lock_scheduler(c, ceiling) PROVE TypeOK'
      <3> DEFINE prev == IF ceiling > lock_ceiling THEN lock_ceiling ELSE -1
                 st   == [prev |-> prev, ceiling |-> ceiling]
                 h    == Append(Top(c).held, st)
                 f    == [Top(c) EXCEPT !.held = h]
      <3>1. ceiling \in 1..63 /\ lock_ceiling \in 0..63
        BY BoundsAssumption DEF TypeOK
      <3>2. st \in Status
        BY <3>1 DEF Status
      <3>3. h \in Seq(Status)
        BY <2>0, <3>2
      <3>4. stack' = SetTop(c, f)
        BY <2>2 DEF lock_scheduler
      <3>5. stack' \in [Cores -> Seq(Frame)]
        <4>1. f \in Frame
          <5> HIDE DEF h
          <5> QED BY <2>0, <3>3, SetHeld
        <4> HIDE DEF f
        <4> QED BY <2>0, <3>4, <4>1, SetTopStack
      <3>6. lock_ceiling' \in 0..63
        BY <2>2, <3>1 DEF lock_scheduler
      <3>7. ops' \in 0..MaxOps
        BY <2>2, OpsCounted DEF lock_scheduler
      <3>8. UNCHANGED <<ready, active_prio, active_threshold, next_prio, executing_cores,
                        queue, pc, posting, started, ghosts>>
        BY <2>2 DEF lock_scheduler
      <3> QED
        BY <3>5, <3>6, <3>7, <3>8 DEF TypeOK
    <2>3. CASE unlock_scheduler(c)
      <3> DEFINE held == Top(c).held
                 h    == SubSeq(held, 1, Len(held) - 1)
                 f    == [Top(c) EXCEPT !.held = h]
                 prev == held[Len(held)].prev
      <3>1. held \in Seq(Status) /\ Len(held) > 0
        BY <2>0, <2>3 DEF unlock_scheduler
      <3>2. prev \in -1..63
        <4>1. held[Len(held)] \in Status
          BY <3>1
        <4> QED BY <4>1 DEF Status
      <3>3. h \in Seq(Status)
        BY <3>1, FrontOfSeq
      <3>5. /\ stack' = SetTop(c, f)
            /\ pc' = [pc EXCEPT ![c] = IF prev >= 0 THEN "replan" ELSE "user"]
            /\ lock_ceiling' = IF prev >= 0 /\ lock_ceiling > prev THEN prev ELSE lock_ceiling
            /\ UNCHANGED <<ready, active_prio, active_threshold, next_prio, executing_cores,
                          queue, posting, started, ops, ghosts>>
        BY <2>3 DEF unlock_scheduler, UnlockTo, GoTo
      <3> HIDE DEF prev
      <3>6. lock_ceiling' \in 0..63
        BY <3>2, <3>5 DEF TypeOK
      <3>7. stack' \in [Cores -> Seq(Frame)]
        <4>1. f \in Frame
          <5> HIDE DEF h
          <5> QED BY <2>0, <3>3, SetHeld
        <4> HIDE DEF f
        <4> QED BY <2>0, <3>5, <4>1, SetTopStack
      <3>8. pc' \in [Contexts -> PCs]
        BY <3>5 DEF TypeOK, PCs
      <3> QED
        BY <3>5, <3>6, <3>7, <3>8 DEF TypeOK
    <2>4. CASE run_until_idle(c)
      <3>1. ops' \in 0..MaxOps
        BY <2>4, OpsCounted DEF run_until_idle, TypeOK
      <3> QED BY <2>4, <3>1 DEF run_until_idle, TypeOK, GoTo, PCs, sched
    <2>5. CASE handler_return(c)
      BY <2>5 DEF handler_return, TypeOK, GoTo, PCs, sched
    <2>6. CASE PostStep(c)
      BY <2>6, PostTypes
    <2>9. ASSUME NEW then \in {"user", "run"}, plan_activation(c, then), UNCHANGED PlanFrame,
                 ops' \in 0..MaxOps
          PROVE  TypeOK'
      <3>1. CASE next_prio' = [next_prio EXCEPT ![c] = 0] /\ GoTo(c, "user") /\ UNCHANGED stack
        BY <2>9, <3>1 DEF PlanFrame, TypeOK, GoTo, PCs
      <3>2. ASSUME NEW p \in Prios,
                   next_prio' = [next_prio EXCEPT ![c] = p],
                   stack' = Push(c, [prio |-> p, restore_prio |-> active_prio[c],
                             restore_threshold |-> threshold_for(active_prio[c]),
                             then |-> then, held |-> <<>>]),
                   GoTo(c, "commit")
            PROVE  TypeOK'
        <4> DEFINE f == [prio |-> p, restore_prio |-> active_prio[c],
                         restore_threshold |-> threshold_for(active_prio[c]),
                         then |-> then, held |-> <<>>]
        <4>1. active_prio[c] \in Prios \cup {0}
          BY DEF TypeOK
        <4>2. f \in Frame
          BY <4>1, ThresholdFor DEF Frame
        <4>3. stack' \in [Cores -> Seq(Frame)]
          <5> HIDE DEF f
          <5> QED BY <3>2, <4>2, PushStack DEF TypeOK, f
        <4> QED
          BY <2>9, <3>2, <4>3 DEF PlanFrame, TypeOK, GoTo, PCs
      <3> QED
        BY <2>9, <3>1, <3>2 DEF plan_activation
    <2>10. CASE dispatch_loop(c)
      BY <2>9, <2>10 DEF dispatch_loop, TypeOK
    <2>11. CASE dispatch_once(c)
      BY <2>9, <2>11, OpsCounted DEF dispatch_once
    <2>12. CASE unlock_replan(c)
      BY <2>9, <2>12 DEF unlock_replan, TypeOK
    <2>13. CASE commit_activation(c)
      <3>1. Top(c).prio \in Prios \cup {0} /\ threshold_for(Top(c).prio) \in 0..63
        BY <2>0, ThresholdFor
      <3> QED
        BY <2>13, <3>1 DEF commit_activation, Commit, TypeOK, GoTo, PCs
    <2>14. CASE dispatch_one(c)
      <3>1. Top(c).prio \in Prios
        BY <2>14 DEF dispatch_one, CoreInv, StackInv, GoodStack, UserPCs, Top
      <3> QED
        <4>0. queue[Top(c).prio] \in Nat
          BY <3>1 DEF TypeOK
        <4>1. queue' \in [Prios -> Nat]
          <5>1. queue \in [Prios -> Nat]
            BY DEF TypeOK
          <5>2. \/ queue' = queue
                \/ /\ queue[Top(c).prio] > 0
                   /\ queue' = [queue EXCEPT ![Top(c).prio] = queue[Top(c).prio] - 1]
            BY <2>14 DEF dispatch_one
          <5>3. queue[Top(c).prio] > 0 => queue[Top(c).prio] - 1 \in Nat
            BY <4>0
          <5> QED BY <3>1, <5>1, <5>2, <5>3
        <4>3. no_event' \in SUBSET Prios /\ raced' \in SUBSET Prios
          BY <2>14, <3>1 DEF dispatch_one, RacedBy, TypeOK
        <4>2. pc' \in [Contexts -> PCs]
          BY <2>14 DEF dispatch_one, TypeOK, GoTo, PCs
        <4> QED BY <2>14, <4>1, <4>2, <4>3 DEF dispatch_one, TypeOK, sched
    <2>15. CASE activate_has_events(c)
      <3>1. Top(c).prio \in Prios
        BY <2>15 DEF activate_has_events, AfterHandler, CoreInv, StackInv, GoodStack, UserPCs, Top
      <3> QED
        BY <2>15, <3>1 DEF activate_has_events, AfterHandler, RacedBy, TypeOK, GoTo, PCs, sched
    <2>16. CASE mark_not_ready(c)
      BY <2>16 DEF mark_not_ready, ClearReady, TypeOK, GoTo, PCs
    <2>17. CASE complete_execution(c)
      BY <2>17 DEF complete_execution, TypeOK, GoTo, PCs
    <2>18. CASE next_after_dispatch(c)
      <3>0. UNCHANGED <<PlanFrame, ops>>
        BY <2>18 DEF next_after_dispatch
      <3>1. CASE next_prio' = [next_prio EXCEPT ![c] = 0] /\ GoTo(c, "restore") /\ UNCHANGED stack
        BY <3>0, <3>1 DEF PlanFrame, TypeOK, GoTo, PCs
      <3>2. ASSUME NEW p \in Prios,
                   next_prio' = [next_prio EXCEPT ![c] = p],
                   stack' = SetTop(c, [Top(c) EXCEPT !.prio = p]),
                   GoTo(c, "commit")
            PROVE  TypeOK'
        <4> DEFINE f == [Top(c) EXCEPT !.prio = p]
        <4>1. f \in Frame
          BY <2>0, SetPrio
        <4>2. stack' = SetTop(c, f)
          BY <3>2
        <4>3. stack' \in [Cores -> Seq(Frame)]
          <5> HIDE DEF f
          <5> QED BY <2>0, <4>1, <4>2, SetTopStack
        <4> QED
          BY <3>0, <3>2, <4>3 DEF PlanFrame, TypeOK, GoTo, PCs
      <3> QED
        BY <2>18, <3>1, <3>2 DEF next_after_dispatch
    <2>19. CASE restore_active(c)
      <3>1. stack' \in [Cores -> Seq(Frame)]
        <4>1. stack' = Pop(c)
          BY <2>19 DEF restore_active, Restore
        <4> QED BY <2>0, <4>1, PopStack
      <3> QED
        BY <2>0, <2>19, <3>1 DEF restore_active, Restore, TypeOK, GoTo, PCs
    <2> QED
      BY <1>2, <2>1, <2>2, <2>3, <2>4, <2>5, <2>6, <2>10, <2>11, <2>12, <2>13,
         <2>14, <2>15, <2>16, <2>17, <2>18, <2>19 DEF UserStep, KernelStep
  <1>3. ASSUME NEW x \in Posters, PosterStep(x) PROVE TypeOK'
    BY <1>3, PostTypes DEF PosterStep
  <1> QED
    BY <1>1, <1>2, <1>3 DEF Next

-----------------------------------------------------------------------------
(* The steps of a core *)

(* The stacks of the next state, core by core. *)
LEMMA StackInvPrime ==
    ASSUME \A d \in Cores : GoodStack(stack'[d])
    PROVE  StackInv'
  <1> SUFFICES ASSUME NEW d \in Cores PROVE GoodStack(stack[d])'
    BY DEF StackInv
  <1>1. GoodStack(stack'[d])
    OBVIOUS
  <1> QED
    BY <1>1 DEF GoodStack, threshold_for

(* Cores that do not move keep their top frame and what they execute. *)
LEMMA OtherCores ==
    ASSUME NEW d \in Cores, stack'[d] = stack[d], pc'[d] = pc[d]
    PROVE  Executing(d)' = Executing(d) /\ Top(d)' = Top(d)
  BY DEF Executing, Top

(* Steps that neither begin nor end an activation. *)
LEMMA QuietStep ==
    ASSUME IInv, TypeOK', NEW c \in Cores,
           \A d \in Cores : Len(stack'[d]) = Len(stack[d]),
           \A d \in Cores : \A i \in 1..Len(stack[d]) :
                /\ stack'[d][i].prio = stack[d][i].prio
                /\ stack'[d][i].restore_prio = stack[d][i].restore_prio
                /\ stack'[d][i].restore_threshold = stack[d][i].restore_threshold,
           UNCHANGED <<active_prio, active_threshold, executing_cores>>,
           \A d \in Cores : d # c => /\ pc'[d] = pc[d]
                                    /\ next_prio'[d] = next_prio[d]
                                    /\ posting'[d] = posting[d],
           pc[c] \notin {"commit", "next", "restore"},
           pc'[c] \notin {"commit", "next", "restore"},
           pc'[c] \in {"push", "mark"} => posting'[c].target \in Prios,
           pc'[c] \notin UserPCs => Len(stack[c]) > 1
    PROVE  KInv'
  <1>0. \A d \in Cores : Len(stack[d]) \in Nat /\ Len(stack[d]) >= 1
    BY DEF IInv, KInv, TypeOK, StackInv, GoodStack
  <1>1. \A d \in Cores : Executing(d)' = Executing(d)
    BY <1>0 DEF Executing
  <1>2. \A d \in Cores : Top(d)'.prio = Top(d).prio
    BY <1>0 DEF Top
  <1>3. \A d \in Cores : Executing(d) \subseteq 1..Len(stack[d])
    BY <1>0 DEF Executing
  <1>4. StackInv'
    <2>1. ASSUME NEW d \in Cores PROVE GoodStack(stack'[d])
      <3>1. GoodStack(stack[d]) /\ stack[d] \in Seq(Frame) /\ stack'[d] \in Seq(Frame)
        BY DEF IInv, KInv, StackInv, TypeOK
      <3> QED BY <3>1, GoodSame
    <2> QED BY <2>1, StackInvPrime
  <1>6. CoreInv'
    BY <1>0, <1>2 DEF IInv, KInv, CoreInv, UserPCs, threshold_for
  <1>7. ExecInv'
    BY <1>1, <1>3 DEF IInv, KInv, ExecInv
  <1>8. PlanInv'
    BY <1>1, <1>2, <1>3 DEF IInv, KInv, PlanInv
  <1> QED
    BY <1>4, <1>6, <1>7, <1>8 DEF IInv, KInv

(* What a core may pick is neither planned nor in execution on another core. *)
LEMMA Picked ==
    ASSUME IInv, NEW c \in Cores, NEW t, NEW p \in Prios, IsHighest(p, Eligible(c, t))
    PROVE  /\ p \in ready /\ p > t /\ p > lock_ceiling
           /\ SMP => \A d \in Cores : d # c =>
                /\ \A i \in Executing(d) : stack[d][i].prio # p
                /\ pc[d] = "commit" => Top(d).prio # p
  <1>1. p \in ready /\ p > t /\ p > lock_ceiling /\ ~already_running(c, p)
    BY DEF IsHighest, Eligible
  <1>2. ASSUME SMP, NEW d \in Cores, d # c
        PROVE  /\ \A i \in Executing(d) : stack[d][i].prio # p
               /\ pc[d] = "commit" => Top(d).prio # p
    <2>1. next_prio[d] # p /\ executing_cores[p] = NoCore
      BY <1>1, <1>2 DEF already_running
    <2>2. \A i \in Executing(d) : stack[d][i].prio # p
      BY <1>2, <2>1, CoresAssumption DEF IInv, KInv, ExecInv
    <2>3. pc[d] = "commit" => Top(d).prio # p
      BY <2>1 DEF IInv, KInv, CoreInv
    <2> QED BY <2>2, <2>3
  <1> QED BY <1>1, <1>2

(* plan_activation enters activate(). *)
LEMMA PlanStep ==
    ASSUME IInv, TypeOK', NEW c \in Cores, NEW p \in Prios, NEW f \in Frame,
           pc[c] \in UserPCs,
           IsHighest(p, Eligible(c, active_threshold[c])),
           f.prio = p, f.restore_prio = active_prio[c],
           f.restore_threshold = threshold_for(active_prio[c]),
           stack' = Push(c, f),
           pc' = [pc EXCEPT ![c] = "commit"],
           next_prio' = [next_prio EXCEPT ![c] = p],
           UNCHANGED <<active_prio, active_threshold, executing_cores, posting>>
    PROVE  KInv'
  <1> DEFINE n == Len(stack[c])
  <1>0. /\ stack \in [Cores -> Seq(Frame)]
        /\ \A d \in Cores : Len(stack[d]) \in Nat /\ Len(stack[d]) >= 1
        /\ n \in Nat /\ n >= 1
        /\ pc \in [Contexts -> PCs] /\ next_prio \in [Cores -> Prios \cup {0}]
    BY DEF IInv, KInv, TypeOK, StackInv, GoodStack
  <1>1. /\ Len(stack'[c]) = n + 1
        /\ \A i \in 1..n : stack'[c][i] = stack[c][i]
        /\ stack'[c][n + 1] = f
        /\ \A d \in Cores : d # c => stack'[d] = stack[d]
    BY <1>0, PushStack
  <1>2. /\ pc'[c] = "commit" /\ next_prio'[c] = p
        /\ \A d \in Cores : d # c => pc'[d] = pc[d] /\ next_prio'[d] = next_prio[d]
    BY <1>0
  <1>3. \A d \in Cores : d # c => Executing(d)' = Executing(d) /\ Top(d)' = Top(d)
    BY <1>1, <1>2, OtherCores
  <1>4. Executing(c)' = 2..n /\ Executing(c) = 2..n
    BY <1>0, <1>1, <1>2 DEF Executing, UserPCs
  <1>5. Top(c)' = f /\ Top(c) = stack[c][n]
    BY <1>0, <1>1 DEF Top
  <1>6. /\ active_prio[c] = stack[c][n].prio
        /\ active_threshold[c] = threshold_for(stack[c][n].prio)
    BY <1>5 DEF IInv, KInv, CoreInv, UserPCs
  <1>7. p > active_threshold[c]
    BY Picked
  <1> HIDE DEF n
  <1>8. StackInv'
    <2>1. GoodStack(stack'[c])
      <3>1. GoodStack(stack[c]) /\ stack[c] \in Seq(Frame) /\ stack'[c] \in Seq(Frame)
        BY DEF IInv, KInv, StackInv, TypeOK
      <3>2. /\ n = Len(stack[c]) /\ n \in Nat /\ Len(stack'[c]) = n + 1
            /\ \A i \in 1..n : stack'[c][i] = stack[c][i]
        BY <1>0, <1>1 DEF n
      <3>3. /\ stack'[c][n + 1].prio \in Prios
            /\ stack'[c][n + 1].prio > threshold_for(stack[c][n].prio)
            /\ stack'[c][n + 1].restore_prio = stack[c][n].prio
            /\ stack'[c][n + 1].restore_threshold = threshold_for(stack[c][n].prio)
        BY <1>1, <1>6, <1>7
      <3> QED BY <3>1, <3>2, <3>3, GoodExtend
    <2>2. \A d \in Cores : d # c => GoodStack(stack'[d])
      BY <1>1 DEF IInv, KInv, StackInv
    <2> QED BY <2>1, <2>2, StackInvPrime
  <1>10. CoreInv'
    <2>1. \A d \in Cores : d # c =>
            /\ pc'[d] \notin UserPCs => Len(stack'[d]) > 1
            /\ pc'[d] # "commit" => /\ active_prio'[d] = Top(d)'.prio
                                    /\ active_threshold'[d] = threshold_for(Top(d)'.prio)
            /\ pc'[d] = "commit" => next_prio'[d] = Top(d)'.prio
            /\ pc'[d] \in {"push", "mark"} => posting'[d].target \in Prios
      BY <1>1, <1>2, <1>3 DEF IInv, KInv, CoreInv
    <2>2. pc'[c] = "commit" /\ next_prio'[c] = Top(c)'.prio /\ Len(stack'[c]) > 1
      BY <1>0, <1>1, <1>2, <1>5
    <2> QED BY <2>1, <2>2 DEF CoreInv, UserPCs, threshold_for
  <1>11. ExecInv'
    <2> SUFFICES ASSUME SMP, NEW d \in Cores, NEW i \in Executing(d)'
                 PROVE  executing_cores'[stack'[d][i].prio] = d
      BY DEF ExecInv
    <2>1. i \in Executing(d) /\ stack'[d][i] = stack[d][i]
      BY <1>0, <1>1, <1>3, <1>4
    <2> QED BY <2>1 DEF IInv, KInv, ExecInv
  <1>12. PlanInv'
    <2> SUFFICES ASSUME SMP, NEW e \in Cores, NEW d \in Cores, e # d, pc'[d] = "commit"
                 PROVE  /\ \A i \in Executing(e)' : stack'[e][i].prio # Top(d)'.prio
                        /\ pc'[e] = "commit" => Top(e)'.prio # Top(d)'.prio
      BY DEF PlanInv
    <2>1. CASE d = c
      BY <1>1, <1>2, <1>3, <1>5, <2>1, Picked
    <2>2. CASE d # c
      <3>1. CASE e = c
        <4>1. pc[d] = "commit" /\ Top(d)' = Top(d)
          BY <1>2, <1>3, <2>2
        <4>2. \A i \in 2..n : stack'[c][i] = stack[c][i]
          BY <1>0, <1>1
        <4>3. \A i \in 2..n : stack[c][i].prio # Top(d).prio
          BY <1>4, <2>2, <4>1 DEF IInv, KInv, PlanInv
        <4>4. Top(d).prio # p
          BY <2>2, <4>1, Picked
        <4> QED BY <1>4, <1>5, <3>1, <4>1, <4>2, <4>3, <4>4
      <3>2. CASE e # c
        BY <1>1, <1>2, <1>3, <2>2, <3>2 DEF IInv, KInv, PlanInv
      <3> QED BY <3>1, <3>2
    <2> QED BY <2>1, <2>2
  <1> QED
    BY <1>8, <1>10, <1>11, <1>12 DEF IInv, KInv

(* Inside activate() the top frame is not the main loop. *)
LEMMA Activated ==
    ASSUME IInv, NEW c \in Cores, pc[c] \notin UserPCs
    PROVE  /\ \A d \in Cores : Len(stack[d]) \in Nat
           /\ Len(stack[c]) > 1
           /\ Top(c) = stack[c][Len(stack[c])]
           /\ Top(c).prio \in Prios
           /\ Top(c).restore_prio = stack[c][Len(stack[c]) - 1].prio
           /\ Top(c).restore_threshold = threshold_for(stack[c][Len(stack[c]) - 1].prio)
  <1>1. \A d \in Cores : stack[d] \in Seq(Frame) /\ Len(stack[d]) \in Nat
    BY DEF IInv, KInv, TypeOK
  <1>2. Len(stack[c]) > 1
    BY DEF IInv, KInv, CoreInv
  <1>3. Len(stack[c]) \in 2..Len(stack[c]) /\ GoodStack(stack[c])
    BY <1>1, <1>2 DEF IInv, KInv, StackInv
  <1> QED BY <1>1, <1>2, <1>3 DEF GoodStack, Top

(* commit_activation: the planned object is now in execution. *)
LEMMA CommitStep ==
    ASSUME IInv, TypeOK', NEW c \in Cores, commit_activation(c)
    PROVE  KInv'
  <1> DEFINE n == Len(stack[c])
             p == Top(c).prio
  <1>0. /\ \A d \in Cores : Len(stack[d]) \in Nat
        /\ n \in Nat /\ n > 1 /\ p \in Prios /\ p = stack[c][n].prio
        /\ pc \in [Contexts -> PCs] /\ next_prio \in [Cores -> Prios \cup {0}]
        /\ active_prio \in [Cores -> Prios \cup {0}] /\ active_threshold \in [Cores -> 0..63]
        /\ executing_cores \in [Prios -> Cores \cup {NoCore}]
    <2>1. pc[c] \notin UserPCs
      BY DEF commit_activation, Commit, UserPCs
    <2> QED BY <2>1, Activated DEF IInv, KInv, TypeOK
  <1>1. /\ pc[c] = "commit"
        /\ active_prio' = [active_prio EXCEPT ![c] = p]
        /\ active_threshold' = [active_threshold EXCEPT ![c] = threshold_for(p)]
        /\ next_prio' = [next_prio EXCEPT ![c] = 0]
        /\ executing_cores' = IF SMP THEN [executing_cores EXCEPT ![p] = c] ELSE executing_cores
        /\ pc' = [pc EXCEPT ![c] = "pop"]
        /\ stack' = stack /\ posting' = posting
    BY DEF commit_activation, Commit, GoTo
  <1>2. /\ pc'[c] = "pop" /\ active_prio'[c] = p /\ active_threshold'[c] = threshold_for(p)
        /\ \A d \in Cores : d # c => /\ pc'[d] = pc[d] /\ next_prio'[d] = next_prio[d]
                                     /\ active_prio'[d] = active_prio[d]
                                     /\ active_threshold'[d] = active_threshold[d]
        /\ SMP => /\ executing_cores'[p] = c
                  /\ \A q \in Prios : q # p => executing_cores'[q] = executing_cores[q]
    BY <1>0, <1>1
  <1>3. /\ \A d \in Cores : Top(d)' = Top(d)
        /\ \A d \in Cores : d # c => Executing(d)' = Executing(d)
    BY <1>1, <1>2 DEF Top, Executing
  <1>4. Executing(c)' = 2..n /\ Executing(c) = 2..n - 1
    BY <1>0, <1>1, <1>2 DEF Executing
  <1>5. \A d \in Cores : \A i \in Executing(d) : stack[d][i].prio \in Prios
    BY <1>0 DEF Executing, IInv, KInv, StackInv, GoodStack
  <1>6. SMP => \A d \in Cores : d # c =>
            /\ \A i \in Executing(d) : stack[d][i].prio # p
            /\ pc[d] = "commit" => Top(d).prio # p
    BY <1>1 DEF IInv, KInv, PlanInv
  <1>7. StackInv'
    BY <1>1 DEF IInv, KInv, StackInv, GoodStack, threshold_for
  <1>8. CoreInv'
    <2>1. \A d \in Cores : d # c =>
            /\ pc'[d] \notin UserPCs => Len(stack'[d]) > 1
            /\ pc'[d] # "commit" => /\ active_prio'[d] = Top(d)'.prio
                                    /\ active_threshold'[d] = threshold_for(Top(d)'.prio)
            /\ pc'[d] = "commit" => next_prio'[d] = Top(d)'.prio
            /\ pc'[d] \in {"push", "mark"} => posting'[d].target \in Prios
      BY <1>1, <1>2, <1>3 DEF IInv, KInv, CoreInv
    <2>2. /\ pc'[c] = "pop" /\ active_prio'[c] = Top(c)'.prio /\ Len(stack'[c]) > 1
          /\ active_threshold'[c] = threshold_for(Top(c)'.prio)
      BY <1>0, <1>1, <1>2, <1>3
    <2> QED BY <2>1, <2>2 DEF CoreInv, UserPCs, threshold_for
  <1> HIDE DEF n, p
  <1>9. ExecInv'
    <2> SUFFICES ASSUME SMP, NEW d \in Cores, NEW i \in Executing(d)'
                 PROVE  executing_cores'[stack'[d][i].prio] = d
      BY DEF ExecInv
    <2>1. CASE d # c
      BY <1>1, <1>2, <1>3, <1>5, <1>6, <2>1 DEF IInv, KInv, ExecInv
    <2>2. CASE d = c /\ i = n
      BY <1>0, <1>1, <1>2, <2>2
    <2>3. CASE d = c /\ i # n
      <3>1. i \in Executing(c)
        BY <1>0, <1>4, <2>3
      <3> QED BY <1>1, <1>2, <1>5, <2>3, <3>1 DEF IInv, KInv, ExecInv
    <2> QED BY <2>1, <2>2, <2>3
  <1>10. PlanInv'
    <2> SUFFICES ASSUME SMP, NEW e \in Cores, NEW d \in Cores, e # d, pc'[d] = "commit"
                 PROVE  /\ \A i \in Executing(e)' : stack'[e][i].prio # Top(d)'.prio
                        /\ pc'[e] = "commit" => Top(e)'.prio # Top(d)'.prio
      BY DEF PlanInv
    <2>1. d # c /\ pc[d] = "commit"
      BY <1>2
    <2>2. CASE e = c
      <3>1. \A i \in 2..n : i \in Executing(c) \/ i = n
        BY <1>0, <1>4
      <3>2. \A i \in Executing(c) : stack[c][i].prio # Top(d).prio
        BY <2>1 DEF IInv, KInv, PlanInv
      <3> QED BY <1>0, <1>1, <1>2, <1>3, <1>4, <1>6, <2>1, <2>2, <3>1, <3>2
    <2>3. CASE e # c
      BY <1>1, <1>2, <1>3, <2>1, <2>3 DEF IInv, KInv, PlanInv
    <2> QED BY <2>2, <2>3
  <1> QED
    BY <1>7, <1>8, <1>9, <1>10 DEF IInv, KInv

(* complete_execution: the object on top is no longer in execution. *)
LEMMA CompleteStep ==
    ASSUME IInv, TypeOK', NEW c \in Cores, complete_execution(c)
    PROVE  KInv'
  <1> DEFINE n == Len(stack[c])
             p == Top(c).prio
  <1>0. /\ \A d \in Cores : Len(stack[d]) \in Nat
        /\ n \in Nat /\ n > 1 /\ p \in Prios /\ p = stack[c][n].prio
        /\ pc \in [Contexts -> PCs]
        /\ executing_cores \in [Prios -> Cores \cup {NoCore}]
    <2>1. pc[c] \notin UserPCs
      BY DEF complete_execution, UserPCs
    <2> QED BY <2>1, Activated DEF IInv, KInv, TypeOK
  <1>1. /\ pc[c] = "complete"
        /\ executing_cores' = IF SMP THEN [executing_cores EXCEPT ![p] = NoCore]
                                     ELSE executing_cores
        /\ pc' = [pc EXCEPT ![c] = "next"]
        /\ UNCHANGED <<stack, active_prio, active_threshold, next_prio, posting>>
    BY DEF complete_execution, GoTo
  <1>2. /\ pc'[c] = "next"
        /\ \A d \in Cores : d # c => pc'[d] = pc[d]
        /\ SMP => \A q \in Prios : q # p => executing_cores'[q] = executing_cores[q]
    BY <1>0, <1>1
  <1>3. /\ \A d \in Cores : Top(d)' = Top(d)
        /\ \A d \in Cores : d # c => Executing(d)' = Executing(d)
    BY <1>1, <1>2 DEF Top, Executing
  <1>4. Executing(c)' = 2..n - 1 /\ Executing(c) = 2..n
    BY <1>0, <1>1, <1>2 DEF Executing
  <1>5. \A d \in Cores : \A i \in Executing(d) : stack[d][i].prio \in Prios
    BY <1>0 DEF Executing, IInv, KInv, StackInv, GoodStack
  <1>6. StackInv'
    BY <1>1 DEF IInv, KInv, StackInv, GoodStack, threshold_for
  <1>7. CoreInv'
    BY <1>0, <1>1, <1>2, <1>3 DEF IInv, KInv, CoreInv, UserPCs, threshold_for
  <1> HIDE DEF n, p
  <1>8. ExecInv'
    <2> SUFFICES ASSUME SMP, NEW d \in Cores, NEW i \in Executing(d)'
                 PROVE  executing_cores'[stack'[d][i].prio] = d
      BY DEF ExecInv
    <2>1. i \in Executing(d) /\ stack'[d][i] = stack[d][i]
      BY <1>0, <1>1, <1>3, <1>4
    <2>2. executing_cores[stack[d][i].prio] = d
      BY <2>1 DEF IInv, KInv, ExecInv
    <2>3. stack[d][i].prio # p
      <3>1. CASE d # c
        <4>1. n \in Executing(c)
          BY <1>0, <1>4
        <4>2. executing_cores[p] = c
          BY <1>0, <4>1 DEF IInv, KInv, ExecInv
        <4> QED BY <2>2, <3>1, <4>2
      <3>2. CASE d = c
        <4>1. i \in 1..n /\ n \in 1..n /\ i < n
          BY <1>0, <1>4, <3>2
        <4>2. p > threshold_for(stack[c][i].prio)
          BY <1>0, <4>1 DEF IInv, KInv, StackInv, GoodStack, n
        <4>3. stack[c][i].prio \in Prios
          BY <1>5, <2>1, <3>2
        <4>4. /\ threshold_for(stack[c][i].prio) \in 0..63
              /\ threshold_for(stack[c][i].prio) >= stack[c][i].prio
              /\ stack[c][i].prio \in 0..63 /\ p \in 0..63
          BY <1>0, <4>3, ThresholdFor
        <4> DEFINE a == threshold_for(stack[c][i].prio)
                   x == stack[c][i].prio
        <4>5. a \in 0..63 /\ x \in 0..63 /\ p \in 0..63 /\ p > a /\ a >= x
          BY <4>2, <4>4, Zenon
        <4> HIDE DEF a, x
        <4>6. x # p
          BY <4>5
        <4> QED BY <3>2, <4>6 DEF x
      <3> QED BY <3>1, <3>2
    <2> QED BY <1>2, <1>5, <2>1, <2>2, <2>3
  <1>9. PlanInv'
    <2> SUFFICES ASSUME SMP, NEW e \in Cores, NEW d \in Cores, e # d, pc'[d] = "commit"
                 PROVE  /\ \A i \in Executing(e)' : stack'[e][i].prio # Top(d)'.prio
                        /\ pc'[e] = "commit" => Top(e)'.prio # Top(d)'.prio
      BY DEF PlanInv
    <2>1. pc[d] = "commit" /\ Top(d)' = Top(d) /\ Top(e)' = Top(e)
      BY <1>2, <1>3
    <2>2. Executing(e)' \subseteq Executing(e)
      BY <1>0, <1>3, <1>4
    <2>3. pc'[e] = "commit" => pc[e] = "commit"
      BY <1>2
    <2> QED BY <1>1, <2>1, <2>2, <2>3 DEF IInv, KInv, PlanInv
  <1> QED
    BY <1>6, <1>7, <1>8, <1>9 DEF IInv, KInv

(* next_after_dispatch finds a follow-up object for the top frame. *)
LEMMA FollowUpStep ==
    ASSUME IInv, TypeOK', NEW c \in Cores, NEW p \in Prios, NEW f \in Frame,
           pc[c] = "next",
           IsHighest(p, Eligible(c, Top(c).restore_threshold)),
           f.prio = p, f.restore_prio = Top(c).restore_prio,
           f.restore_threshold = Top(c).restore_threshold,
           stack' = SetTop(c, f),
           pc' = [pc EXCEPT ![c] = "commit"],
           next_prio' = [next_prio EXCEPT ![c] = p],
           UNCHANGED <<active_prio, active_threshold, executing_cores, posting>>
    PROVE  KInv'
  <1> DEFINE n == Len(stack[c])
             low == SubSeq(stack[c], 1, n - 1)
  <1>0. /\ \A d \in Cores : Len(stack[d]) \in Nat
        /\ n \in Nat /\ n > 1
        /\ Top(c).restore_prio = stack[c][n - 1].prio
        /\ Top(c).restore_threshold = threshold_for(stack[c][n - 1].prio)
        /\ stack \in [Cores -> Seq(Frame)] /\ Top(c) \in Frame
        /\ pc \in [Contexts -> PCs] /\ next_prio \in [Cores -> Prios \cup {0}]
    <2>1. pc[c] \notin UserPCs
      BY DEF UserPCs
    <2>2. TypeOK /\ StackInv
      BY DEF IInv, KInv
    <2>3. stack \in [Cores -> Seq(Frame)] /\ Top(c) \in Frame
      BY <2>2, TopFrame
    <2> QED BY <2>1, <2>3, Activated DEF IInv, KInv, TypeOK
  <1>1. Len(stack[c]) > 0
    BY <1>0
  <1>3. /\ Len(stack'[c]) = n
        /\ \A i \in 1..n - 1 : stack'[c][i] = stack[c][i]
        /\ stack'[c][n] = f
        /\ \A d \in Cores : d # c => stack'[d] = stack[d]
    BY <1>0, <1>1, SetTopStack
  <1>4. /\ pc'[c] = "commit" /\ next_prio'[c] = p
        /\ \A d \in Cores : d # c => pc'[d] = pc[d] /\ next_prio'[d] = next_prio[d]
    BY <1>0
  <1>5. \A d \in Cores : d # c => Executing(d)' = Executing(d) /\ Top(d)' = Top(d)
    BY <1>3, <1>4, OtherCores
  <1>6. Executing(c)' = 2..n - 1 /\ Executing(c) = 2..n - 1
    BY <1>0, <1>3, <1>4 DEF Executing
  <1>7. Top(c)' = f
    BY <1>0, <1>3 DEF Top
  <1>8. p > Top(c).restore_threshold
    BY Picked
  <1>9. StackInv'
    <2>1. GoodStack(stack'[c])
      <3>1. GoodStack(stack[c]) /\ stack[c] \in Seq(Frame) /\ stack'[c] \in Seq(Frame)
        BY DEF IInv, KInv, StackInv, TypeOK
      <3>2. /\ low \in Seq(Frame) /\ Len(low) = n - 1
            /\ \A i \in 1..n - 1 : low[i] = stack[c][i]
        BY <1>0, <3>1, FrontOfSeq
      <3> HIDE DEF low, n
      <3>3. Len(low) \in Nat /\ Len(low) >= 1 /\ n = Len(low) + 1
        BY <1>0, <3>2
      <3>4. /\ Len(low) <= Len(stack[c])
            /\ \A i \in 1..Len(low) : low[i] = stack[c][i]
        BY <1>0, <3>2, <3>3 DEF n
      <3>5. GoodStack(low)
        BY <3>1, <3>2, <3>3, <3>4, GoodPrefix
      <3>6. /\ \A i \in 1..Len(low) : stack'[c][i] = low[i]
            /\ low[Len(low)] = stack[c][n - 1]
        BY <1>0, <1>3, <3>2, <3>3
      <3>7. /\ Len(stack'[c]) = Len(low) + 1
            /\ stack'[c][Len(low) + 1].prio \in Prios
            /\ stack'[c][Len(low) + 1].prio > threshold_for(low[Len(low)].prio)
            /\ stack'[c][Len(low) + 1].restore_prio = low[Len(low)].prio
            /\ stack'[c][Len(low) + 1].restore_threshold = threshold_for(low[Len(low)].prio)
        BY <1>0, <1>1, <1>3, <1>8, <3>3, <3>6
      <3> QED BY <3>1, <3>2, <3>3, <3>5, <3>6, <3>7, GoodExtend
    <2>2. \A d \in Cores : d # c => GoodStack(stack'[d])
      BY <1>3 DEF IInv, KInv, StackInv
    <2> QED BY <2>1, <2>2, StackInvPrime
  <1> HIDE DEF n, low
  <1>10. CoreInv'
    <2>1. \A d \in Cores : d # c =>
            /\ pc'[d] \notin UserPCs => Len(stack'[d]) > 1
            /\ pc'[d] # "commit" => /\ active_prio'[d] = Top(d)'.prio
                                    /\ active_threshold'[d] = threshold_for(Top(d)'.prio)
            /\ pc'[d] = "commit" => next_prio'[d] = Top(d)'.prio
            /\ pc'[d] \in {"push", "mark"} => posting'[d].target \in Prios
      BY <1>3, <1>4, <1>5 DEF IInv, KInv, CoreInv
    <2>2. pc'[c] = "commit" /\ next_prio'[c] = Top(c)'.prio /\ Len(stack'[c]) > 1
      BY <1>0, <1>1, <1>3, <1>4, <1>7
    <2> QED BY <2>1, <2>2 DEF CoreInv, UserPCs, threshold_for
  <1>11. ExecInv'
    <2> SUFFICES ASSUME SMP, NEW d \in Cores, NEW i \in Executing(d)'
                 PROVE  executing_cores'[stack'[d][i].prio] = d
      BY DEF ExecInv
    <2>1. i \in Executing(d) /\ stack'[d][i] = stack[d][i]
      BY <1>0, <1>3, <1>5, <1>6
    <2> QED BY <2>1 DEF IInv, KInv, ExecInv
  <1>12. PlanInv'
    <2> SUFFICES ASSUME SMP, NEW e \in Cores, NEW d \in Cores, e # d, pc'[d] = "commit"
                 PROVE  /\ \A i \in Executing(e)' : stack'[e][i].prio # Top(d)'.prio
                        /\ pc'[e] = "commit" => Top(e)'.prio # Top(d)'.prio
      BY DEF PlanInv
    <2>1. CASE d = c
      BY <1>1, <1>3, <1>4, <1>5, <1>7, <2>1, Picked
    <2>2. CASE d # c
      <3>1. CASE e = c
        <4>1. pc[d] = "commit" /\ Top(d)' = Top(d)
          BY <1>4, <1>5, <2>2
        <4>2. \A i \in 2..n - 1 : stack'[c][i] = stack[c][i]
          BY <1>0, <1>3
        <4>3. \A i \in 2..n - 1 : stack[c][i].prio # Top(d).prio
          BY <1>6, <2>2, <4>1 DEF IInv, KInv, PlanInv
        <4>4. Top(d).prio # p
          BY <2>2, <4>1, Picked
        <4> QED BY <1>1, <1>6, <1>7, <3>1, <4>1, <4>2, <4>3, <4>4
      <3>2. CASE e # c
        BY <1>3, <1>4, <1>5, <2>2, <3>2 DEF IInv, KInv, PlanInv
      <3> QED BY <3>1, <3>2
    <2> QED BY <2>1, <2>2
  <1> QED
    BY <1>9, <1>10, <1>11, <1>12 DEF IInv, KInv

(* next_after_dispatch finds nothing: activate() is about to return. *)
LEMMA NoFollowUpStep ==
    ASSUME IInv, TypeOK', NEW c \in Cores,
           pc[c] = "next",
           pc' = [pc EXCEPT ![c] = "restore"],
           next_prio' = [next_prio EXCEPT ![c] = 0],
           UNCHANGED <<stack, active_prio, active_threshold, executing_cores, posting>>
    PROVE  KInv'
  <1>0. /\ pc \in [Contexts -> PCs] /\ next_prio \in [Cores -> Prios \cup {0}]
        /\ Len(stack[c]) > 1
    BY DEF IInv, KInv, TypeOK, CoreInv, UserPCs
  <1>1. /\ pc'[c] = "restore"
        /\ \A d \in Cores : d # c => pc'[d] = pc[d] /\ next_prio'[d] = next_prio[d]
    BY <1>0
  <1>2. \A d \in Cores : Executing(d)' = Executing(d) /\ Top(d)' = Top(d)
    BY <1>1 DEF Executing, Top
  <1>3. StackInv'
    BY DEF IInv, KInv, StackInv, GoodStack, threshold_for
  <1>4. CoreInv'
    BY <1>0, <1>1, <1>2 DEF IInv, KInv, CoreInv, UserPCs, threshold_for
  <1>5. ExecInv'
    BY <1>2 DEF IInv, KInv, ExecInv
  <1>6. PlanInv'
    BY <1>1, <1>2 DEF IInv, KInv, PlanInv
  <1> QED
    BY <1>3, <1>4, <1>5, <1>6 DEF IInv, KInv

(* restore_active: activate() returns to the code it preempted. *)
LEMMA RestoreStep ==
    ASSUME IInv, TypeOK', NEW c \in Cores, restore_active(c)
    PROVE  KInv'
  <1> DEFINE n == Len(stack[c])
  <1>0. /\ \A d \in Cores : Len(stack[d]) \in Nat
        /\ n \in Nat /\ n > 1
        /\ Top(c).restore_prio = stack[c][n - 1].prio
        /\ Top(c).restore_threshold = threshold_for(stack[c][n - 1].prio)
        /\ Top(c).then \in {"user", "run"}
        /\ stack \in [Cores -> Seq(Frame)]
        /\ pc \in [Contexts -> PCs] /\ next_prio \in [Cores -> Prios \cup {0}]
        /\ active_prio \in [Cores -> Prios \cup {0}] /\ active_threshold \in [Cores -> 0..63]
    <2>1. pc[c] \notin UserPCs
      BY DEF restore_active, Restore, UserPCs
    <2>2. TypeOK /\ StackInv
      BY DEF IInv, KInv
    <2>3. stack \in [Cores -> Seq(Frame)] /\ Top(c).then \in {"user", "run"}
      BY <2>2, TopFrame
    <2> QED BY <2>1, <2>3, Activated DEF IInv, KInv, TypeOK
  <1>1. /\ pc[c] = "restore"
        /\ active_prio' = [active_prio EXCEPT ![c] = Top(c).restore_prio]
        /\ active_threshold' = [active_threshold EXCEPT ![c] = Top(c).restore_threshold]
        /\ next_prio' = [next_prio EXCEPT ![c] = 0]
        /\ stack' = Pop(c)
        /\ pc' = [pc EXCEPT ![c] = Top(c).then]
        /\ UNCHANGED <<executing_cores, posting>>
    BY DEF restore_active, Restore, GoTo
  <1>2. /\ pc'[c] \in {"user", "run"}
        /\ active_prio'[c] = stack[c][n - 1].prio
        /\ active_threshold'[c] = threshold_for(stack[c][n - 1].prio)
        /\ \A d \in Cores : d # c => /\ pc'[d] = pc[d] /\ next_prio'[d] = next_prio[d]
                                     /\ active_prio'[d] = active_prio[d]
                                     /\ active_threshold'[d] = active_threshold[d]
    BY <1>0, <1>1
  <1>3. /\ Len(stack'[c]) = n - 1
        /\ \A i \in 1..n - 1 : stack'[c][i] = stack[c][i]
        /\ \A d \in Cores : d # c => stack'[d] = stack[d]
    <2>1. Len(stack[c]) > 0 /\ stack' = Pop(c)
      BY <1>0, <1>1
    <2> QED BY <1>0, <2>1, PopStack
  <1>4. \A d \in Cores : d # c => Executing(d)' = Executing(d) /\ Top(d)' = Top(d)
    BY <1>2, <1>3, OtherCores
  <1>5. Executing(c)' = 2..n - 1 /\ Executing(c) = 2..n - 1
    BY <1>0, <1>1, <1>2, <1>3 DEF Executing
  <1>6. Top(c)' = stack[c][n - 1]
    <2>1. n - 1 \in 1..n - 1
      BY <1>0
    <2>2. Top(c)' = stack'[c][n - 1]
      BY <1>3 DEF Top
    <2> HIDE DEF n
    <2> QED BY <1>3, <2>1, <2>2
  <1>7. StackInv'
    <2>1. GoodStack(stack'[c])
      <3>1. GoodStack(stack[c]) /\ stack[c] \in Seq(Frame) /\ stack'[c] \in Seq(Frame)
        BY DEF IInv, KInv, StackInv, TypeOK
      <3>2. Len(stack'[c]) >= 1 /\ Len(stack'[c]) <= Len(stack[c])
        BY <1>0, <1>3
      <3> QED BY <1>3, <3>1, <3>2, GoodPrefix
    <2>2. \A d \in Cores : d # c => GoodStack(stack'[d])
      BY <1>3 DEF IInv, KInv, StackInv
    <2> QED BY <2>1, <2>2, StackInvPrime
  <1> HIDE DEF n
  <1>8. CoreInv'
    <2>1. \A d \in Cores : d # c =>
            /\ pc'[d] \notin UserPCs => Len(stack'[d]) > 1
            /\ pc'[d] # "commit" => /\ active_prio'[d] = Top(d)'.prio
                                    /\ active_threshold'[d] = threshold_for(Top(d)'.prio)
            /\ pc'[d] = "commit" => next_prio'[d] = Top(d)'.prio
            /\ pc'[d] \in {"push", "mark"} => posting'[d].target \in Prios
      BY <1>1, <1>2, <1>3, <1>4 DEF IInv, KInv, CoreInv
    <2>2. /\ pc'[c] \in {"user", "run"} /\ active_prio'[c] = Top(c)'.prio
          /\ active_threshold'[c] = threshold_for(Top(c)'.prio)
      BY <1>2, <1>6
    <2> QED BY <2>1, <2>2 DEF CoreInv, UserPCs, threshold_for
  <1>9. ExecInv'
    <2> SUFFICES ASSUME SMP, NEW d \in Cores, NEW i \in Executing(d)'
                 PROVE  executing_cores'[stack'[d][i].prio] = d
      BY DEF ExecInv
    <2>1. i \in Executing(d) /\ stack'[d][i] = stack[d][i]
      BY <1>0, <1>3, <1>4, <1>5
    <2> QED BY <1>1, <2>1 DEF IInv, KInv, ExecInv
  <1>10. PlanInv'
    <2> SUFFICES ASSUME SMP, NEW e \in Cores, NEW d \in Cores, e # d, pc'[d] = "commit"
                 PROVE  /\ \A i \in Executing(e)' : stack'[e][i].prio # Top(d)'.prio
                        /\ pc'[e] = "commit" => Top(e)'.prio # Top(d)'.prio
      BY DEF PlanInv
    <2>1. d # c /\ pc[d] = "commit" /\ Top(d)' = Top(d)
      BY <1>2, <1>4
    <2>2. \A i \in Executing(e)' : i \in Executing(e) /\ stack'[e][i] = stack[e][i]
      <3>1. CASE e = c
        <4>1. \A i \in 2..n - 1 : i \in 1..n - 1
          BY <1>0
        <4> QED BY <1>3, <1>5, <3>1, <4>1
      <3>2. CASE e # c
        BY <1>3, <1>4, <3>2
      <3> QED BY <3>1, <3>2
    <2>3. pc'[e] = "commit" => pc[e] = "commit" /\ Top(e)' = Top(e)
      BY <1>2, <1>4
    <2> QED BY <2>1, <2>2, <2>3 DEF IInv, KInv, PlanInv
  <1> QED
    BY <1>7, <1>8, <1>9, <1>10 DEF IInv, KInv

-----------------------------------------------------------------------------
(* The invariant holds *)

LEMMA IInvInit ==
    ASSUME Init
    PROVE  IInv
  <1>1. MainLoop \in Frame /\ MainLoop.prio = 0
    <2>1. <<>> \in Seq(Status)
      OBVIOUS
    <2> QED BY <2>1 DEF MainLoop, Frame
  <1>2. <<MainLoop>> \in Seq(Frame) /\ Len(<<MainLoop>>) = 1 /\ <<MainLoop>>[1] = MainLoop
    BY <1>1
  <1>3. TypeOK
    <2>1. NoPost \in PostOp
      BY DEF NoPost, PostOp
    <2>2. queue \in [Prios -> Nat] /\ ops \in 0..MaxOps
      BY BoundsAssumption DEF Init
    <2>3. ready \in SUBSET Prios /\ lock_ceiling \in 0..63
      BY DEF Init
    <2>4. /\ active_prio \in [Cores -> Prios \cup {0}]
          /\ active_threshold \in [Cores -> 0..63]
          /\ next_prio \in [Cores -> Prios \cup {0}]
          /\ executing_cores \in [Prios -> Cores \cup {NoCore}]
      BY DEF Init
    <2>5. pc \in [Contexts -> PCs] /\ started \in BOOLEAN /\ no_event \in SUBSET Prios
          /\ raced \in SUBSET Prios
      BY DEF Init, PCs
    <2>6. stack \in [Cores -> Seq(Frame)] /\ posting \in [Contexts -> PostOp]
      BY <1>2, <2>1 DEF Init
    <2> QED BY <2>2, <2>3, <2>4, <2>5, <2>6 DEF TypeOK
  <1>4. \A c \in Cores : stack[c] = <<MainLoop>> /\ Len(stack[c]) = 1 /\ stack[c][1] = MainLoop
    BY <1>2 DEF Init
  <1>5. StackInv
    BY <1>1, <1>4 DEF StackInv, GoodStack
  <1>6. CoreInv
    BY <1>1, <1>4 DEF Init, CoreInv, UserPCs, Top, threshold_for
  <1>7. ExecInv /\ PlanInv
    BY <1>4 DEF Init, ExecInv, PlanInv, Executing
  <1>8. PosterInv
    BY DEF Init, PosterInv
  <1> QED
    BY <1>3, <1>5, <1>6, <1>7, <1>8 DEF IInv, KInv

(* What a post leaves alone, whoever makes it. *)
LEMMA PostFrame ==
    ASSUME IInv, NEW x \in Contexts,
           \/ PostStep(x)
           \/ \E S \in SUBSET Prios \ {{}}, then \in {"user", "run"} : publish(x, S, then)
    PROVE  /\ UNCHANGED <<stack, lock_ceiling, active_prio, active_threshold, next_prio,
                          executing_cores, started, no_event>>
           /\ \A y \in Contexts : y # x => pc'[y] = pc[y] /\ posting'[y] = posting[y]
           /\ pc'[x] \in {"push", "mark"} => posting'[x].target \in Prios
           /\ pc[x] \in {"user", "post", "push", "mark"}
           /\ pc'[x] \in {"user", "run", "post", "push", "mark"}
  <1>0. /\ pc \in [Contexts -> PCs] /\ posting \in [Contexts -> PostOp]
        /\ posting[x] \in PostOp /\ posting[x].then \in {"user", "run"}
    BY DEF IInv, KInv, TypeOK, PostOp
  <1>1. ASSUME NEW S \in SUBSET Prios \ {{}}, NEW then \in {"user", "run"},
               publish(x, S, then)
        PROVE  /\ UNCHANGED <<sched, stack, started, no_event>>
               /\ \A y \in Contexts : y # x => pc'[y] = pc[y] /\ posting'[y] = posting[y]
               /\ pc[x] = "user" /\ pc'[x] = "post"
    BY <1>0, <1>1 DEF publish, InUser, GoTo
  <1>2. CASE post_has_events(x)
    <2>1. PICK p \in Prios :
            posting' = [posting EXCEPT ![x].target = p, ![x].was_empty = (queue[p] = 0)]
      BY <1>2 DEF post_has_events
    <2>2. posting'[x].target = p /\ \A y \in Contexts : y # x => posting'[y] = posting[y]
      BY <1>0, <2>1 DEF PostOp
    <2>3. /\ UNCHANGED <<sched, stack, started, no_event>>
          /\ pc[x] = "post" /\ pc' = [pc EXCEPT ![x] = "push"]
      BY <1>2 DEF post_has_events, GoTo
    <2> QED BY <1>0, <2>2, <2>3 DEF sched
  <1>3. CASE post_push(x) \/ post_mark_ready(x)
    <2>1. AfterRecipient(x) \in {"user", "run", "post"}
      BY <1>0 DEF AfterRecipient
    <2>2. \A y \in Contexts : y # x => posting'[y] = posting[y]
      BY <1>0, <1>3 DEF post_push, post_mark_ready
    <2>3. /\ UNCHANGED <<stack, lock_ceiling, active_prio, active_threshold, next_prio,
                         executing_cores, started, no_event>>
          /\ pc[x] \in {"push", "mark"}
          /\ \/ pc' = [pc EXCEPT ![x] = "mark"] /\ posting' = posting
             \/ pc' = [pc EXCEPT ![x] = AfterRecipient(x)]
      BY <1>3 DEF post_push, post_mark_ready, GoTo, sched
    <2>4. posting[x].target \in Prios
      BY <2>3 DEF IInv, KInv, CoreInv, PosterInv
    <2> QED BY <1>0, <2>1, <2>2, <2>3, <2>4
  <1> QED
    BY <1>1, <1>2, <1>3 DEF PostStep, sched

(* A core does not move another core, nor a thread that posts. *)
LEMMA CoreFrame ==
    ASSUME TypeOK, NEW c \in Cores, UserStep(c) \/ KernelStep(c)
    PROVE  /\ \A y \in Contexts : y # c => pc'[y] = pc[y] /\ posting'[y] = posting[y]
           /\ \A d \in Cores : d # c => stack'[d] = stack[d]
  <1>0. /\ pc \in [Contexts -> PCs] /\ posting \in [Contexts -> PostOp]
        /\ stack \in [Cores -> Seq(Frame)]
    BY DEF TypeOK
  <1>1. \/ pc' = pc
        \/ \E l : pc' = [pc EXCEPT ![c] = l]
    BY DEF UserStep, KernelStep, PostStep, publish, lock_scheduler, unlock_scheduler, UnlockTo,
           run_until_idle, dispatch_once, handler_return, post_has_events, post_push,
           post_mark_ready, dispatch_loop, unlock_replan, plan_activation, commit_activation,
           Commit, dispatch_one, activate_has_events, AfterHandler, mark_not_ready, ClearReady,
           complete_execution, next_after_dispatch, restore_active, Restore, GoTo
  <1>2. \/ posting' = posting
        \/ \E o : posting' = [posting EXCEPT ![c] = o]
    BY DEF UserStep, KernelStep, PostStep, publish, lock_scheduler, unlock_scheduler, UnlockTo,
           run_until_idle, dispatch_once, handler_return, post_has_events, post_push,
           post_mark_ready, dispatch_loop, unlock_replan, PlanFrame, commit_activation,
           Commit, dispatch_one, activate_has_events, AfterHandler, mark_not_ready, ClearReady,
           complete_execution, next_after_dispatch, restore_active, Restore
  <1>3. stack' = stack \/ \E s : stack' = [stack EXCEPT ![c] = s]
    <2>1. ASSUME NEW f, stack' = SetTop(c, f) PROVE \E s : stack' = [stack EXCEPT ![c] = s]
      BY <2>1 DEF SetTop
    <2>2. CASE UserStep(c)
      BY <2>1, <2>2 DEF UserStep, publish, lock_scheduler, unlock_scheduler, UnlockTo,
           run_until_idle, dispatch_once, handler_return, plan_activation, Push
    <2>3. CASE KernelStep(c)
      BY <2>1, <2>3 DEF KernelStep, PostStep, post_has_events, post_push,
           post_mark_ready, dispatch_loop, unlock_replan, plan_activation, commit_activation,
           Commit, dispatch_one, activate_has_events, AfterHandler, mark_not_ready, ClearReady,
           complete_execution, next_after_dispatch, restore_active, Restore, Push, Pop
    <2> QED BY <2>2, <2>3
  <1> QED
    BY <1>0, <1>1, <1>2, <1>3

LEMMA IInvStep ==
    ASSUME IInv, Next
    PROVE  IInv'
  <1>0. TypeOK' /\ TypeOK /\ StackInv /\ CoreInv
    BY TypeStep DEF IInv, KInv
  <1>1. CASE start
    <2>1. UNCHANGED <<stack, pc, active_prio, active_threshold, next_prio,
                      executing_cores, posting>>
      BY <1>1 DEF start
    <2>2. \A d \in Cores : Executing(d)' = Executing(d) /\ Top(d)' = Top(d)
      BY <2>1 DEF Executing, Top
    <2>3. StackInv' /\ CoreInv'
      BY <2>1, <2>2 DEF IInv, KInv, StackInv, GoodStack, CoreInv, UserPCs, threshold_for
    <2>4. ExecInv' /\ PlanInv'
      BY <2>1, <2>2 DEF IInv, KInv, ExecInv, PlanInv
    <2>5. PosterInv'
      BY <2>1 DEF IInv, PosterInv
    <2> QED BY <1>0, <2>3, <2>4, <2>5 DEF IInv, KInv
  <1>2. ASSUME NEW c \in Cores, UserStep(c) \/ KernelStep(c) PROVE KInv'
    <2>0. /\ stack \in [Cores -> Seq(Frame)]
          /\ Len(stack[c]) \in Nat /\ Len(stack[c]) >= 1 /\ Len(stack[c]) > 0
          /\ Top(c) \in Frame
          /\ Top(c).held \in Seq(Status)
          /\ pc \in [Contexts -> PCs]
          /\ next_prio \in [Cores -> Prios \cup {0}]
          /\ posting \in [Contexts -> PostOp]
      BY <1>0, TopFrame DEF TypeOK
    (* Steps of c that leave the frames as they are. *)
    <2>1. ASSUME UNCHANGED <<stack, active_prio, active_threshold, executing_cores>>,
                 \A d \in Cores : d # c => /\ pc'[d] = pc[d]
                                          /\ next_prio'[d] = next_prio[d]
                                          /\ posting'[d] = posting[d],
                 pc[c] \notin {"commit", "next", "restore"},
                 pc'[c] \notin {"commit", "next", "restore"},
                 pc'[c] \in {"push", "mark"} => posting'[c].target \in Prios,
                 pc'[c] \notin UserPCs => Len(stack[c]) > 1
          PROVE  KInv'
      BY <1>0, <2>1, QuietStep
    (* Steps of c that only lock or unlock. *)
    <2>2. ASSUME NEW h \in Seq(Status), NEW f, f = [Top(c) EXCEPT !.held = h],
                 stack' = SetTop(c, f),
                 UNCHANGED <<active_prio, active_threshold, executing_cores, next_prio, posting>>,
                 \A d \in Cores : d # c => pc'[d] = pc[d],
                 pc[c] = "user", pc'[c] \in {"user", "replan"}
          PROVE  KInv'
      <3>1. /\ f \in Frame /\ f.prio = Top(c).prio
            /\ f.restore_prio = Top(c).restore_prio
            /\ f.restore_threshold = Top(c).restore_threshold
        BY <2>0, <2>2, SetHeld
      <3>2. stack' = SetTop(c, f)
        BY <2>2
      <3>3. /\ Len(stack'[c]) = Len(stack[c])
            /\ \A i \in 1..Len(stack[c]) - 1 : stack'[c][i] = stack[c][i]
            /\ stack'[c][Len(stack[c])] = f
            /\ \A d \in Cores : d # c => stack'[d] = stack[d]
        BY <2>0, <3>1, <3>2, SetTopStack
      <3>4. \A i \in 1..Len(stack[c]) : i \in 1..Len(stack[c]) - 1 \/ i = Len(stack[c])
        BY <2>0
      <3>5. \A d \in Cores : Len(stack'[d]) = Len(stack[d])
        BY <3>3
      <3>6. \A d \in Cores : \A i \in 1..Len(stack[d]) :
                /\ stack'[d][i].prio = stack[d][i].prio
                /\ stack'[d][i].restore_prio = stack[d][i].restore_prio
                /\ stack'[d][i].restore_threshold = stack[d][i].restore_threshold
        BY <3>1, <3>3, <3>4 DEF Top
      <3>7. /\ pc[c] \notin {"commit", "next", "restore"}
            /\ pc'[c] \notin {"commit", "next", "restore"}
            /\ pc'[c] \notin {"push", "mark"}
            /\ pc'[c] \in UserPCs
        BY <2>2 DEF UserPCs
      <3>8. /\ UNCHANGED <<active_prio, active_threshold, executing_cores>>
            /\ \A d \in Cores : d # c => /\ pc'[d] = pc[d]
                                         /\ next_prio'[d] = next_prio[d]
                                         /\ posting'[d] = posting[d]
        BY <2>2
      <3> QED BY <1>0, <3>5, <3>6, <3>7, <3>8, QuietStep
    <2>3. ASSUME NEW S \in SUBSET Prios \ {{}}, NEW then \in {"user", "run"},
                 publish(c, S, then)
          PROVE  KInv'
      BY <2>0, <2>1, <2>3 DEF publish, InUser, GoTo, sched, UserPCs
    <2>4. ASSUME NEW ceiling \in Ceilings, lock_scheduler(c, ceiling) PROVE KInv'
      <3> DEFINE prev == IF ceiling > lock_ceiling THEN lock_ceiling ELSE -1
                 st   == [prev |-> prev, ceiling |-> ceiling]
                 h    == Append(Top(c).held, st)
                 f    == [Top(c) EXCEPT !.held = h]
      <3>1. st \in Status
        <4>1. ceiling \in 1..63 /\ lock_ceiling \in 0..63
          BY <1>0, BoundsAssumption DEF TypeOK
        <4> QED BY <4>1 DEF Status
      <3>2. h \in Seq(Status)
        BY <2>0, <3>1
      <3>3. /\ stack' = SetTop(c, f)
            /\ UNCHANGED <<active_prio, active_threshold, executing_cores, next_prio,
                           posting, pc>>
            /\ pc[c] = "user"
        BY <2>4 DEF lock_scheduler, InUser
      <3> HIDE DEF h
      <3>4. f = [Top(c) EXCEPT !.held = h]
        OBVIOUS
      <3> HIDE DEF f
      <3>5. \A d \in Cores : pc'[d] = pc[d]
        BY <3>3
      <3> QED BY <2>2, <3>2, <3>3, <3>4, <3>5
    <2>5. CASE unlock_scheduler(c)
      <3> DEFINE held == Top(c).held
                 h    == SubSeq(held, 1, Len(held) - 1)
                 f    == [Top(c) EXCEPT !.held = h]
                 l    == IF held[Len(held)].prev >= 0 THEN "replan" ELSE "user"
      <3>1. held \in Seq(Status) /\ Len(held) > 0
        BY <2>0, <2>5 DEF unlock_scheduler
      <3>2. h \in Seq(Status)
        BY <3>1, FrontOfSeq
      <3>3. /\ stack' = SetTop(c, f)
            /\ UNCHANGED <<active_prio, active_threshold, executing_cores, next_prio, posting>>
            /\ pc[c] = "user"
            /\ pc' = [pc EXCEPT ![c] = l]
        BY <2>5 DEF unlock_scheduler, UnlockTo, GoTo, InUser
      <3>4. l \in {"user", "replan"}
        OBVIOUS
      <3> HIDE DEF l, h
      <3>5. pc'[c] \in {"user", "replan"} /\ \A d \in Cores : d # c => pc'[d] = pc[d]
        BY <2>0, <3>3, <3>4
      <3>6. f = [Top(c) EXCEPT !.held = h]
        OBVIOUS
      <3> HIDE DEF f
      <3> QED BY <2>2, <3>2, <3>3, <3>5, <3>6
    <2>6. CASE run_until_idle(c)
      BY <2>0, <2>1, <2>6 DEF run_until_idle, InUser, GoTo, sched, UserPCs
    <2>7. CASE handler_return(c)
      BY <2>0, <2>1, <2>7 DEF handler_return, InUser, GoTo, sched, UserPCs
    <2>8. CASE PostStep(c)
      <3>1. /\ UNCHANGED <<stack, active_prio, active_threshold, next_prio, executing_cores>>
            /\ \A d \in Cores : d # c => pc'[d] = pc[d] /\ posting'[d] = posting[d]
            /\ pc'[c] \in {"push", "mark"} => posting'[c].target \in Prios
            /\ pc[c] \in {"user", "post", "push", "mark"}
            /\ pc'[c] \in {"user", "run", "post", "push", "mark"}
        BY <2>8, PostFrame
      <3> QED BY <2>1, <3>1 DEF UserPCs
    <2>10. ASSUME NEW then \in {"user", "run"}, plan_activation(c, then), UNCHANGED PlanFrame,
                  pc[c] \in UserPCs
           PROVE  KInv'
      <3>0. UNCHANGED <<active_prio, active_threshold, executing_cores, posting>>
        BY <2>10 DEF PlanFrame
      <3>1. CASE next_prio' = [next_prio EXCEPT ![c] = 0] /\ GoTo(c, "user") /\ UNCHANGED stack
        BY <2>0, <2>1, <2>10, <3>0, <3>1 DEF GoTo, UserPCs
      <3>2. ASSUME NEW p \in Prios,
                   IsHighest(p, Eligible(c, active_threshold[c])),
                   next_prio' = [next_prio EXCEPT ![c] = p],
                   stack' = Push(c, [prio |-> p, restore_prio |-> active_prio[c],
                             restore_threshold |-> threshold_for(active_prio[c]),
                             then |-> then, held |-> <<>>]),
                   GoTo(c, "commit")
            PROVE  KInv'
        <4> DEFINE f == [prio |-> p, restore_prio |-> active_prio[c],
                         restore_threshold |-> threshold_for(active_prio[c]),
                         then |-> then, held |-> <<>>]
        <4>1. active_prio[c] \in Prios \cup {0}
          BY <1>0 DEF TypeOK
        <4>2. /\ f \in Frame /\ f.prio = p /\ f.restore_prio = active_prio[c]
              /\ f.restore_threshold = threshold_for(active_prio[c])
          BY <4>1, ThresholdFor DEF Frame
        <4>3. stack' = Push(c, f) /\ pc' = [pc EXCEPT ![c] = "commit"]
          BY <3>2 DEF GoTo
        <4> HIDE DEF f
        <4> QED BY <1>0, <2>10, <3>0, <3>2, <4>2, <4>3, PlanStep
      <3> QED BY <2>10, <3>1, <3>2 DEF plan_activation
    <2>11. CASE dispatch_loop(c) \/ unlock_replan(c)
      BY <2>10, <2>11 DEF dispatch_loop, unlock_replan, UserPCs
    <2>12. CASE dispatch_once(c)
      BY <2>10, <2>12 DEF dispatch_once, InUser, UserPCs
    <2>13. CASE commit_activation(c)
      BY <1>0, <2>13, CommitStep
    <2>14. CASE dispatch_one(c) \/ activate_has_events(c) \/ mark_not_ready(c)
      <3>1. /\ UNCHANGED <<stack, active_prio, active_threshold, executing_cores, next_prio,
                           posting>>
            /\ pc[c] \in {"pop", "check", "clear"}
            /\ \E l \in {"user", "check", "clear", "complete"} : pc' = [pc EXCEPT ![c] = l]
        BY <2>14 DEF dispatch_one, activate_has_events, AfterHandler, mark_not_ready,
                     ClearReady, GoTo, sched
      <3>2. Len(stack[c]) > 1
        BY <1>0, <3>1 DEF CoreInv, UserPCs
      <3> QED BY <2>0, <2>1, <3>1, <3>2
    <2>15. CASE complete_execution(c)
      BY <1>0, <2>15, CompleteStep
    <2>16. CASE next_after_dispatch(c)
      <3>0. /\ UNCHANGED <<active_prio, active_threshold, executing_cores, posting>>
            /\ pc[c] = "next"
        BY <2>16 DEF next_after_dispatch, PlanFrame
      <3>1. CASE next_prio' = [next_prio EXCEPT ![c] = 0] /\ GoTo(c, "restore") /\ UNCHANGED stack
        BY <1>0, <3>0, <3>1, NoFollowUpStep DEF GoTo
      <3>2. ASSUME NEW p \in Prios,
                   IsHighest(p, Eligible(c, Top(c).restore_threshold)),
                   next_prio' = [next_prio EXCEPT ![c] = p],
                   stack' = SetTop(c, [Top(c) EXCEPT !.prio = p]),
                   GoTo(c, "commit")
            PROVE  KInv'
        <4> DEFINE f == [Top(c) EXCEPT !.prio = p]
        <4>1. /\ f \in Frame /\ f.prio = p /\ f.restore_prio = Top(c).restore_prio
              /\ f.restore_threshold = Top(c).restore_threshold
          BY <2>0, SetPrio
        <4>2. stack' = SetTop(c, f) /\ pc' = [pc EXCEPT ![c] = "commit"]
          BY <3>2 DEF GoTo
        <4> HIDE DEF f
        <4> QED BY <1>0, <3>0, <3>2, <4>1, <4>2, FollowUpStep
      <3> QED BY <2>16, <3>1, <3>2 DEF next_after_dispatch
    <2>17. CASE restore_active(c)
      BY <1>0, <2>17, RestoreStep
    <2> QED
      BY <1>2, <2>3, <2>4, <2>5, <2>6, <2>7, <2>8, <2>11, <2>12, <2>13, <2>14, <2>15,
         <2>16, <2>17 DEF UserStep, KernelStep
  <1>3. ASSUME NEW c \in Cores, UserStep(c) \/ KernelStep(c) PROVE PosterInv'
    <2>1. \A x \in Posters : x # c /\ x \in Contexts
      BY CoresAssumption
    <2> QED BY <1>0, <1>3, <2>1, CoreFrame DEF IInv, PosterInv
  <1>4. ASSUME NEW x \in Posters, PosterStep(x) PROVE IInv'
    <2>1. /\ UNCHANGED <<stack, active_prio, active_threshold, next_prio, executing_cores>>
          /\ \A y \in Contexts : y # x => pc'[y] = pc[y] /\ posting'[y] = posting[y]
          /\ pc'[x] \in {"push", "mark"} => posting'[x].target \in Prios
      BY <1>4, PostFrame DEF PosterStep
    <2>2. \A d \in Cores : pc'[d] = pc[d] /\ posting'[d] = posting[d]
      BY <2>1, CoresAssumption
    <2>3. \A d \in Cores : Executing(d)' = Executing(d) /\ Top(d)' = Top(d)
      BY <2>1, <2>2 DEF Executing, Top
    <2>4. StackInv' /\ CoreInv'
      BY <2>1, <2>2, <2>3 DEF IInv, KInv, StackInv, GoodStack, CoreInv, UserPCs, threshold_for
    <2>5. ExecInv' /\ PlanInv'
      BY <2>1, <2>2, <2>3 DEF IInv, KInv, ExecInv, PlanInv
    <2>6. PosterInv'
      BY <2>1 DEF IInv, PosterInv
    <2> QED BY <1>0, <2>4, <2>5, <2>6 DEF IInv, KInv
  <1> QED
    BY <1>1, <1>2, <1>3, <1>4 DEF Next, IInv

(* The inductive invariant holds in every reachable state, in both builds. *)
THEOREM Invariant == Spec => []IInv
  <1>1. Init => IInv
    BY IInvInit
  <1>2. IInv /\ [Next]_vars => IInv'
    <2>1. ASSUME IInv, UNCHANGED vars PROVE IInv'
      BY <2>1 DEF vars, sched, IInv, KInv, TypeOK, StackInv, GoodStack, CoreInv, ExecInv, PlanInv,
                  PosterInv, Executing, Top, threshold_for, UserPCs
    <2> QED BY <2>1, IInvStep
  <1> QED
    BY <1>1, <1>2, PTL DEF Spec

(* Every variable of QkKernel keeps its type, whatever the code the user    *)
(* runs does: in particular the ceiling, which locks and unlocks save and   *)
(* restore, stays a priority.                                               *)
THEOREM TypeCorrect == Spec => []TypeOK
  <1>1. IInv => TypeOK
    BY DEF IInv, KInv
  <1> QED
    BY <1>1, Invariant, PTL

(* activate() in both builds: an object is only preempted by priorities     *)
(* above its threshold, at any depth of nesting, for any registered         *)
(* thresholds.                                                              *)
THEOREM Preemption == Spec => []PreemptionThreshold
  <1>1. IInv => PreemptionThreshold
    BY DEF IInv, KInv, StackInv, GoodStack, PreemptionThreshold
  <1> QED
    BY <1>1, Invariant, PTL

(* Run to completion: one core never nests an object in itself, and, in the *)
(* smp build, two cores never run the same object.                          *)
THEOREM RunToCompletion == Spec => []Isolation
  <1>1. ASSUME IInv PROVE Isolation
    <2> SUFFICES ASSUME NEW c \in Cores, NEW d \in Cores,
                        NEW i \in Executing(c), NEW j \in Executing(d),
                        stack[c][i].prio = stack[d][j].prio
                 PROVE  c = d /\ i = j
      BY DEF Isolation
    <2>1. c = d
      <3>1. CASE SMP
        BY <1>1, <3>1 DEF IInv, KInv, ExecInv
      <3>2. CASE ~SMP
        BY <3>2, CoresAssumption
      <3> QED BY <3>1, <3>2, CoresAssumption
    <2>2. ASSUME NEW a \in Executing(c), NEW b \in Executing(c), a < b
          PROVE  stack[c][a].prio # stack[c][b].prio
      <3>1. stack[c] \in Seq(Frame) /\ Len(stack[c]) \in Nat /\ GoodStack(stack[c])
        BY <1>1 DEF IInv, KInv, TypeOK, StackInv
      <3>2. a \in 1..Len(stack[c]) /\ b \in 1..Len(stack[c])
        BY <3>1 DEF Executing
      <3> QED BY <2>2, <3>1, <3>2, DistinctPrios
    <2>3. i \in Int /\ j \in Int
      BY <1>1 DEF Executing, IInv, TypeOK
    <2> QED BY <2>1, <2>2, <2>3
  <1> QED
    BY <1>1, Invariant, PTL

-----------------------------------------------------------------------------
(***************************************************************************)
(* Scheduler locks, in the single-core build.  The ceiling is one for all  *)
(* cores, and in the smp build one core's unlock ends another's lock.      *)
(***************************************************************************)

(* The ceiling covers every lock that is held on a stack, ... *)
Covered(s, ceiling) ==
    \A i \in 1..Len(s) : \A k \in 1..Len(s[i].held) : ceiling >= s[i].held[k].ceiling

(* ... a saved ceiling covers the locks taken before it, ... *)
Nested(s) ==
    \A i, j \in 1..Len(s) : \A k \in 1..Len(s[i].held), m \in 1..Len(s[j].held) :
        (j < i \/ (j = i /\ m < k)) /\ s[i].held[k].prev >= 0
            => s[i].held[k].prev >= s[j].held[m].ceiling

(* ... and whatever runs above a lock is above its ceiling. *)
Protected(s) ==
    \A i, j \in 1..Len(s) : i < j =>
        \A k \in 1..Len(s[i].held) : s[j].prio > s[i].held[k].ceiling

LockInv ==
    \A c \in Cores : /\ Covered(stack[c], lock_ceiling)
                     /\ Nested(stack[c])
                     /\ Protected(stack[c])

(* Ceilings and priorities are numbers. *)
LEMMA LockTypes ==
    ASSUME NEW s \in Seq(Frame), NEW i \in 1..Len(s)
    PROVE  /\ s[i].held \in Seq(Status) /\ Len(s[i].held) \in Nat
           /\ s[i].prio \in 0..63
           /\ \A k \in 1..Len(s[i].held) : /\ s[i].held[k] \in Status
                                            /\ s[i].held[k].ceiling \in 1..63
                                            /\ s[i].held[k].prev \in -1..63
  <1>1. s[i] \in Frame
    OBVIOUS
  <1>2. s[i].held \in Seq(Status) /\ s[i].prio \in Prios \cup {0}
    BY <1>1 DEF Frame
  <1>3. \A k \in 1..Len(s[i].held) : s[i].held[k] \in Status
    BY <1>2
  <1>4. s[i].prio \in 0..63
    BY <1>2, ThresholdFor
  <1> QED
    BY <1>2, <1>3, <1>4 DEF Status

(* A prefix of a stack keeps the three. *)
LEMMA LockPrefix ==
    ASSUME NEW s \in Seq(Frame), NEW t \in Seq(Frame), NEW ceiling,
           Covered(s, ceiling), Nested(s), Protected(s),
           Len(t) <= Len(s), \A i \in 1..Len(t) : t[i] = s[i]
    PROVE  Covered(t, ceiling) /\ Nested(t) /\ Protected(t)
  <1>1. \A i \in 1..Len(t) : i \in 1..Len(s)
    OBVIOUS
  <1>2. Covered(t, ceiling)
    BY <1>1 DEF Covered
  <1>3. Nested(t)
    BY <1>1 DEF Nested
  <1>4. Protected(t)
    BY <1>1 DEF Protected
  <1> QED
    BY <1>2, <1>3, <1>4

(* A new frame holds no lock and is above the ceiling. *)
LEMMA LockExtend ==
    ASSUME NEW s \in Seq(Frame), NEW t \in Seq(Frame), NEW ceiling \in 0..63, NEW n \in Nat,
           Covered(s, ceiling), Nested(s), Protected(s),
           n = Len(s), Len(t) = n + 1, \A i \in 1..n : t[i] = s[i],
           t[n + 1].held = <<>>, t[n + 1].prio > ceiling
    PROVE  Covered(t, ceiling) /\ Nested(t) /\ Protected(t)
  <1>1. \A i \in 1..n + 1 : \/ i \in 1..n /\ t[i] = s[i]
                            \/ i = n + 1 /\ 1..Len(t[i].held) = {}
    OBVIOUS
  <1>2. Covered(t, ceiling)
    BY <1>1 DEF Covered
  <1>3. Nested(t)
    BY <1>1 DEF Nested
  <1>4. Protected(t)
    <2> SUFFICES ASSUME NEW i \in 1..n + 1, NEW j \in 1..n + 1, i < j,
                        NEW k \in 1..Len(t[i].held)
                 PROVE  t[j].prio > t[i].held[k].ceiling
      BY DEF Protected
    <2>1. i \in 1..n /\ t[i] = s[i]
      OBVIOUS
    <2>2. CASE j \in 1..n
      BY <2>1, <2>2 DEF Protected
    <2>3. CASE j = n + 1
      <3> DEFINE x == t[j].prio
                 y == s[i].held[k].ceiling
      <3>1. ceiling >= y /\ x > ceiling
        BY <2>1, <2>3 DEF Covered
      <3>2. x \in 0..63 /\ y \in 1..63
        <4>1. k \in 1..Len(s[i].held)
          BY <2>1
        <4> QED BY <2>1, <4>1, LockTypes
      <3> HIDE DEF x, y
      <3>3. x > y
        BY <3>1, <3>2
      <3> QED BY <2>1, <3>3 DEF x, y
    <2> QED BY <2>2, <2>3
  <1> QED
    BY <1>2, <1>3, <1>4

(* Stack t and ceiling `new` after lock_scheduler returned st to the top    *)
(* frame of s, and after unlock_scheduler took its last status back.        *)
TakesLock(s, t, ceiling, new, st, n, m) ==
    /\ n = Len(s) /\ n = Len(t) /\ n >= 1 /\ \A i \in 1..n - 1 : t[i] = s[i]
    /\ t[n].prio = s[n].prio /\ t[n].held = Append(s[n].held, st) /\ m = Len(s[n].held)
    /\ new >= ceiling /\ new >= st.ceiling /\ (st.prev >= 0 => st.prev = ceiling)

ReleasesLock(s, t, ceiling, new, n, m) ==
    /\ n = Len(s) /\ n = Len(t) /\ n >= 1 /\ \A i \in 1..n - 1 : t[i] = s[i]
    /\ t[n].prio = s[n].prio /\ m = Len(s[n].held) /\ m >= 1
    /\ t[n].held = SubSeq(s[n].held, 1, m - 1)
    /\ new = ceiling \/ (s[n].held[m].prev >= 0 /\ new = s[n].held[m].prev)

LEMMA LockTaken ==
    ASSUME NEW s \in Seq(Frame), NEW t \in Seq(Frame), NEW n \in Nat,
           NEW ceiling \in 0..63, NEW new \in 0..63, NEW st \in Status, NEW m \in Nat,
           Covered(s, ceiling), Nested(s), Protected(s),
           TakesLock(s, t, ceiling, new, st, n, m)
    PROVE  Covered(t, new) /\ Nested(t) /\ Protected(t)
  <1> USE DEF TakesLock
  <1>1. s[n].held \in Seq(Status)
    <2>1. n \in 1..Len(s)
      OBVIOUS
    <2> QED BY <2>1, LockTypes
  <1>2. /\ Len(t[n].held) = m + 1
        /\ \A k \in 1..m : t[n].held[k] = s[n].held[k]
        /\ t[n].held[m + 1] = st
    BY <1>1
  <1>3. ASSUME NEW i \in 1..n, NEW k \in 1..Len(t[i].held)
        PROVE  \/ k \in 1..Len(s[i].held) /\ t[i].held[k] = s[i].held[k]
               \/ i = n /\ k = m + 1 /\ t[i].held[k] = st
    <2>1. CASE i = n
      BY <1>2, <2>1
    <2>2. CASE i # n
      <3>0. i \in 1..n - 1
        BY <2>2
      <3>1. t[i] = s[i]
        BY <3>0
      <3> QED BY <3>1
    <2> QED BY <2>1, <2>2
  <1>4. \A i \in 1..n : t[i].prio = s[i].prio
    OBVIOUS
  <1>5. \A i \in 1..n : \A k \in 1..Len(s[i].held) :
          ceiling >= s[i].held[k].ceiling /\ s[i].held[k].ceiling \in 1..63
    BY LockTypes DEF Covered
  <1>6. Covered(t, new)
    <2> SUFFICES ASSUME NEW i \in 1..n, NEW k \in 1..Len(t[i].held)
                 PROVE  new >= t[i].held[k].ceiling
      BY DEF Covered
    <2>1. CASE k \in 1..Len(s[i].held) /\ t[i].held[k] = s[i].held[k]
      <3> DEFINE x == s[i].held[k].ceiling
      <3>1. ceiling >= x /\ x \in 1..63
        BY <1>5, <2>1
      <3> HIDE DEF x
      <3>2. new >= x
        BY <3>1
      <3> QED BY <2>1, <3>2 DEF x
    <2>2. CASE t[i].held[k] = st
      BY <2>2
    <2> QED BY <1>3, <2>1, <2>2
  <1>7. Nested(t)
    <2> SUFFICES ASSUME NEW i \in 1..n, NEW j \in 1..n, NEW k \in 1..Len(t[i].held),
                        NEW l \in 1..Len(t[j].held),
                        j < i \/ (j = i /\ l < k), t[i].held[k].prev >= 0
                 PROVE  t[i].held[k].prev >= t[j].held[l].ceiling
      BY DEF Nested
    <2>1. l \in 1..Len(s[j].held) /\ t[j].held[l] = s[j].held[l]
      <3>1. CASE j = n /\ l = m + 1
        <4>1. i = n /\ k \in 1..m + 1
          BY <1>2, <3>1
        <4> QED BY <3>1, <4>1
      <3> QED BY <1>3, <3>1
    <2>2. CASE k \in 1..Len(s[i].held) /\ t[i].held[k] = s[i].held[k]
      BY <2>1, <2>2 DEF Nested
    <2>3. CASE t[i].held[k] = st
      BY <1>5, <2>1, <2>3
    <2> QED BY <1>3, <2>2, <2>3
  <1>8. Protected(t)
    <2> SUFFICES ASSUME NEW i \in 1..n, NEW j \in 1..n, i < j, NEW k \in 1..Len(t[i].held)
                 PROVE  t[j].prio > t[i].held[k].ceiling
      BY DEF Protected
    <2>1. t[i] = s[i]
      OBVIOUS
    <2> QED BY <1>4, <2>1 DEF Protected
  <1> QED
    BY <1>6, <1>7, <1>8

LEMMA LockReleased ==
    ASSUME NEW s \in Seq(Frame), NEW t \in Seq(Frame), NEW n \in Nat,
           NEW ceiling \in 0..63, NEW new \in 0..63, NEW m \in Nat,
           Covered(s, ceiling), Nested(s), Protected(s),
           ReleasesLock(s, t, ceiling, new, n, m)
    PROVE  Covered(t, new) /\ Nested(t) /\ Protected(t)
  <1> USE DEF ReleasesLock
  <1> DEFINE h == s[n].held
  <1>1. h \in Seq(Status) /\ Len(h) > 0
    <2>1. n \in 1..Len(s)
      OBVIOUS
    <2>2. s[n].held \in Seq(Status)
      BY <2>1, LockTypes
    <2> QED BY <2>2
  <1>2. /\ Len(t[n].held) = m - 1
        /\ \A k \in 1..m - 1 : t[n].held[k] = s[n].held[k]
    <2>1. t[n].held = SubSeq(h, 1, Len(h) - 1) /\ m = Len(h)
      OBVIOUS
    <2> HIDE DEF h
    <2>2. /\ Len(SubSeq(h, 1, Len(h) - 1)) = Len(h) - 1
          /\ \A k \in 1..Len(h) - 1 : SubSeq(h, 1, Len(h) - 1)[k] = h[k]
      BY <1>1, FrontOfSeq
    <2> QED BY <2>1, <2>2 DEF h
  <1> HIDE DEF h
  <1>3. ASSUME NEW i \in 1..n, NEW k \in 1..Len(t[i].held)
        PROVE  /\ k \in 1..Len(s[i].held) /\ t[i].held[k] = s[i].held[k]
               /\ i < n \/ (i = n /\ k < m)
    <2>1. CASE i = n
      <3>1. k \in 1..m - 1
        BY <1>2, <2>1
      <3>2. k \in 1..m /\ k < m
        BY <3>1
      <3> QED BY <1>2, <2>1, <3>1, <3>2
    <2>2. CASE i # n
      <3>1. t[i] = s[i] /\ i < n
        BY <2>2
      <3> QED BY <3>1
    <2> QED BY <2>1, <2>2
  <1>4. \A i \in 1..n : t[i].prio = s[i].prio
    OBVIOUS
  <1>5. Covered(t, new)
    <2> SUFFICES ASSUME NEW i \in 1..n, NEW k \in 1..Len(t[i].held)
                 PROVE  new >= t[i].held[k].ceiling
      BY DEF Covered
    <2>1. CASE new = ceiling
      BY <1>3, <2>1 DEF Covered
    <2>2. CASE s[n].held[m].prev >= 0 /\ new = s[n].held[m].prev
      <3>1. n \in 1..Len(s) /\ m \in 1..Len(s[n].held) /\ i \in 1..Len(s)
        OBVIOUS
      <3> QED BY <1>3, <2>2, <3>1 DEF Nested
    <2> QED BY <2>1, <2>2
  <1>6. Nested(t)
    <2> SUFFICES ASSUME NEW i \in 1..n, NEW j \in 1..n, NEW k \in 1..Len(t[i].held),
                        NEW l \in 1..Len(t[j].held),
                        j < i \/ (j = i /\ l < k), t[i].held[k].prev >= 0
                 PROVE  t[i].held[k].prev >= t[j].held[l].ceiling
      BY DEF Nested
    <2> QED BY <1>3 DEF Nested
  <1>7. Protected(t)
    <2> SUFFICES ASSUME NEW i \in 1..n, NEW j \in 1..n, i < j, NEW k \in 1..Len(t[i].held)
                 PROVE  t[j].prio > t[i].held[k].ceiling
      BY DEF Protected
    <2>0. i \in 1..n - 1
      OBVIOUS
    <2>1. t[i] = s[i]
      BY <2>0
    <2> QED BY <1>4, <2>1 DEF Protected
  <1> QED
    BY <1>5, <1>6, <1>7

(* The invariant of the next state, read core by core. *)
LEMMA LockInvPrime ==
    ASSUME \A d \in Cores : /\ Covered(stack'[d], lock_ceiling')
                            /\ Nested(stack'[d])
                            /\ Protected(stack'[d])
    PROVE  LockInv'
  <1>1. ASSUME NEW d \in Cores PROVE Covered(stack[d], lock_ceiling)'
    BY DEF Covered
  <1>2. ASSUME NEW d \in Cores PROVE Nested(stack[d])'
    BY DEF Nested
  <1>3. ASSUME NEW d \in Cores PROVE Protected(stack[d])'
    BY DEF Protected
  <1> QED
    BY <1>1, <1>2, <1>3 DEF LockInv

LEMMA LockUnchanged ==
    ASSUME LockInv, stack' = stack, lock_ceiling' = lock_ceiling
    PROVE  LockInv'
  <1>1. \A d \in Cores : /\ Covered(stack'[d], lock_ceiling')
                         /\ Nested(stack'[d])
                         /\ Protected(stack'[d])
    BY DEF LockInv
  <1> QED
    BY <1>1, LockInvPrime

(* Every step of the single core keeps its locks in order. *)
LEMMA LockStep ==
    ASSUME ~SMP, IInv, LockInv, Next
    PROVE  LockInv'
  <1>0. TypeOK' /\ TypeOK /\ StackInv
    BY TypeStep DEF IInv, KInv
  <1>1. ASSUME stack' = stack, lock_ceiling' = lock_ceiling PROVE LockInv'
    BY <1>1, LockUnchanged
  <1>2. CASE start
    BY <1>1, <1>2 DEF start
  <1>3. ASSUME NEW c \in Cores, UserStep(c) \/ KernelStep(c) PROVE LockInv'
    <2> DEFINE n == Len(stack[c])
    <2>1. /\ stack \in [Cores -> Seq(Frame)]
          /\ stack[c] \in Seq(Frame) /\ stack'[c] \in Seq(Frame)
          /\ n \in Nat /\ n >= 1 /\ Len(stack[c]) > 0
          /\ Top(c) \in Frame /\ Top(c).held \in Seq(Status)
          /\ Top(c) = stack[c][n]
          /\ lock_ceiling \in 0..63 /\ lock_ceiling' \in 0..63
      BY <1>0, TopFrame DEF TypeOK, Top
    <2>2. \A d \in Cores : d = c
      BY CoresAssumption
    <2>3. Covered(stack[c], lock_ceiling) /\ Nested(stack[c]) /\ Protected(stack[c])
      BY DEF LockInv
    <2>4. ASSUME Covered(stack'[c], lock_ceiling') /\ Nested(stack'[c]) /\ Protected(stack'[c])
          PROVE  LockInv'
      BY <2>2, <2>4, LockInvPrime
    <2>5. CASE UNCHANGED <<stack, lock_ceiling>>
      BY <1>1, <2>5
    <2>6. ASSUME NEW ceiling \in Ceilings, lock_scheduler(c, ceiling) PROVE LockInv'
      <3> DEFINE prev == IF ceiling > lock_ceiling THEN lock_ceiling ELSE -1
                 st   == [prev |-> prev, ceiling |-> ceiling]
                 h    == Append(Top(c).held, st)
                 f    == [Top(c) EXCEPT !.held = h]
                 m    == Len(Top(c).held)
      <3>1. ceiling \in 1..63
        BY BoundsAssumption
      <3>2. st \in Status /\ st.ceiling = ceiling /\ (st.prev >= 0 => st.prev = lock_ceiling)
        BY <2>1, <3>1 DEF Status
      <3>3. h \in Seq(Status) /\ m \in Nat
        BY <2>1, <3>2
      <3>4. /\ stack' = SetTop(c, f)
            /\ lock_ceiling' = IF ceiling > lock_ceiling THEN ceiling ELSE lock_ceiling
        BY <2>6 DEF lock_scheduler
      <3>5. lock_ceiling' >= lock_ceiling /\ lock_ceiling' >= st.ceiling
        <4>0. lock_ceiling' = IF ceiling > lock_ceiling THEN ceiling ELSE lock_ceiling
          BY <3>4
        <4>1. lock_ceiling' >= lock_ceiling /\ lock_ceiling' >= ceiling
          <5>1. lock_ceiling \in 0..63
            BY <2>1
          <5> HIDE <3>4
          <5> QED BY <3>1, <4>0, <5>1
        <4> QED BY <3>2, <4>1
      <3> HIDE DEF st
      <3>6. h = Append(Top(c).held, st)
        OBVIOUS
      <3> HIDE DEF h
      <3>7. f \in Frame /\ f.prio = Top(c).prio /\ f.held = h
        BY <2>1, <3>3, SetHeld
      <3> HIDE DEF f
      <3>8. /\ Len(stack'[c]) = n
            /\ \A i \in 1..n - 1 : stack'[c][i] = stack[c][i]
            /\ stack'[c][n] = f
        BY <2>1, <3>4, <3>7, SetTopStack
      <3>9. /\ stack'[c][n].prio = stack[c][n].prio
            /\ stack'[c][n].held = Append(stack[c][n].held, st)
            /\ m = Len(stack[c][n].held)
        BY <2>1, <3>6, <3>7, <3>8
      <3> HIDE DEF n, m
      <3>10. n = Len(stack[c]) /\ n = Len(stack'[c])
        BY <3>8 DEF n
      <3>11. Covered(stack'[c], lock_ceiling') /\ Nested(stack'[c]) /\ Protected(stack'[c])
        <4> DEFINE s == stack[c]
                   t == stack'[c]
                   old == lock_ceiling
                   new == lock_ceiling'
        <4>1. /\ s \in Seq(Frame) /\ t \in Seq(Frame) /\ n \in Nat /\ n >= 1
              /\ old \in 0..63 /\ new \in 0..63 /\ st \in Status /\ m \in Nat
          BY <2>1, <3>2, <3>3
        <4>2. Covered(s, old) /\ Nested(s) /\ Protected(s)
          BY <2>3
        <4>3. TakesLock(s, t, old, new, st, n, m)
          BY <2>1, <3>2, <3>5, <3>8, <3>9, <3>10 DEF TakesLock
        <4> HIDE DEF s, t, old, new
        <4>5. Covered(t, new) /\ Nested(t) /\ Protected(t)
          BY <4>1, <4>2, <4>3, LockTaken
        <4> QED BY <4>5 DEF t, new
      <3> QED BY <2>4, <3>11
    <2>7. CASE unlock_scheduler(c)
      <3> DEFINE held == Top(c).held
                 m    == Len(held)
                 h    == SubSeq(held, 1, m - 1)
                 f    == [Top(c) EXCEPT !.held = h]
                 prev == held[m].prev
      <3>1. held \in Seq(Status) /\ m \in Nat /\ m >= 1 /\ m > 0
        BY <2>1, <2>7 DEF unlock_scheduler
      <3>2. /\ stack' = SetTop(c, f)
            /\ lock_ceiling' = IF prev >= 0 /\ lock_ceiling > prev THEN prev ELSE lock_ceiling
        BY <2>7 DEF unlock_scheduler, UnlockTo
      <3>3. lock_ceiling' = lock_ceiling \/ (prev >= 0 /\ lock_ceiling' = prev)
        BY <3>2
      <3>4. h \in Seq(Status)
        BY <3>1, FrontOfSeq
      <3>5. h = SubSeq(held, 1, m - 1)
        OBVIOUS
      <3> HIDE DEF h
      <3>6. f \in Frame /\ f.prio = Top(c).prio /\ f.held = h
        BY <2>1, <3>4, SetHeld
      <3> HIDE DEF f
      <3>7. /\ Len(stack'[c]) = n
            /\ \A i \in 1..n - 1 : stack'[c][i] = stack[c][i]
            /\ stack'[c][n] = f
        BY <2>1, <3>2, <3>6, SetTopStack
      <3>8. /\ stack'[c][n].prio = stack[c][n].prio
            /\ m = Len(stack[c][n].held)
            /\ stack'[c][n].held = SubSeq(stack[c][n].held, 1, m - 1)
            /\ \/ lock_ceiling' = lock_ceiling
               \/ stack[c][n].held[m].prev >= 0 /\ lock_ceiling' = stack[c][n].held[m].prev
        BY <2>1, <3>3, <3>5, <3>6, <3>7
      <3> HIDE DEF n, m
      <3>9. n = Len(stack[c]) /\ n = Len(stack'[c])
        BY <3>7 DEF n
      <3>10. Covered(stack'[c], lock_ceiling') /\ Nested(stack'[c]) /\ Protected(stack'[c])
        <4> DEFINE s == stack[c]
                   t == stack'[c]
                   old == lock_ceiling
                   new == lock_ceiling'
        <4>1. /\ s \in Seq(Frame) /\ t \in Seq(Frame) /\ n \in Nat /\ n >= 1
              /\ old \in 0..63 /\ new \in 0..63 /\ m \in Nat /\ m >= 1
          BY <2>1, <3>1 DEF m
        <4>2. Covered(s, old) /\ Nested(s) /\ Protected(s)
          BY <2>3
        <4>3. ReleasesLock(s, t, old, new, n, m)
          BY <2>1, <3>1, <3>7, <3>8, <3>9 DEF ReleasesLock, m
        <4> HIDE DEF s, t, old, new
        <4>5. Covered(t, new) /\ Nested(t) /\ Protected(t)
          BY <4>1, <4>2, <4>3, LockReleased
        <4> QED BY <4>5 DEF t, new
      <3> QED BY <2>4, <3>10
    <2>8. ASSUME NEW p \in Prios, NEW then \in {"user", "run"},
                 IsHighest(p, Eligible(c, active_threshold[c])),
                 stack' = Push(c, [prio |-> p, restore_prio |-> active_prio[c],
                             restore_threshold |-> threshold_for(active_prio[c]),
                             then |-> then, held |-> <<>>]),
                 lock_ceiling' = lock_ceiling
          PROVE  LockInv'
      <3> DEFINE f == [prio |-> p, restore_prio |-> active_prio[c],
                       restore_threshold |-> threshold_for(active_prio[c]),
                       then |-> then, held |-> <<>>]
      <3>1. active_prio[c] \in Prios \cup {0}
        BY <1>0 DEF TypeOK
      <3>2. f \in Frame /\ f.prio = p /\ f.held = <<>>
        BY <3>1, ThresholdFor DEF Frame
      <3>3. stack' = Push(c, f)
        BY <2>8
      <3> HIDE DEF f
      <3>4. /\ Len(stack'[c]) = n + 1
            /\ \A i \in 1..n : stack'[c][i] = stack[c][i]
            /\ stack'[c][n + 1] = f
        BY <2>1, <3>2, <3>3, PushStack
      <3>5. p > lock_ceiling
        BY <2>8, Picked
      <3> HIDE DEF n
      <3>6. n = Len(stack[c])
        BY DEF n
      <3>7. /\ Covered(stack'[c], lock_ceiling) /\ Nested(stack'[c]) /\ Protected(stack'[c])
        BY <2>1, <2>3, <3>2, <3>4, <3>5, <3>6, LockExtend
      <3> QED BY <2>4, <2>8, <3>7
    <2>9. ASSUME NEW then \in {"user", "run"}, plan_activation(c, then), UNCHANGED PlanFrame
          PROVE  LockInv'
      BY <1>1, <2>8, <2>9 DEF plan_activation, PlanFrame
    <2>10. CASE next_after_dispatch(c)
      <3>0. lock_ceiling' = lock_ceiling /\ pc[c] = "next"
        BY <2>10 DEF next_after_dispatch, PlanFrame
      <3>1. CASE UNCHANGED stack
        BY <1>1, <3>0, <3>1
      <3>2. ASSUME NEW p \in Prios,
                   IsHighest(p, Eligible(c, Top(c).restore_threshold)),
                   stack' = SetTop(c, [Top(c) EXCEPT !.prio = p])
            PROVE  LockInv'
        <4> DEFINE f == [Top(c) EXCEPT !.prio = p]
                   low == SubSeq(stack[c], 1, n - 1)
        <4>1. f \in Frame /\ f.prio = p /\ f.held = Top(c).held
          BY <2>1, SetPrio
        <4>2. stack' = SetTop(c, f)
          BY <3>2
        <4> HIDE DEF f
        <4>3. /\ Len(stack'[c]) = n
              /\ \A i \in 1..n - 1 : stack'[c][i] = stack[c][i]
              /\ stack'[c][n] = f
          BY <2>1, <4>1, <4>2, SetTopStack
        <4>4. p > lock_ceiling
          BY <3>2, Picked
        <4> HIDE DEF n
        <4>5. \A i \in 1..n : stack'[c][i].held = stack[c][i].held
          BY <2>1, <4>1, <4>3
        <4>6. Covered(stack'[c], lock_ceiling) /\ Nested(stack'[c])
          BY <2>3, <4>3, <4>5 DEF Covered, Nested, n
        <4>7. Protected(stack'[c])
          <5> SUFFICES ASSUME NEW i \in 1..n, NEW j \in 1..n, i < j,
                              NEW k \in 1..Len(stack[c][i].held)
                       PROVE  stack'[c][j].prio > stack[c][i].held[k].ceiling
            BY <4>3, <4>5 DEF Protected
          <5>1. CASE j # n
            <6>1. stack'[c][j] = stack[c][j]
              BY <2>1, <4>3, <5>1
            <6> QED BY <2>3, <6>1 DEF Protected, n
          <5>2. CASE j = n
            <6> DEFINE x == stack'[c][j].prio
                       y == stack[c][i].held[k].ceiling
            <6>1. x = p
              BY <4>1, <4>3, <5>2
            <6>2. lock_ceiling >= y
              BY <2>3 DEF Covered, n
            <6>3. y \in 1..63
              <7>1. i \in 1..Len(stack[c])
                BY DEF n
              <7> QED BY <2>1, <7>1, LockTypes
            <6>4. p \in 0..63
              BY ThresholdFor
            <6> HIDE DEF x, y
            <6>5. x > y
              BY <2>1, <4>4, <6>1, <6>2, <6>3, <6>4
            <6> QED BY <6>5 DEF x, y
          <5> QED BY <5>1, <5>2
        <4> QED BY <2>4, <3>0, <4>6, <4>7
      <3> QED BY <2>10, <3>1, <3>2 DEF next_after_dispatch
    <2>11. CASE restore_active(c)
      <3>1. lock_ceiling' = lock_ceiling /\ stack' = Pop(c)
        BY <2>11 DEF restore_active, Restore
      <3>2. /\ Len(stack'[c]) = n - 1
            /\ \A i \in 1..n - 1 : stack'[c][i] = stack[c][i]
        BY <2>1, <3>1, PopStack
      <3>3. Len(stack'[c]) <= Len(stack[c]) /\ \A i \in 1..Len(stack'[c]) : stack'[c][i] = stack[c][i]
        BY <2>1, <3>2
      <3>4. Covered(stack'[c], lock_ceiling) /\ Nested(stack'[c]) /\ Protected(stack'[c])
        BY <2>1, <2>3, <3>3, LockPrefix
      <3> QED BY <2>4, <3>1, <3>4
    <2>12. CASE KernelStep(c)
      <3>1. CASE PostStep(c)
        BY <2>5, <3>1, PostFrame
      <3>2. CASE dispatch_loop(c) \/ unlock_replan(c)
        BY <2>9, <3>2 DEF dispatch_loop, unlock_replan
      <3>3. CASE commit_activation(c) \/ dispatch_one(c) \/ activate_has_events(c)
        BY <2>5, <3>3 DEF commit_activation, Commit, dispatch_one, activate_has_events,
                          AfterHandler, sched
      <3>4. CASE mark_not_ready(c) \/ complete_execution(c)
        BY <2>5, <3>4 DEF mark_not_ready, ClearReady, complete_execution
      <3> QED BY <2>10, <2>11, <2>12, <3>1, <3>2, <3>3, <3>4 DEF KernelStep
    <2>13. CASE UserStep(c)
      <3>1. ASSUME NEW S \in SUBSET Prios \ {{}}, NEW then \in {"user", "run"},
                   publish(c, S, then)
            PROVE  LockInv'
        BY <2>5, <3>1 DEF publish, sched
      <3>2. CASE run_until_idle(c) \/ handler_return(c)
        BY <2>5, <3>2 DEF run_until_idle, handler_return, sched
      <3>3. CASE dispatch_once(c)
        BY <2>9, <3>3 DEF dispatch_once
      <3> QED BY <2>6, <2>7, <2>13, <3>1, <3>2, <3>3 DEF UserStep
    <2> QED BY <1>3, <2>12, <2>13
  <1>4. ASSUME NEW x \in Posters, PosterStep(x) PROVE LockInv'
    BY <1>1, <1>4, PostFrame DEF PosterStep
  <1> QED
    BY <1>2, <1>3, <1>4 DEF Next

(* lock_scheduler in the single-core build: while code holds a lock at some *)
(* ceiling, nothing at or below it runs on top of that code, for any use of *)
(* nested locks, also inside the handlers that preempt it.                  *)
THEOREM LockCeiling ==
    ASSUME ~SMP
    PROVE  Spec => []LockProtects
  <1>1. Init => LockInv
    <2> SUFFICES ASSUME Init, NEW c \in Cores
                 PROVE  /\ Covered(stack[c], lock_ceiling)
                        /\ Nested(stack[c]) /\ Protected(stack[c])
      BY DEF LockInv
    <2>1. stack[c] = <<MainLoop>>
      BY DEF Init
    <2>2. Len(stack[c]) = 1 /\ stack[c][1] = MainLoop /\ Len(MainLoop.held) = 0
      BY <2>1 DEF MainLoop
    <2> QED BY <2>2 DEF Covered, Nested, Protected
  <1>2. LockInv /\ IInv /\ [Next]_vars => LockInv'
    <2>1. ASSUME LockInv, UNCHANGED vars PROVE LockInv'
      BY <2>1, LockUnchanged DEF vars, sched
    <2> QED BY <2>1, LockStep
  <1>3. LockInv => LockProtects
    BY DEF LockInv, Protected, LockProtects
  <1> QED
    BY <1>1, <1>2, <1>3, Invariant, PTL DEF Spec

-----------------------------------------------------------------------------
(***************************************************************************)
(* Ready flags, in both builds and with any number of threads that post:   *)
(* they are right for every object to which no post overlapped a dispatch. *)
(***************************************************************************)

(* Frames whose object has had its event taken and whose ready flag has not *)
(* yet been brought up to date.                                             *)
Popped(c) ==
    {i \in 2..Len(stack[c]) : i < Len(stack[c]) \/ pc[c] \in UserPCs \cup {"check", "clear"}}

(* An object with events is ready, or is about to be marked; ... *)
Marked ==
    started => \A p \in Prios \ raced :
        queue[p] > 0 => \/ p \in ready
                        \/ \E x \in Contexts : Posting(x, p) /\ posting[x].was_empty

(* ... a ready object has events, or its flag is about to be cleared; ... *)
Justified ==
    \A p \in ready \ raced :
        queue[p] > 0 \/ \E c \in Cores : \E i \in Popped(c) : stack[c][i].prio = p

(* ... and what a post, ... *)
PostKnows(x) ==
    posting[x].target \notin raced =>
        /\ pc[x] = "mark" => posting[x].was_empty /\ queue[posting[x].target] > 0
        /\ pc[x] = "push" /\ ~posting[x].was_empty => queue[posting[x].target] > 0

(* ... or a core, found out in one critical section still holds in the next. *)
CoreKnows(c) ==
    Top(c).prio \notin raced =>
        /\ pc[c] = "clear" => /\ queue[Top(c).prio] = 0
                              /\ \A x \in Contexts : ~Posting(x, Top(c).prio)
        /\ pc[c] \in {"commit", "pop"} => queue[Top(c).prio] > 0

ReadyInv ==
    /\ Marked
    /\ Justified
    /\ \A x \in Contexts : PostKnows(x)
    /\ \A c \in Cores : CoreKnows(c)
    /\ no_event \subseteq raced
    /\ ~started => \A x \in Contexts : pc[x] = "user"

(* Frames whose event was taken are in execution. *)
LEMMA PoppedExecutes ==
    ASSUME IInv, NEW c \in Cores
    PROVE  Popped(c) \subseteq Executing(c)
  BY DEF Popped, Executing, UserPCs

(* Two cores are never at the same object between plan and give-back. *)
LEMMA OneAtATime ==
    ASSUME IInv, NEW c \in Cores, NEW d \in Cores, c # d,
           pc[c] = "pop", pc[d] \in {"commit", "pop", "clear"}
    PROVE  Top(d).prio # Top(c).prio
  <1>0. SMP
    BY CoresAssumption
  <1>1. /\ Len(stack[c]) \in Nat /\ Len(stack[c]) > 1
        /\ Len(stack[d]) \in Nat /\ Len(stack[d]) > 1
    <2>1. Len(stack[c]) \in Nat /\ Len(stack[d]) \in Nat
      BY DEF IInv, KInv, TypeOK
    <2>2. pc[c] \notin UserPCs /\ pc[d] \notin UserPCs
      BY DEF UserPCs
    <2> QED BY <2>1, <2>2 DEF IInv, KInv, CoreInv
  <1>2. Len(stack[c]) \in Executing(c)
    BY <1>1 DEF Executing
  <1>3. CASE pc[d] = "commit"
    BY <1>0, <1>2, <1>3 DEF IInv, KInv, PlanInv, Top
  <1>4. CASE pc[d] # "commit"
    <2>1. Len(stack[d]) \in Executing(d)
      BY <1>1, <1>4 DEF Executing
    <2> QED BY <1>0, <1>2, <2>1 DEF IInv, KInv, ExecInv, Top
  <1> QED BY <1>3, <1>4

(* A step of core c that touches neither queues nor flags. *)
LEMMA ReadySame ==
    ASSUME NEW c \in Cores, ReadyInv,
           UNCHANGED <<queue, ready, started, no_event, raced>>,
           \A y \in Contexts : y # c => pc'[y] = pc[y] /\ posting'[y] = posting[y],
           \A d \in Cores : d # c => stack'[d] = stack[d],
           Popped(c)' = Popped(c),
           \A i \in Popped(c) : stack'[c][i].prio = stack[c][i].prio,
           pc[c] \notin {"push", "mark"}, pc'[c] \notin {"push", "mark", "clear"},
           pc'[c] \in {"commit", "pop"} /\ Top(c)'.prio \notin raced
               => queue[Top(c)'.prio] > 0,
           ~started => pc'[c] = "user"
    PROVE  ReadyInv'
  <1>1. /\ Marked /\ Justified /\ no_event \subseteq raced
        /\ \A x \in Contexts : PostKnows(x)
        /\ \A d \in Cores : CoreKnows(d)
        /\ ~started => \A x \in Contexts : pc[x] = "user"
    BY DEF ReadyInv
  <1>2. \A x \in Contexts : \A p : Posting(x, p)' <=> Posting(x, p)
    BY DEF Posting
  <1>3. Marked'
    BY <1>1, <1>2 DEF Marked, Posting
  <1>4. Justified'
    <2>1. \A d \in Cores : d # c => Popped(d)' = Popped(d)
      BY DEF Popped
    <2> SUFFICES ASSUME NEW p \in ready \ raced, NEW d \in Cores, NEW i \in Popped(d),
                        stack[d][i].prio = p
                 PROVE  \E e \in Cores : \E j \in Popped(e)' : stack'[e][j].prio = p
      BY <1>1 DEF Justified
    <2> QED BY <2>1
  <1>5. ASSUME NEW x \in Contexts PROVE PostKnows(x)'
    BY <1>1 DEF PostKnows
  <1>6. ASSUME NEW d \in Cores PROVE CoreKnows(d)'
    <2>1. CASE d = c
      BY <2>1 DEF CoreKnows
    <2>2. CASE d # c
      <3>1. Top(d)' = Top(d) /\ pc'[d] = pc[d]
        BY <2>2 DEF Top
      <3>2. CoreKnows(d)
        BY <1>1
      <3> QED BY <1>2, <3>1, <3>2 DEF CoreKnows
    <2> QED BY <2>1, <2>2
  <1> QED
    BY <1>1, <1>3, <1>4, <1>5, <1>6 DEF ReadyInv

(* start() *)
LEMMA ReadyStart ==
    ASSUME ReadyInv, start
    PROVE  ReadyInv'
  <1>1. /\ ready' = ready \cup {p \in Prios : queue[p] > 0}
        /\ UNCHANGED <<queue, stack, pc, posting, no_event, raced>> /\ ~started /\ started'
    BY DEF start
  <1>2. Marked'
    BY <1>1 DEF Marked
  <1>3. Justified'
    <2>1. \A d \in Cores : Popped(d)' = Popped(d)
      BY <1>1 DEF Popped
    <2> QED BY <1>1, <2>1 DEF ReadyInv, Justified
  <1>4. \A x \in Contexts : PostKnows(x)'
    BY <1>1 DEF ReadyInv, PostKnows
  <1>5. \A d \in Cores : CoreKnows(d)'
    BY <1>1 DEF ReadyInv, CoreKnows, Posting, Top
  <1> QED
    BY <1>1, <1>2, <1>3, <1>4, <1>5 DEF ReadyInv

(* The three critical sections of post() and publish(), by a core, a thread *)
(* or an interrupt.                                                         *)
LEMMA ReadyPost ==
    ASSUME IInv, ReadyInv, NEW x \in Contexts, PostStep(x)
    PROVE  ReadyInv'
  <1>0. /\ Marked /\ Justified /\ no_event \subseteq raced
        /\ \A y \in Contexts : PostKnows(y)
        /\ \A d \in Cores : CoreKnows(d)
        /\ ~started => \A y \in Contexts : pc[y] = "user"
    BY DEF ReadyInv
  <1>1. /\ queue \in [Prios -> Nat] /\ pc \in [Contexts -> PCs] /\ ready \subseteq Prios
        /\ posting \in [Contexts -> PostOp] /\ posting[x] \in PostOp
    BY DEF IInv, KInv, TypeOK
  <1>2. /\ UNCHANGED <<stack, started, no_event>>
        /\ \A y \in Contexts : y # x => pc'[y] = pc[y] /\ posting'[y] = posting[y]
        /\ pc[x] \in {"post", "push", "mark"}
        /\ pc'[x] \in {"user", "run", "post", "push", "mark"}
    <2>1. pc[x] # "user"
      BY DEF PostStep, post_has_events, post_push, post_mark_ready
    <2> QED BY <2>1, PostFrame
  <1>3. started
    BY <1>0, <1>2
  <1>4. \A d \in Cores : Popped(d)' = Popped(d) /\ Top(d)' = Top(d)
    <2> TAKE d \in Cores
    <2>1. pc'[d] = pc[d] \/ (pc[d] \in UserPCs /\ pc'[d] \in UserPCs)
      BY <1>2 DEF UserPCs
    <2> QED BY <1>2, <2>1 DEF Popped, Top
  <1>5. \A d \in Cores : pc'[d] \in {"clear", "commit", "pop"} => d # x /\ pc[d] = pc'[d]
    BY <1>2
  <1>6. \A y \in Contexts : y # x => \A p : Posting(y, p)' <=> Posting(y, p)
    BY <1>2 DEF Posting
  <1>7. CASE post_has_events(x)
    <2>1. PICK p \in Prios :
            /\ posting' = [posting EXCEPT ![x].target = p, ![x].was_empty = (queue[p] = 0)]
            /\ RacedBy(p, \E d \in Cores : GivingUp(d, p))
      BY <1>7 DEF post_has_events
    <2>2. posting'[x].target = p /\ posting'[x].was_empty = (queue[p] = 0)
      <3>1. posting'[x] = [posting[x] EXCEPT !.target = p, !.was_empty = (queue[p] = 0)]
        BY <1>1, <2>1
      <3> QED BY <1>1, <3>1 DEF PostOp
    <2>3. UNCHANGED <<queue, ready>> /\ pc[x] = "post" /\ pc'[x] = "push"
      BY <1>1, <1>7 DEF post_has_events, GoTo, sched
    <2>4. raced \subseteq raced'
      BY <2>1 DEF RacedBy
    <2>5. ~Posting(x, p) /\ \A q : ~Posting(x, q)
      BY <2>3 DEF Posting
    <2>6. Marked'
      <3> SUFFICES ASSUME NEW q \in Prios \ raced, queue[q] > 0, q \notin ready
                   PROVE  \E y \in Contexts : Posting(y, q)' /\ posting'[y].was_empty
        BY <2>3, <2>4 DEF Marked
      <3>1. PICK y \in Contexts : Posting(y, q) /\ posting[y].was_empty
        BY <1>0, <1>3 DEF Marked
      <3>2. y # x
        BY <2>5, <3>1
      <3> QED BY <1>2, <1>6, <3>1, <3>2
    <2>7. Justified'
      BY <1>0, <1>2, <1>4, <2>3, <2>4 DEF Justified
    <2>8. ASSUME NEW y \in Contexts PROVE PostKnows(y)'
      <3>1. CASE y = x
        <4>1. queue[p] \in Nat
          BY <1>1
        <4>2. queue[p] = 0 => posting'[x].was_empty
          BY <2>2, Zenon
        <4>3. ~posting'[x].was_empty => queue[p] > 0
          BY <4>1, <4>2
        <4> QED BY <2>2, <2>3, <3>1, <4>3 DEF PostKnows
      <3>2. CASE y # x
        <4>1. PostKnows(y)
          BY <1>0
        <4> QED BY <1>2, <2>3, <2>4, <3>2, <4>1 DEF PostKnows
      <3> QED BY <3>1, <3>2
    <2>9. ASSUME NEW d \in Cores PROVE CoreKnows(d)'
      <3> SUFFICES ASSUME NEW q, q = Top(d).prio, q \notin raced',
                          pc'[d] \in {"clear", "commit", "pop"}
                   PROVE  /\ pc'[d] = "clear" => /\ queue[q] = 0
                                                 /\ \A y \in Contexts : ~Posting(y, q)'
                          /\ pc'[d] \in {"commit", "pop"} => queue[q] > 0
        BY <1>4, <2>3 DEF CoreKnows, Posting
      <3>1. CoreKnows(d) /\ q \notin raced /\ pc[d] = pc'[d] /\ d # x
        BY <1>0, <1>5, <2>4
      <3>2. CASE pc'[d] = "clear"
        <4>1. p # q
          BY <2>1, <3>1, <3>2 DEF RacedBy, GivingUp
        <4>2. ~Posting(x, q)'
          BY <2>2, <4>1 DEF Posting
        <4> QED BY <1>6, <3>1, <3>2, <4>2 DEF CoreKnows
      <3> QED BY <3>1, <3>2 DEF CoreKnows
    <2> QED BY <1>0, <1>2, <1>3, <2>4, <2>6, <2>7, <2>8, <2>9 DEF ReadyInv
  <1>8. CASE post_push(x)
    <2> DEFINE p == posting[x].target
    <2>1. /\ pc[x] = "push" /\ queue' = [queue EXCEPT ![p] = queue[p] + 1]
          /\ UNCHANGED <<ready, raced>>
          /\ \/ posting[x].was_empty /\ pc'[x] = "mark" /\ posting' = posting
             \/ ~posting[x].was_empty /\ pc'[x] = AfterRecipient(x)
      BY <1>1, <1>8 DEF post_push, GoTo, sched
    <2>2. p \in Prios /\ queue[p] \in Nat
      BY <1>1, <2>1 DEF IInv, KInv, CoreInv, PosterInv
    <2>3. queue'[p] = queue[p] + 1 /\ \A q \in Prios : q # p => queue'[q] = queue[q]
      BY <1>1, <2>1, <2>2
    <2>4. queue'[p] > 0 /\ \A q \in Prios : queue[q] > 0 => queue'[q] > 0
      BY <2>2, <2>3
    <2>5. Posting(x, p) /\ \A q : Posting(x, q) => q = p
      BY <2>1 DEF Posting
    <2>6. AfterRecipient(x) \in {"user", "run", "post"}
      BY <1>1 DEF PostOp, AfterRecipient
    <2>7. \A q : Posting(x, q)' => q = p
      BY <2>1, <2>6 DEF Posting
    <2>8. p \notin raced /\ ~posting[x].was_empty => queue[p] > 0
      BY <1>0, <2>1 DEF PostKnows
    <2> HIDE DEF p
    <2>9. Marked'
      <3> SUFFICES ASSUME NEW q \in Prios \ raced, queue'[q] > 0, q \notin ready
                   PROVE  \E y \in Contexts : Posting(y, q)' /\ posting'[y].was_empty
        BY <2>1 DEF Marked
      <3>1. CASE q = p /\ posting[x].was_empty
        <4>1. Posting(x, q)' /\ posting'[x].was_empty
          BY <2>1, <2>6, <3>1 DEF Posting, p
        <4> QED BY <4>1
      <3>2. CASE q # p \/ ~posting[x].was_empty
        <4>1. queue[q] > 0
          BY <2>3, <2>8, <3>2
        <4>2. PICK y \in Contexts : Posting(y, q) /\ posting[y].was_empty
          BY <1>0, <1>3, <4>1 DEF Marked
        <4>3. y # x
          BY <2>5, <3>2, <4>2
        <4> QED BY <1>2, <1>6, <4>2, <4>3
      <3> QED BY <3>1, <3>2
    <2>10. Justified'
      BY <1>0, <1>1, <1>2, <1>4, <2>1, <2>4 DEF Justified
    <2>11. ASSUME NEW y \in Contexts PROVE PostKnows(y)'
      <3>1. CASE y = x
        BY <2>1, <2>4, <2>6, <3>1 DEF PostKnows, p
      <3>2. CASE y # x
        <4>1. PostKnows(y)
          BY <1>0
        <4>2. pc[y] \in {"push", "mark"} => posting[y].target \in Prios
          BY DEF IInv, KInv, CoreInv, PosterInv
        <4> QED BY <1>2, <2>1, <2>4, <3>2, <4>1, <4>2 DEF PostKnows
      <3> QED BY <3>1, <3>2
    <2>12. ASSUME NEW d \in Cores PROVE CoreKnows(d)'
      <3> SUFFICES ASSUME NEW q, q = Top(d).prio, q \notin raced,
                          pc'[d] \in {"clear", "commit", "pop"}
                   PROVE  /\ pc'[d] = "clear" => /\ queue'[q] = 0
                                                 /\ \A y \in Contexts : ~Posting(y, q)'
                          /\ pc'[d] \in {"commit", "pop"} => queue'[q] > 0
        BY <1>4, <2>1 DEF CoreKnows, Posting
      <3>1. CoreKnows(d) /\ pc[d] = pc'[d] /\ d # x
        BY <1>0, <1>5
      <3>2. q \in Prios
        BY <3>1, Activated DEF UserPCs
      <3>3. CASE pc'[d] = "clear"
        <4>1. queue[q] = 0 /\ \A y \in Contexts : ~Posting(y, q)
          BY <3>1, <3>3 DEF CoreKnows
        <4>2. q # p
          BY <2>5, <4>1
        <4> QED BY <1>6, <2>3, <2>7, <3>2, <3>3, <4>1, <4>2
      <3> QED BY <2>4, <3>1, <3>2, <3>3 DEF CoreKnows
    <2> QED BY <1>0, <1>2, <1>3, <2>1, <2>9, <2>10, <2>11, <2>12 DEF ReadyInv
  <1>9. CASE post_mark_ready(x)
    <2> DEFINE p == posting[x].target
    <2>1. /\ pc[x] = "mark" /\ ready' = ready \cup {p} /\ UNCHANGED <<queue, raced>>
          /\ pc'[x] = AfterRecipient(x)
      BY <1>1, <1>9 DEF post_mark_ready, GoTo
    <2>2. AfterRecipient(x) \in {"user", "run", "post"}
      BY <1>1 DEF PostOp, AfterRecipient
    <2>3. p \notin raced => queue[p] > 0
      BY <1>0, <2>1 DEF PostKnows
    <2>4. \A q : Posting(x, q) => q = p
      BY DEF Posting
    <2>5. \A q : ~Posting(x, q)'
      BY <2>1, <2>2 DEF Posting
    <2> HIDE DEF p
    <2>6. Marked'
      <3> SUFFICES ASSUME NEW q \in Prios \ raced, queue[q] > 0, q \notin ready, q # p
                   PROVE  \E y \in Contexts : Posting(y, q)' /\ posting'[y].was_empty
        BY <2>1 DEF Marked
      <3>1. PICK y \in Contexts : Posting(y, q) /\ posting[y].was_empty
        BY <1>0, <1>3 DEF Marked
      <3>2. y # x
        BY <2>4, <3>1
      <3> QED BY <1>2, <1>6, <3>1, <3>2
    <2>7. Justified'
      <3>1. \A q \in ready' \ raced' : q = p \/ q \in ready \ raced
        BY <2>1
      <3> QED BY <1>0, <1>2, <1>4, <2>1, <2>3, <3>1 DEF Justified
    <2>8. ASSUME NEW y \in Contexts PROVE PostKnows(y)'
      <3>1. CASE y = x
        BY <2>1, <2>2, <3>1 DEF PostKnows
      <3>2. CASE y # x
        <4>1. PostKnows(y)
          BY <1>0
        <4> QED BY <1>2, <2>1, <3>2, <4>1 DEF PostKnows
      <3> QED BY <3>1, <3>2
    <2>9. ASSUME NEW d \in Cores PROVE CoreKnows(d)'
      <3>1. CoreKnows(d)
        BY <1>0
      <3> QED BY <1>4, <1>5, <1>6, <2>1, <2>5, <3>1 DEF CoreKnows
    <2> QED BY <1>0, <1>2, <1>3, <2>1, <2>6, <2>7, <2>8, <2>9 DEF ReadyInv
  <1> QED
    BY <1>7, <1>8, <1>9 DEF PostStep

(* A planned object has an event: nothing in execution, on this core or     *)
(* another, has its priority, so its ready flag is not one that is about to *)
(* be cleared.                                                              *)
LEMMA PlannedHasEvent ==
    ASSUME IInv, IInv', ReadyInv, NEW c \in Cores, NEW t, NEW p \in Prios \ raced,
           IsHighest(p, Eligible(c, t)),
           Popped(c) \subseteq 1..Len(stack'[c]) - 1,
           \A i \in Popped(c) : stack'[c][i].prio = stack[c][i].prio,
           Top(c)'.prio = p
    PROVE  queue[p] > 0
  <1>1. /\ p \in ready
        /\ SMP => \A d \in Cores : d # c => \A i \in Executing(d) : stack[d][i].prio # p
    BY Picked
  <1>2. ASSUME NEW i \in Popped(c), stack[c][i].prio = p PROVE FALSE
    <2> DEFINE s == stack'[c]
    <2>1. s \in Seq(Frame) /\ Len(s) \in Nat /\ GoodStack(stack[c])'
      BY DEF IInv, KInv, TypeOK, StackInv
    <2>2. GoodStack(s)
      BY <2>1 DEF GoodStack, threshold_for
    <2>3. i \in 1..Len(s) /\ Len(s) \in 1..Len(s) /\ i < Len(s)
      BY <2>1
    <2>4. s[i].prio = s[Len(s)].prio
      BY <1>2 DEF Top
    <2> HIDE DEF s
    <2> QED BY <2>1, <2>2, <2>3, <2>4, DistinctPrios
  <1>3. ASSUME NEW d \in Cores, NEW i \in Popped(d), stack[d][i].prio = p PROVE FALSE
    <2>1. CASE d = c
      BY <1>2, <1>3, <2>1
    <2>2. CASE d # c
      <3>1. SMP /\ i \in Executing(d)
        BY <2>2, PoppedExecutes, CoresAssumption
      <3> QED BY <1>1, <1>3, <2>2, <3>1
    <2> QED BY <2>1, <2>2
  <1> QED
    BY <1>1, <1>3 DEF ReadyInv, Justified

(* dispatch_one and what activate() does after it. *)
LEMMA ReadyDispatch ==
    ASSUME IInv, ReadyInv, NEW c \in Cores,
           dispatch_one(c) \/ activate_has_events(c) \/ mark_not_ready(c)
    PROVE  ReadyInv'
  <1> DEFINE n == Len(stack[c])
  <1>0. /\ Marked /\ Justified /\ no_event \subseteq raced
        /\ \A x \in Contexts : PostKnows(x)
        /\ \A d \in Cores : CoreKnows(d)
        /\ ~started => \A x \in Contexts : pc[x] = "user"
    BY DEF ReadyInv
  <1>1. /\ queue \in [Prios -> Nat] /\ pc \in [Contexts -> PCs] /\ ready \subseteq Prios
    BY DEF IInv, KInv, TypeOK
  <1>2. UNCHANGED <<stack, started, posting>> /\ pc[c] \in {"pop", "check", "clear"}
    BY DEF dispatch_one, activate_has_events, AfterHandler, mark_not_ready, ClearReady, sched
  <1>3. n \in Nat /\ n > 1 /\ Top(c).prio \in Prios /\ Top(c).prio = stack[c][n].prio
    <2>1. pc[c] \notin UserPCs
      BY <1>2 DEF UserPCs
    <2> QED BY <2>1, Activated
  <1>4. PICK p \in Prios : p = Top(c).prio
    BY <1>3
  <1>5. started
    BY <1>0, <1>2
  <1>6. /\ \E l \in {"user", "check", "clear", "complete"} : pc' = [pc EXCEPT ![c] = l]
        /\ pc'[c] \in {"user", "check", "clear", "complete"}
        /\ \A y \in Contexts : y # c => pc'[y] = pc[y]
    <2>1. \E l \in {"user", "check", "clear", "complete"} : pc' = [pc EXCEPT ![c] = l]
      BY DEF dispatch_one, activate_has_events, AfterHandler, mark_not_ready, ClearReady, GoTo
    <2> QED BY <1>1, <2>1
  <1>7. \A y \in Contexts : \A q : Posting(y, q)' <=> Posting(y, q)
    BY <1>2, <1>6 DEF Posting
  <1>8. \A d \in Cores : Top(d)' = Top(d) /\ (d # c => Popped(d)' = Popped(d))
    BY <1>2, <1>6 DEF Top, Popped
  <1>9. queue[p] \in Nat /\ \A x \in Contexts : ~Posting(x, p) => ~Posting(x, p)'
    BY <1>1, <1>7
  <1>10. CASE dispatch_one(c)
    <2>1. /\ pc[c] = "pop" /\ ready' = ready /\ RacedBy(p, \E x \in Contexts : Posting(x, p))
          /\ \/ /\ queue[p] > 0 /\ queue' = [queue EXCEPT ![p] = queue[p] - 1]
                /\ no_event' = no_event
             \/ /\ ~(queue[p] > 0) /\ no_event' = no_event \cup {p}
                /\ queue' = queue
          /\ pc'[c] \in {"user", "check"}
      BY <1>1, <1>4, <1>10 DEF dispatch_one, GoTo, sched
    <2>2. raced \subseteq raced' /\ (p \notin raced' => \A x \in Contexts : ~Posting(x, p))
      BY <2>1 DEF RacedBy
    <2>3. p \notin raced => queue[p] > 0
      BY <1>0, <1>4, <2>1 DEF CoreKnows
    <2>4. \A q \in Prios : q # p => queue'[q] = queue[q]
      BY <1>1, <2>1
    <2>5. n \in Popped(c)' /\ \A i \in Popped(c) : i \in Popped(c)'
      BY <1>2, <1>3, <2>1 DEF Popped, UserPCs
    <2> HIDE DEF n
    <2>6. Marked'
      <3> SUFFICES ASSUME NEW q \in Prios \ raced', queue'[q] > 0
                   PROVE  \/ q \in ready
                          \/ \E x \in Contexts : Posting(x, q)' /\ posting'[x].was_empty
        BY <2>1 DEF Marked
      <3>1. queue[q] > 0 /\ q \notin raced
        BY <2>2, <2>3, <2>4
      <3> QED BY <1>0, <1>2, <1>5, <1>7, <3>1 DEF Marked
    <2>7. Justified'
      <3> SUFFICES ASSUME NEW q \in ready \ raced'
                   PROVE  queue'[q] > 0 \/ \E d \in Cores : \E i \in Popped(d)' : stack[d][i].prio = q
        BY <1>2, <2>1 DEF Justified
      <3>1. CASE q = p
        BY <1>3, <1>4, <2>5, <3>1
      <3>2. CASE q # p
        <4>1. \/ queue[q] > 0
              \/ \E d \in Cores : \E i \in Popped(d) : stack[d][i].prio = q
          BY <1>0, <2>2 DEF Justified
        <4> QED BY <1>1, <1>8, <2>4, <2>5, <3>2, <4>1
      <3> QED BY <3>1, <3>2
    <2>8. ASSUME NEW x \in Contexts PROVE PostKnows(x)'
      <3> SUFFICES ASSUME NEW q, q = posting[x].target, q \notin raced',
                          pc'[x] \in {"push", "mark"}
                   PROVE  /\ pc'[x] = "mark" => posting[x].was_empty /\ queue'[q] > 0
                          /\ pc'[x] = "push" /\ ~posting[x].was_empty => queue'[q] > 0
        BY <1>2 DEF PostKnows
      <3>1. x # c /\ pc'[x] = pc[x] /\ Posting(x, q)
        BY <1>6, <2>1 DEF Posting
      <3>2. q # p /\ q \in Prios
        BY <2>2, <3>1 DEF IInv, KInv, CoreInv, PosterInv, Posting
      <3>3. PostKnows(x)
        BY <1>0
      <3> QED BY <2>2, <2>4, <3>1, <3>2, <3>3 DEF PostKnows
    <2>9. ASSUME NEW d \in Cores PROVE CoreKnows(d)'
      <3> SUFFICES ASSUME NEW q, q = Top(d).prio, q \notin raced',
                          pc'[d] \in {"clear", "commit", "pop"}
                   PROVE  /\ pc'[d] = "clear" => /\ queue'[q] = 0
                                                 /\ \A y \in Contexts : ~Posting(y, q)'
                          /\ pc'[d] \in {"commit", "pop"} => queue'[q] > 0
        BY <1>8 DEF CoreKnows, Posting
      <3>1. d # c /\ pc'[d] = pc[d] /\ q \notin raced /\ CoreKnows(d)
        BY <1>0, <1>6, <2>1, <2>2
      <3>2. q # p
        BY <1>4, <2>1, <3>1, OneAtATime
      <3>3. q \in Prios
        BY <3>1, Activated DEF UserPCs
      <3> QED BY <1>7, <2>4, <3>1, <3>2, <3>3 DEF CoreKnows
    <2>10. no_event' \subseteq raced'
      BY <1>0, <2>1, <2>2, <2>3
    <2> QED BY <1>2, <1>5, <2>6, <2>7, <2>8, <2>9, <2>10 DEF ReadyInv
  <1>11. ASSUME UNCHANGED <<queue, no_event>>, raced \subseteq raced',
                ready' \subseteq ready, \A q \in ready : q \in ready' \/ q = p,
                p \notin raced' /\ p \notin ready' => queue[p] = 0,
                pc'[c] \in {"clear", "complete"},
                n \in Popped(c)' \/ p \notin ready' \/ queue[p] > 0,
                pc'[c] = "clear" => \/ p \in raced'
                                    \/ queue[p] = 0 /\ \A x \in Contexts : ~Posting(x, p)
         PROVE  ReadyInv'
    <2>1. \A i \in Popped(c) : i \in Popped(c)' \/ i = n
      BY <1>2, <1>3 DEF Popped
    <2> HIDE DEF n
    <2>2. Marked'
      <3> SUFFICES ASSUME NEW q \in Prios \ raced', queue[q] > 0
                   PROVE  \/ q \in ready'
                          \/ \E x \in Contexts : Posting(x, q)' /\ posting'[x].was_empty
        BY <1>11 DEF Marked
      <3>1. q \in ready => q \in ready'
        BY <1>9, <1>11
      <3> QED BY <1>0, <1>2, <1>5, <1>7, <1>11, <3>1 DEF Marked
    <2>3. Justified'
      <3> SUFFICES ASSUME NEW q \in ready' \ raced'
                   PROVE  queue[q] > 0 \/ \E d \in Cores : \E i \in Popped(d)' : stack[d][i].prio = q
        BY <1>2, <1>11 DEF Justified
      <3>1. \/ queue[q] > 0
            \/ \E d \in Cores : \E i \in Popped(d) : stack[d][i].prio = q
        BY <1>0, <1>11 DEF Justified
      <3>2. ASSUME NEW d \in Cores, NEW i \in Popped(d), stack[d][i].prio = q
            PROVE  queue[q] > 0 \/ \E j \in Popped(d)' : stack[d][j].prio = q
        BY <1>3, <1>4, <1>8, <1>11, <2>1, <3>2
      <3> QED BY <3>1, <3>2
    <2>4. ASSUME NEW x \in Contexts PROVE PostKnows(x)'
      <3>1. PostKnows(x) /\ pc'[x] \in {"push", "mark"} => pc[x] = pc'[x]
        BY <1>0, <1>6, <1>11
      <3> QED BY <1>0, <1>2, <1>11, <3>1 DEF PostKnows
    <2>5. ASSUME NEW d \in Cores PROVE CoreKnows(d)'
      <3> SUFFICES ASSUME NEW q, q = Top(d).prio, q \notin raced',
                          pc'[d] \in {"clear", "commit", "pop"}
                   PROVE  /\ pc'[d] = "clear" => /\ queue[q] = 0
                                                 /\ \A y \in Contexts : ~Posting(y, q)'
                          /\ pc'[d] \in {"commit", "pop"} => queue[q] > 0
        BY <1>8, <1>11 DEF CoreKnows, Posting
      <3>1. CASE d = c
        BY <1>4, <1>7, <1>11, <3>1
      <3>2. CASE d # c
        <4>1. pc'[d] = pc[d] /\ q \notin raced /\ CoreKnows(d)
          BY <1>0, <1>6, <1>11, <3>2
        <4> QED BY <1>7, <4>1 DEF CoreKnows
      <3> QED BY <3>1, <3>2
    <2> QED BY <1>0, <1>2, <1>5, <1>11, <2>2, <2>3, <2>4, <2>5 DEF ReadyInv
  <1>12. CASE activate_has_events(c)
    <2>1. /\ pc[c] = "check" /\ UNCHANGED <<queue, ready, no_event>>
          /\ pc'[c] = IF queue[p] = 0 THEN "clear" ELSE "complete"
          /\ RacedBy(p, \E x \in Contexts : Posting(x, p))
      BY <1>1, <1>4, <1>12 DEF activate_has_events, AfterHandler, GoTo, sched
    <2>2. raced \subseteq raced' /\ (p \notin raced' => \A x \in Contexts : ~Posting(x, p))
      BY <2>1 DEF RacedBy
    <2>3. n \in Popped(c)' \/ queue[p] > 0
      BY <1>2, <1>3, <1>9, <2>1 DEF Popped, UserPCs
    <2>4. p \notin raced' /\ p \notin ready => queue[p] = 0
      <3> SUFFICES ASSUME p \notin raced', p \notin ready, queue[p] > 0 PROVE FALSE
        BY <1>9
      <3> QED BY <1>0, <1>5, <2>2 DEF Marked
    <2> HIDE DEF n
    <2> QED BY <1>11, <2>1, <2>2, <2>3, <2>4
  <1>13. CASE mark_not_ready(c)
    <2>1. /\ pc[c] = "clear" /\ UNCHANGED <<queue, no_event, raced>> /\ ready' = ready \ {p}
          /\ pc'[c] = "complete"
      BY <1>1, <1>4, <1>13 DEF mark_not_ready, ClearReady, GoTo
    <2>2. p \notin raced => queue[p] = 0
      BY <1>0, <1>4, <2>1 DEF CoreKnows
    <2> HIDE DEF n
    <2> QED BY <1>11, <2>1, <2>2
  <1> QED
    BY <1>10, <1>12, <1>13

(* Entering post() or publish(). *)
LEMMA ReadyPublish ==
    ASSUME IInv, ReadyInv, NEW x \in Contexts, NEW S \in SUBSET Prios \ {{}},
           NEW then \in {"user", "run"}, publish(x, S, then)
    PROVE  ReadyInv'
  <1>1. pc \in [Contexts -> PCs] /\ posting \in [Contexts -> PostOp]
    BY DEF IInv, KInv, TypeOK
  <1>2. /\ UNCHANGED <<queue, ready, stack, started, no_event, raced>> /\ started
        /\ pc[x] = "user" /\ pc'[x] = "post"
        /\ \A y \in Contexts : y # x => pc'[y] = pc[y] /\ posting'[y] = posting[y]
    BY <1>1 DEF publish, InUser, GoTo, sched
  <1>3. \A y \in Contexts : \A q : /\ Posting(y, q)' <=> Posting(y, q)
                                   /\ Posting(y, q) => posting'[y] = posting[y]
    BY <1>2 DEF Posting
  <1>4. \A d \in Cores : Popped(d)' = Popped(d) /\ Top(d)' = Top(d)
    BY <1>2 DEF Popped, UserPCs, Top
  <1>5. Marked'
    BY <1>2, <1>3 DEF ReadyInv, Marked
  <1>6. Justified'
    BY <1>2, <1>4 DEF ReadyInv, Justified
  <1>7. ASSUME NEW y \in Contexts PROVE PostKnows(y)'
    <2>1. PostKnows(y)
      BY DEF ReadyInv
    <2> QED BY <1>2, <2>1 DEF PostKnows
  <1>8. ASSUME NEW d \in Cores PROVE CoreKnows(d)'
    <2>1. CoreKnows(d)
      BY DEF ReadyInv
    <2> QED BY <1>2, <1>3, <1>4, <2>1 DEF CoreKnows
  <1> QED
    BY <1>2, <1>5, <1>6, <1>7, <1>8 DEF ReadyInv

(* Every step keeps the ready flags right. *)
LEMMA ReadyStep ==
    ASSUME IInv, ReadyInv, Next
    PROVE  ReadyInv'
  <1>0. IInv' /\ TypeOK /\ TypeOK' /\ StackInv
    BY IInvStep DEF IInv, KInv
  <1>1. CASE start
    BY <1>1, ReadyStart
  <1>2. ASSUME NEW c \in Cores, UserStep(c) \/ KernelStep(c) PROVE ReadyInv'
    <2> DEFINE n == Len(stack[c])
    <2>1. /\ stack \in [Cores -> Seq(Frame)]
          /\ n \in Nat /\ n >= 1 /\ Len(stack[c]) > 0
          /\ Top(c) \in Frame /\ Top(c).held \in Seq(Status)
          /\ Top(c).then \in {"user", "run"}
          /\ Top(c) = stack[c][n]
          /\ pc \in [Contexts -> PCs]
      BY <1>0, TopFrame DEF TypeOK, Top
    <2>2. \A y \in Contexts : y # c => pc'[y] = pc[y] /\ posting'[y] = posting[y]
      BY <1>0, <1>2, CoreFrame
    <2>0. \A d \in Cores : d # c => stack'[d] = stack[d]
      BY <1>0, <1>2, CoreFrame
    <2>3. pc[c] # "user" => started
      BY DEF ReadyInv
    (* User code and the kernel's bookkeeping. *)
    <2>4. ASSUME UNCHANGED <<queue, ready, started, no_event, raced>>,
                 Len(stack'[c]) = n, \A i \in 1..n : stack'[c][i].prio = stack[c][i].prio,
                 pc[c] \in UserPCs, pc[c] \notin {"push", "mark"},
                 pc'[c] \in {"user", "run", "post", "replan", "check"},
                 ~started => pc'[c] = "user"
          PROVE  ReadyInv'
      <3>1. Popped(c)' = Popped(c) /\ Popped(c) \subseteq 1..n
        BY <2>1, <2>4 DEF Popped, UserPCs
      <3>2. \A i \in Popped(c) : stack'[c][i].prio = stack[c][i].prio
        BY <2>4, <3>1
      <3>3. pc'[c] \notin {"push", "mark", "clear", "commit", "pop"}
        BY <2>4
      <3> QED BY <2>2, <2>0, <2>4, <3>1, <3>2, <3>3, ReadySame
    <2>5. ASSUME NEW S \in SUBSET Prios \ {{}}, NEW then \in {"user", "run"},
                 publish(c, S, then)
          PROVE  ReadyInv'
      BY <2>5, ReadyPublish
    <2>6. CASE run_until_idle(c) \/ handler_return(c)
      BY <2>1, <2>4, <2>6 DEF run_until_idle, handler_return, InUser, GoTo, sched, UserPCs
    <2>7. ASSUME NEW h \in Seq(Status), NEW f, f = [Top(c) EXCEPT !.held = h],
                 stack' = SetTop(c, f), started, pc[c] = "user",
                 UNCHANGED <<queue, ready, started, no_event, raced>>,
                 pc'[c] \in {"user", "replan"}
          PROVE  ReadyInv'
      <3>1. f \in Frame /\ f.prio = Top(c).prio
        BY <2>1, <2>7, SetHeld
      <3>2. stack' = SetTop(c, f)
        BY <2>7
      <3>3. /\ Len(stack'[c]) = n
            /\ \A i \in 1..n - 1 : stack'[c][i] = stack[c][i]
            /\ stack'[c][n] = f
        BY <2>1, <3>1, <3>2, SetTopStack
      <3> HIDE DEF n
      <3>4. \A i \in 1..n : stack'[c][i].prio = stack[c][i].prio
        BY <2>1, <3>1, <3>3
      <3>5. /\ UNCHANGED <<queue, ready, started, no_event, raced>> /\ started
            /\ pc[c] \in UserPCs /\ pc[c] \notin {"push", "mark"} /\ pc'[c] \in {"user", "replan"}
        BY <2>7 DEF UserPCs
      <3> QED BY <2>4, <3>3, <3>4, <3>5
    <2>8. ASSUME NEW ceiling \in Ceilings, lock_scheduler(c, ceiling) PROVE ReadyInv'
      <3> DEFINE prev == IF ceiling > lock_ceiling THEN lock_ceiling ELSE -1
                 st   == [prev |-> prev, ceiling |-> ceiling]
                 h    == Append(Top(c).held, st)
                 f    == [Top(c) EXCEPT !.held = h]
      <3>1. st \in Status
        <4>1. ceiling \in 1..63 /\ lock_ceiling \in 0..63
          BY <1>0, BoundsAssumption DEF TypeOK
        <4> QED BY <4>1 DEF Status
      <3>2. h \in Seq(Status)
        BY <2>1, <3>1
      <3>3. /\ stack' = SetTop(c, f) /\ started /\ pc[c] = "user" /\ pc' = pc
            /\ UNCHANGED <<queue, ready, started, no_event, raced>>
        BY <2>8 DEF lock_scheduler, InUser
      <3> HIDE DEF h
      <3>4. f = [Top(c) EXCEPT !.held = h]
        OBVIOUS
      <3> HIDE DEF f
      <3> QED BY <2>7, <3>2, <3>3, <3>4
    <2>9. CASE unlock_scheduler(c)
      <3> DEFINE held == Top(c).held
                 h    == SubSeq(held, 1, Len(held) - 1)
                 f    == [Top(c) EXCEPT !.held = h]
                 l    == IF held[Len(held)].prev >= 0 THEN "replan" ELSE "user"
      <3>1. held \in Seq(Status) /\ Len(held) > 0
        BY <2>1, <2>9 DEF unlock_scheduler
      <3>2. h \in Seq(Status)
        BY <3>1, FrontOfSeq
      <3>3. /\ stack' = SetTop(c, f) /\ started /\ pc[c] = "user"
            /\ UNCHANGED <<queue, ready, started, no_event, raced>>
            /\ pc' = [pc EXCEPT ![c] = l]
        BY <2>9 DEF unlock_scheduler, UnlockTo, GoTo, InUser
      <3>4. l \in {"user", "replan"}
        OBVIOUS
      <3> HIDE DEF l, h
      <3>5. pc'[c] \in {"user", "replan"}
        BY <2>1, <3>3, <3>4
      <3>6. f = [Top(c) EXCEPT !.held = h]
        OBVIOUS
      <3> HIDE DEF f
      <3> QED BY <2>7, <3>2, <3>3, <3>5, <3>6
    (* Plans. *)
    <2>10. ASSUME NEW then \in {"user", "run"}, plan_activation(c, then), UNCHANGED PlanFrame,
                  pc[c] \in {"user", "run", "replan"}, started
           PROVE  ReadyInv'
      <3>0. UNCHANGED <<queue, ready, started, no_event, raced>>
        BY <2>10 DEF PlanFrame
      <3>1. CASE GoTo(c, "user") /\ UNCHANGED stack
        BY <2>1, <2>4, <2>10, <3>0, <3>1 DEF GoTo, UserPCs
      <3>2. ASSUME NEW p \in Prios,
                   IsHighest(p, Eligible(c, active_threshold[c])),
                   stack' = Push(c, [prio |-> p, restore_prio |-> active_prio[c],
                             restore_threshold |-> threshold_for(active_prio[c]),
                             then |-> then, held |-> <<>>]),
                   GoTo(c, "commit")
            PROVE  ReadyInv'
        <4> DEFINE f == [prio |-> p, restore_prio |-> active_prio[c],
                         restore_threshold |-> threshold_for(active_prio[c]),
                         then |-> then, held |-> <<>>]
        <4>1. active_prio[c] \in Prios \cup {0}
          BY <1>0 DEF TypeOK
        <4>2. f \in Frame /\ f.prio = p
          BY <4>1, ThresholdFor DEF Frame
        <4>3. stack' = Push(c, f) /\ pc'[c] = "commit"
          BY <2>1, <3>2 DEF GoTo
        <4> HIDE DEF f
        <4>4. /\ Len(stack'[c]) = n + 1
              /\ \A i \in 1..n : stack'[c][i] = stack[c][i]
              /\ stack'[c][n + 1] = f
          BY <2>1, <4>2, <4>3, PushStack
        <4>5. Popped(c) = 2..n /\ Popped(c)' = 2..n
          BY <2>1, <2>10, <4>3, <4>4 DEF Popped, UserPCs
        <4>6. Top(c)'.prio = p /\ p \in ready
          BY <3>2, <4>2, <4>4, Picked DEF Top
        <4> HIDE DEF n
        <4>7. /\ Popped(c) \subseteq 1..Len(stack'[c]) - 1
              /\ \A i \in Popped(c) : stack'[c][i].prio = stack[c][i].prio
          BY <2>1, <4>4, <4>5
        <4>8. p \notin raced => queue[p] > 0
          BY <1>0, <3>2, <4>6, <4>7, PlannedHasEvent
        <4>9. Popped(c)' = Popped(c) /\ pc[c] \notin {"push", "mark"}
          BY <2>10, <4>5
        <4> QED BY <2>2, <2>0, <2>10, <3>0, <4>3, <4>6, <4>7, <4>8, <4>9, ReadySame
      <3> QED BY <2>10, <3>1, <3>2 DEF plan_activation
    <2>11. CASE dispatch_loop(c) \/ unlock_replan(c)
      <3>1. started
        BY <2>3, <2>11 DEF dispatch_loop, unlock_replan
      <3> QED BY <2>10, <2>11, <3>1 DEF dispatch_loop, unlock_replan
    <2>12. CASE dispatch_once(c)
      BY <2>10, <2>12 DEF dispatch_once, InUser
    <2>18. CASE commit_activation(c)
      <3>1. /\ UNCHANGED <<stack, queue, ready, started, no_event, raced>>
            /\ pc[c] = "commit" /\ pc'[c] = "pop"
        BY <2>1, <2>18 DEF commit_activation, Commit, GoTo
      <3>2. Popped(c)' = Popped(c) /\ Top(c)' = Top(c) /\ started
        BY <2>3, <3>1 DEF Popped, UserPCs, Top
      <3>3. Top(c).prio \notin raced => queue[Top(c).prio] > 0
        BY <3>1 DEF ReadyInv, CoreKnows
      <3> QED BY <2>2, <2>0, <3>1, <3>2, <3>3, ReadySame
    <2>13. CASE complete_execution(c)
      <3>1. /\ UNCHANGED <<stack, queue, ready, started, no_event, raced>>
            /\ pc[c] = "complete" /\ pc'[c] = "next"
        BY <2>1, <2>13 DEF complete_execution, GoTo
      <3>2. Popped(c)' = Popped(c) /\ started
        BY <2>3, <3>1 DEF Popped, UserPCs
      <3> QED BY <2>2, <2>0, <3>1, <3>2, ReadySame
    <2>14. CASE next_after_dispatch(c)
      <3>0. UNCHANGED <<queue, ready, started, no_event, raced>> /\ pc[c] = "next" /\ started
        BY <2>3, <2>14 DEF next_after_dispatch, PlanFrame
      <3>1. CASE GoTo(c, "restore") /\ UNCHANGED stack
        <4>1. pc'[c] = "restore"
          BY <2>1, <3>1 DEF GoTo
        <4>2. Popped(c)' = Popped(c)
          BY <3>0, <3>1, <4>1 DEF Popped, UserPCs
        <4> QED BY <2>2, <2>0, <3>0, <3>1, <4>1, <4>2, ReadySame
      <3>2. ASSUME NEW p \in Prios,
                   IsHighest(p, Eligible(c, Top(c).restore_threshold)),
                   stack' = SetTop(c, [Top(c) EXCEPT !.prio = p]),
                   GoTo(c, "commit")
            PROVE  ReadyInv'
        <4> DEFINE f == [Top(c) EXCEPT !.prio = p]
        <4>1. f \in Frame /\ f.prio = p
          BY <2>1, SetPrio
        <4>2. stack' = SetTop(c, f) /\ pc'[c] = "commit"
          BY <2>1, <3>2 DEF GoTo
        <4> HIDE DEF f
        <4>3. /\ Len(stack'[c]) = n
              /\ \A i \in 1..n - 1 : stack'[c][i] = stack[c][i]
              /\ stack'[c][n] = f
          BY <2>1, <4>1, <4>2, SetTopStack
        <4>4. Popped(c) = 2..n - 1 /\ Popped(c)' = 2..n - 1
          BY <2>1, <3>0, <4>2, <4>3 DEF Popped, UserPCs
        <4>5. Top(c)'.prio = p /\ p \in ready
          BY <3>2, <4>1, <4>3, Picked DEF Top
        <4> HIDE DEF n
        <4>6. /\ Popped(c) \subseteq 1..Len(stack'[c]) - 1
              /\ \A i \in Popped(c) : stack'[c][i].prio = stack[c][i].prio
          BY <2>1, <4>3, <4>4
        <4>7. p \notin raced => queue[p] > 0
          BY <1>0, <3>2, <4>5, <4>6, PlannedHasEvent
        <4>8. Popped(c)' = Popped(c) /\ pc[c] \notin {"push", "mark"}
          BY <3>0, <4>4
        <4> QED BY <2>2, <2>0, <3>0, <4>2, <4>5, <4>6, <4>7, <4>8, ReadySame
      <3> QED BY <2>14, <3>1, <3>2 DEF next_after_dispatch
    <2>15. CASE restore_active(c)
      <3>1. /\ UNCHANGED <<queue, ready, started, no_event, raced>> /\ pc[c] = "restore"
            /\ stack' = Pop(c) /\ pc'[c] \in {"user", "run"}
        BY <2>1, <2>15 DEF restore_active, Restore, GoTo
      <3>2. /\ Len(stack'[c]) = n - 1
            /\ \A i \in 1..n - 1 : stack'[c][i] = stack[c][i]
        BY <2>1, <3>1, PopStack
      <3>3. Popped(c) = 2..n - 1 /\ Popped(c)' = 2..n - 1
        BY <2>1, <3>1, <3>2 DEF Popped, UserPCs
      <3> HIDE DEF n
      <3>4. /\ Popped(c)' = Popped(c)
            /\ \A i \in Popped(c) : stack'[c][i].prio = stack[c][i].prio
        BY <2>1, <3>2, <3>3
      <3>5. /\ pc[c] \notin {"push", "mark"}
            /\ pc'[c] \notin {"push", "mark", "clear", "commit", "pop"}
            /\ started
        BY <2>3, <3>1
      <3> QED BY <2>2, <2>0, <3>1, <3>4, <3>5, ReadySame
    <2>16. CASE UserStep(c)
      BY <2>5, <2>6, <2>8, <2>9, <2>12, <2>16 DEF UserStep
    <2>17. CASE KernelStep(c)
      <3>1. CASE PostStep(c)
        BY <3>1, ReadyPost
      <3>2. CASE dispatch_one(c) \/ activate_has_events(c) \/ mark_not_ready(c)
        BY <3>2, ReadyDispatch
      <3> QED BY <2>11, <2>13, <2>14, <2>15, <2>17, <2>18, <3>1, <3>2 DEF KernelStep
    <2> QED BY <1>2, <2>16, <2>17
  <1>3. ASSUME NEW x \in Posters, PosterStep(x) PROVE ReadyInv'
    BY <1>3, ReadyPost, ReadyPublish DEF PosterStep
  <1> QED
    BY <1>1, <1>2, <1>3 DEF Next

(* The ready flags are right in every reachable state, of the single-core   *)
(* and of the smp build, but for objects that a post met in the middle of a *)
(* dispatch.                                                                *)
THEOREM ReadyFlags == Spec => []ReadyInv
  <1>1. Init => ReadyInv
    <2> SUFFICES ASSUME Init PROVE ReadyInv
      OBVIOUS
    <2>1. /\ ~started /\ no_event = {}
          /\ \A x \in Contexts : pc[x] = "user"
          /\ \A p \in ready : queue[p] > 0
      BY DEF Init
    <2> QED BY <2>1 DEF ReadyInv, Marked, Justified, PostKnows, CoreKnows
  <1>2. ReadyInv /\ IInv /\ [Next]_vars => ReadyInv'
    <2>1. ASSUME ReadyInv, UNCHANGED vars PROVE ReadyInv'
      BY <2>1 DEF vars, sched, ReadyInv, Marked, Justified, PostKnows, CoreKnows, Posting,
                  Popped, UserPCs, Top
    <2> QED BY <2>1, ReadyStep
  <1> QED
    BY <1>1, <1>2, Invariant, PTL DEF Spec

(* post, in both builds and with any number of threads and interrupts that  *)
(* post: an event is left in the queue of an object that is not ready only  *)
(* when a post overlapped a dispatch of that object.                        *)
THEOREM PostedIsReady == Spec => []NoLostEvent
  <1>1. ReadyInv => NoLostEvent
    BY DEF ReadyInv, Marked, NoLostEvent, Lost
  <1> QED
    BY <1>1, ReadyFlags, PTL

(* activate(), in both builds and whoever posts: its assertion that the     *)
(* object it scheduled had an event can only fail for an object that a post *)
(* met in the middle of a dispatch.                                         *)
THEOREM DispatchFindsEvent == Spec => []ScheduledHasEvent
  <1>1. ReadyInv => ScheduledHasEvent
    BY DEF ReadyInv, ScheduledHasEvent
  <1> QED
    BY <1>1, ReadyFlags, PTL

(* run_until_idle in the single-core build, whoever posts meanwhile: with   *)
(* the scheduler unlocked it returns to the main loop only when every queue *)
(* is empty, but for what is being posted at that moment and for objects    *)
(* that a post met in the middle of a dispatch.                             *)
THEOREM IdleIsDrained ==
    ASSUME ~SMP
    PROVE  Spec => RunUntilIdleDrains
  <1> DEFINE A == \A c \in Cores :
                    (/\ pc[c] = "run" /\ pc'[c] = "user"
                     /\ Len(stack[c]) = 1 /\ lock_ceiling = 0)
                    => \A p \in Prios :
                         queue[p] > 0 => p \in raced \/ \E x \in Contexts : Posting(x, p)
  <1>1. ReadyInv /\ IInv /\ [Next]_vars => [A]_vars
    <2> SUFFICES ASSUME ReadyInv, IInv, Next, NEW c \in Cores,
                        pc[c] = "run", pc'[c] = "user", Len(stack[c]) = 1, lock_ceiling = 0,
                        NEW p \in Prios, queue[p] > 0, p \notin raced,
                        \A x \in Contexts : ~Posting(x, p)
                 PROVE  FALSE
      OBVIOUS
    <2>1. started
      BY DEF ReadyInv
    <2>2. p \in ready
      BY <2>1 DEF ReadyInv, Marked
    <2>3. active_threshold[c] = 0
      <3>1. active_threshold[c] = threshold_for(Top(c).prio)
        BY DEF IInv, KInv, CoreInv
      <3>2. Top(c).prio = 0
        BY DEF IInv, KInv, StackInv, GoodStack, Top
      <3> QED BY <3>1, <3>2 DEF threshold_for
    <2>4. p \in Eligible(c, active_threshold[c])
      <3>1. p > 0
        BY RegistrationsAssumption DEF ValidRegistrations
      <3> QED BY <2>2, <2>3, <3>1 DEF Eligible, already_running
    <2>5. pc \in [Contexts -> PCs]
      BY DEF IInv, KInv, TypeOK
    <2>6. \A d \in Cores : d = c
      BY CoresAssumption
    <2>7. ~start
      BY <2>1 DEF start
    <2>8. ASSUME NEW x \in Posters, PosterStep(x) PROVE FALSE
      <3>1. x # c
        BY CoresAssumption
      <3> QED BY <2>8, <3>1, PostFrame DEF PosterStep
    <2>9. UserStep(c) \/ KernelStep(c)
      BY <2>6, <2>7, <2>8 DEF Next
    <2>10. dispatch_loop(c)
      BY <2>9 DEF UserStep, KernelStep, PostStep, publish, lock_scheduler, unlock_scheduler,
           UnlockTo, run_until_idle, dispatch_once, handler_return, InUser, post_has_events,
           post_push, post_mark_ready, unlock_replan, commit_activation, Commit, dispatch_one,
           activate_has_events, AfterHandler, mark_not_ready, ClearReady, complete_execution,
           next_after_dispatch, restore_active, Restore
    <2>11. pc'[c] = "commit"
      BY <2>4, <2>5, <2>10 DEF dispatch_loop, plan_activation, GoTo
    <2> QED BY <2>11
  <1> QED
    BY <1>1, Invariant, ReadyFlags, PTL DEF Spec, RunUntilIdleDrains

(* The single-core build when nothing but the main loop and the handlers    *)
(* posts: no post can meet a dispatch of its object half way, so post()     *)
(* keeps its promise without exception and the assertion of activate()      *)
(* never fails.                                                             *)
THEOREM AloneNothingIsLost ==
    ASSUME ~SMP, Posters = {}
    PROVE  Spec => [](PostMarksReady /\ ScheduledObjectHasEvent)
  <1> DEFINE NoRace == raced = {}
  <1>1. Init => NoRace
    BY DEF Init
  <1>2. IInv /\ NoRace /\ [Next]_vars => NoRace'
    <2> SUFFICES ASSUME IInv, NoRace, [Next]_vars
                 PROVE  NoRace'
      OBVIOUS
    <2>1. CASE UNCHANGED vars
      BY <2>1 DEF vars, ghosts
    <2>2. CASE start
      BY <2>2 DEF start, ghosts
    <2>3. ASSUME NEW c \in Cores, UserStep(c) \/ KernelStep(c)
          PROVE  NoRace'
      <3>1. Contexts = {c} /\ Cores = {c}
        BY CoresAssumption DEF Contexts
      <3>2. CASE post_has_events(c)
        <4>1. \A p \in Prios : ~(\E d \in Cores : GivingUp(d, p))
          BY <3>1, <3>2 DEF post_has_events, GivingUp
        <4> QED BY <3>2, <4>1 DEF post_has_events, RacedBy
      <3>3. CASE dispatch_one(c)
        BY <3>1, <3>3 DEF dispatch_one, RacedBy, Posting
      <3>4. CASE activate_has_events(c)
        BY <3>1, <3>4 DEF activate_has_events, AfterHandler, RacedBy, Posting
      <3>5. CASE ~post_has_events(c) /\ ~dispatch_one(c) /\ ~activate_has_events(c)
        BY <2>3, <3>5 DEF UserStep, KernelStep, PostStep, publish, lock_scheduler,
             unlock_scheduler, UnlockTo, run_until_idle, dispatch_once, handler_return,
             post_push, post_mark_ready, dispatch_loop, unlock_replan, PlanFrame,
             commit_activation, Commit, mark_not_ready, ClearReady, complete_execution,
             next_after_dispatch, restore_active, Restore, ghosts
      <3> QED BY <3>2, <3>3, <3>4, <3>5
    <2> QED BY <2>1, <2>2, <2>3 DEF Next
  <1>3. NoRace /\ NoLostEvent /\ ScheduledHasEvent => PostMarksReady /\ ScheduledObjectHasEvent
    BY DEF NoLostEvent, PostMarksReady, ScheduledHasEvent, ScheduledObjectHasEvent
  <1> QED
    BY <1>1, <1>2, <1>3, Invariant, PostedIsReady, DispatchFindsEvent, PTL DEF Spec
=============================================================================
