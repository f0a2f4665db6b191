------------------------------ MODULE QvProofs ------------------------------
(***************************************************************************)
(* Proofs about the cooperative kernel, for any objects, cores and         *)
(* posters, in both builds.                                                *)
(***************************************************************************)
EXTENDS QvKernel, TLAPS

(* A core that has claimed the object it looks at (smp), or will pop.       *)
Busy == {"recheck", "pop", "behavior", "handler", "release"}

(* What the locals of a context are worth at each point.                    *)
PcInv ==
    /\ \A t \in Posters : pc[t] = "poster"
    /\ \A c \in Cores : pc[c] # "poster"
    /\ \A c \in Cores :
        pc[c] \in {"start", "unclaimed", "claim", "check"} \cup Busy => cand[c] \in Prios
    /\ \A c \in Cores : pc[c] \in {"behavior", "handler"} => event[c] # 0
    /\ \A t \in Contexts : todo[t] # {} =>
        sent[t] # 0 /\ pc[t] \in {"start", "tick", "handler", "idle", "poster"}

(* smp build: a busy core is the one its object names.                      *)
ClaimInv ==
    smp => \A c \in Cores : pc[c] \in Busy => executing_core[cand[c]] = c

(* Single-core build: only Boot dispatches.                                 *)
SoloInv == ~smp => \A c \in Cores \ {Boot} : pc[c] = "wait"

(* Single-core build: what the search has passed was empty then.            *)
ScanInv ==
    ~smp =>
        /\ ceiling[Boot] = 0
        /\ pc[Boot] \in {"scan", "check"} =>
            \A r \in Prios : r > cand[Boot] /\ queue[r] # <<>> => r \in fresh

(* Each build keeps to its own part of dispatch_once.                       *)
SmpInv ==
    \A c \in Cores :
        /\ pc[c] \in {"unclaimed", "claim", "recheck", "release"} => smp
        /\ pc[c] = "check" => ~smp

IInv == TypeOK /\ PcInv /\ ClaimInv /\ SoloInv /\ ScanInv /\ SmpInv

LEMMA InitInv == Init => IInv
  <1> SUFFICES ASSUME Init PROVE IInv
    OBVIOUS
  <1> USE QvAssumption
  <1>1. TypeOK
    <2>1. pc \in [Contexts -> PCs]
      BY DEF Init, Contexts, PCs
    <2>2. cand \in [Cores -> Prios \cup {0}]
      BY DEF Init, IsLowest
    <2>3. queue \in [Prios -> Seq(1..MaxOps)] /\ executing_core \in [Prios -> Cores \cup {NoCore}]
      BY DEF Init
    <2>4. subscriptions \in [Signals -> SUBSET Prios] /\ todo \in [Contexts -> SUBSET Prios]
      BY DEF Init
    <2>5. smp \in Builds /\ stop_flag \in BOOLEAN /\ fresh \in SUBSET Prios
      BY DEF Init
    <2>6. ceiling \in [Cores -> 0..255] /\ event \in [Cores -> 0..MaxOps]
      BY DEF Init
    <2>7. sent \in [Contexts -> 0..MaxOps] /\ ops \in 0..MaxOps /\ sched_ceiling \in 0..255
      BY DEF Init
    <2> QED
      BY <2>1, <2>2, <2>3, <2>4, <2>5, <2>6, <2>7 DEF TypeOK
  <1>2. PcInv
    BY DEF Init, PcInv, Contexts, Busy, IsLowest
  <1>3. ClaimInv
    BY DEF Init, ClaimInv, Contexts, Busy
  <1>4. SoloInv
    BY DEF Init, SoloInv, Contexts
  <1>5. ScanInv /\ SmpInv
    BY DEF Init, ScanInv, SmpInv, Contexts
  <1> QED
    BY <1>1, <1>2, <1>3, <1>4, <1>5 DEF IInv

-----------------------------------------------------------------------------
(* Steps of the abstract specification *)

AbsStep == [Abs!Next]_(Abs!absVars)

(* running, read off a state with at most one core at work on p.            *)
LEMMA RunningValue ==
    ASSUME NEW p \in Prios
    PROVE  /\ Handling(p) = {} => running[p] = 0
           /\ \A c \in Cores : Handling(p) = {c} => running[p] = event[c]
  BY DEF running

LEMMA RunningValuePrime ==
    ASSUME NEW p \in Prios
    PROVE  /\ Handling(p)' = {} => running'[p] = 0
           /\ \A c \in Cores : Handling(p)' = {c} => running'[p] = event'[c]
  BY DEF running

(* Two cores are never at work on one object.                               *)
LEMMA Exclusive ==
    ASSUME IInv, NEW c \in Cores, NEW d \in Cores,
           pc[c] \in Busy, pc[d] \in Busy, cand[c] = cand[d]
    PROVE  c = d
  <1>1. CASE smp
    BY <1>1 DEF IInv, ClaimInv
  <1>2. CASE ~smp
    BY <1>2 DEF IInv, SoloInv, Busy
  <1> QED
    BY <1>1, <1>2

(* A step that moves nobody in or out of a handler.                         *)
LEMMA SameRunning ==
    ASSUME \A c \in Cores : pc'[c] \in {"behavior", "handler"} <=>
                            pc[c] \in {"behavior", "handler"},
           \A c \in Cores : pc[c] \in {"behavior", "handler"} =>
                            cand'[c] = cand[c] /\ event'[c] = event[c]
    PROVE  running' = running
  <1>1. \A p \in Prios : Handling(p)' = Handling(p)
    BY DEF Handling
  <1>2. \A p \in Prios : Handling(p) # {} => (CHOOSE c \in Handling(p) : TRUE) \in Handling(p)
    OBVIOUS
  <1>3. \A p \in Prios : Handling(p) # {} =>
            event'[CHOOSE c \in Handling(p) : TRUE] = event[CHOOSE c \in Handling(p) : TRUE]
    BY <1>2 DEF Handling
  <1> QED
    BY <1>1, <1>3 DEF running

LEMMA PostStep ==
    ASSUME NEW p \in Prios, NEW e \in 1..MaxOps,
           queue' = [queue EXCEPT ![p] = Append(@, e)], running' = running
    PROVE  AbsStep
  BY DEF AbsStep, Abs!Next, Abs!Post

LEMMA QuietStep ==
    ASSUME queue' = queue, running' = running
    PROVE  AbsStep
  BY DEF AbsStep, Abs!absVars

-----------------------------------------------------------------------------
(* User code *)

(* A call that changes neither queues nor anybody's locals.                 *)
LEMMA UserQuietStep ==
    ASSUME IInv, NEW t \in Contexts, InUser(t), ops < MaxOps, ops' = ops + 1,
           UNCHANGED <<smp, queue, executing_core, locals, fresh>>,
           sched_ceiling' \in 0..255,
           stop_flag' \in BOOLEAN,
           subscriptions' \in [Signals -> SUBSET Prios],
           \/ UNCHANGED publishing
           \/ \E S \in SUBSET Prios : /\ todo' = [todo EXCEPT ![t] = S]
                                     /\ sent' = [sent EXCEPT ![t] = ops + 1]
    PROVE  IInv' /\ AbsStep
  <1> USE QvAssumption
  <1>1. TypeOK'
    <2>2. ops' \in 0..MaxOps /\ ops + 1 \in 0..MaxOps
      BY DEF IInv, TypeOK
    <2>1. todo' \in [Contexts -> SUBSET Prios] /\ sent' \in [Contexts -> 0..MaxOps]
      <3>1. CASE UNCHANGED publishing
        BY <3>1 DEF IInv, TypeOK, publishing
      <3>2. ASSUME NEW S \in SUBSET Prios, todo' = [todo EXCEPT ![t] = S],
                   sent' = [sent EXCEPT ![t] = ops + 1]
            PROVE  todo' \in [Contexts -> SUBSET Prios] /\ sent' \in [Contexts -> 0..MaxOps]
        BY <2>2, <3>2 DEF IInv, TypeOK
      <3> QED
        BY <3>1, <3>2
    <2> QED
      BY <2>1, <2>2 DEF IInv, TypeOK, locals
  <1>2. PcInv'
    BY DEF IInv, PcInv, TypeOK, locals, publishing, InUser
  <1>3. ClaimInv' /\ SoloInv' /\ ScanInv' /\ SmpInv'
    BY DEF IInv, ClaimInv, SoloInv, ScanInv, SmpInv, locals
  <1>4. AbsStep
    BY SameRunning, QuietStep DEF locals
  <1> QED
    BY <1>1, <1>2, <1>3, <1>4 DEF IInv

(* An event arrives in a queue.                                             *)
LEMMA PushStep ==
    ASSUME IInv, NEW t \in Contexts, NEW p \in Prios, NEW e \in 1..MaxOps,
           Push(t, p, e),
           pc[t] \in {"start", "tick", "handler", "idle", "poster"},
           UNCHANGED <<smp, sched_ceiling, executing_core, stop_flag, subscriptions, locals, sent>>,
           ops' \in 0..MaxOps,
           \/ todo' = todo
           \/ todo' = [todo EXCEPT ![t] = @ \ {p}]
    PROVE  IInv' /\ AbsStep
  <1> USE QvAssumption
  <1>1. TypeOK'
    <2>1. todo' \in [Contexts -> SUBSET Prios]
      BY DEF IInv, TypeOK
    <2>2. queue' \in [Prios -> Seq(1..MaxOps)]
      <3>1. Append(queue[p], e) \in Seq(1..MaxOps)
        BY DEF IInv, TypeOK
      <3> QED
        BY <3>1 DEF IInv, TypeOK, Push
    <2>3. fresh' \in SUBSET Prios
      BY DEF IInv, TypeOK, Push
    <2> QED
      BY <2>1, <2>2, <2>3 DEF IInv, TypeOK, locals
  <1>2. PcInv'
    <2>1. \A d \in Contexts : todo'[d] # {} => todo[d] # {}
      <3>1. CASE todo' = todo
        BY <3>1
      <3>2. CASE todo' = [todo EXCEPT ![t] = @ \ {p}]
        <4>1. todo \in [Contexts -> SUBSET Prios]
          BY DEF IInv, TypeOK
        <4>2. \A d \in Contexts : todo'[d] = IF d = t THEN todo[d] \ {p} ELSE todo[d]
          BY ONLY <3>2, <4>1
        <4> QED
          BY ONLY <4>2
      <3> QED
        BY <3>1, <3>2
    <2> QED
      BY <2>1 DEF IInv, PcInv, locals
  <1>3. ClaimInv' /\ SoloInv' /\ SmpInv'
    BY DEF IInv, ClaimInv, SoloInv, SmpInv, locals
  <1>4. ScanInv'
    <2> SUFFICES ASSUME ~smp, pc[Boot] \in {"scan", "check"},
                        NEW r \in Prios, r > cand[Boot], queue'[r] # <<>>
                 PROVE  r \in fresh'
      BY DEF IInv, ScanInv, locals
    <2>1. t # Boot
      OBVIOUS
    <2>2. r # p => queue'[r] = queue[r]
      BY DEF IInv, TypeOK, Push
    <2> QED
      BY <2>1, <2>2 DEF IInv, ScanInv, Push
  <1>5. AbsStep
    BY SameRunning, PostStep DEF locals, Push
  <1> QED
    BY <1>1, <1>2, <1>3, <1>4, <1>5 DEF IInv

LEMMA UserSteps ==
    ASSUME IInv, NEW t \in Contexts, UserStep(t) \/ PublishStep(t)
    PROVE  IInv' /\ AbsStep
  <1> USE QvAssumption
  <1>t. /\ subscriptions \in [Signals -> SUBSET Prios]
        /\ sched_ceiling \in 0..255
        /\ stop_flag \in BOOLEAN
        /\ ops \in 0..MaxOps
        /\ sent \in [Contexts -> 0..MaxOps]
    BY DEF IInv, TypeOK
  <1>1. ASSUME NEW p \in Prios, post(t, p) PROVE IInv' /\ AbsStep
    <2>1. ops + 1 \in 1..MaxOps /\ ops' \in 0..MaxOps
      BY <1>1, <1>t DEF post, Op
    <2> QED
      BY <1>1, <2>1, PushStep DEF post, Op, InUser, publishing
  <1>2. ASSUME NEW sig \in Signals, publish(t, sig) PROVE IInv' /\ AbsStep
    <2>1. (IF PubSub THEN subscriptions[sig] \cap Prios ELSE Prios) \in SUBSET Prios
      OBVIOUS
    <2> QED
      BY <1>2, <1>t, <2>1, UserQuietStep DEF publish, Op, kernel
  <1>3. ASSUME NEW subs \in [Signals -> SUBSET Prios], Subscribe(t, subs) PROVE IInv' /\ AbsStep
    BY <1>3, <1>t, UserQuietStep DEF Subscribe, Op
  <1>4. ASSUME NEW sig \in Signals, NEW p \in Prios, subscribe(t, sig, p) PROVE IInv' /\ AbsStep
    BY <1>3, <1>4, <1>t DEF subscribe
  <1>5. ASSUME NEW sig \in Signals, NEW p \in Prios, unsubscribe(t, sig, p) PROVE IInv' /\ AbsStep
    BY <1>3, <1>5, <1>t DEF unsubscribe
  <1>6. ASSUME NEW p \in Prios, unsubscribe_all(t, p) PROVE IInv' /\ AbsStep
    BY <1>3, <1>6, <1>t DEF unsubscribe_all
  <1>7. ASSUME NEW n \in 0..255, SetCeiling(t, n) PROVE IInv' /\ AbsStep
    BY <1>7, <1>t, UserQuietStep DEF SetCeiling, Op
  <1>8. ASSUME NEW n \in Ceilings, lock_scheduler(t, n) PROVE IInv' /\ AbsStep
    BY <1>7, <1>8, <1>t DEF lock_scheduler
  <1>9. CASE unlock_scheduler(t)
    BY <1>7, <1>9 DEF unlock_scheduler
  <1>10. CASE stop(t)
    BY <1>10, <1>t, UserQuietStep DEF stop, Op
  <1>11. ASSUME NEW p \in Prios, publish_next(t, p) PROVE IInv' /\ AbsStep
    <2>1. /\ todo[t] # {}
          /\ sent[t] \in 1..MaxOps
          /\ pc[t] \in {"start", "tick", "handler", "idle", "poster"}
      BY <1>11, <1>t DEF publish_next, IInv, PcInv
    <2> QED
      BY <1>11, <1>t, <2>1, PushStep DEF publish_next
  <1> QED
    BY <1>1, <1>2, <1>4, <1>5, <1>6, <1>8, <1>9, <1>10, <1>11 DEF UserStep, PublishStep

-----------------------------------------------------------------------------
(* Steps of the cores *)

(* A step in which core c only moves, outside handlers.  The hypotheses say *)
(* what its new place and its new object have to satisfy.                   *)
LEMMA MoveStep ==
    ASSUME IInv, NEW c \in Cores, NEW l \in PCs, NEW q \in Prios \cup {0},
           todo[c] = {},
           pc' = [pc EXCEPT ![c] = l],
           cand' = [cand EXCEPT ![c] = q],
           UNCHANGED <<smp, kernel, ceiling, event, publishing, ops, fresh>>,
           pc[c] \notin {"wait", "poster"},
           l # "poster",
           l \in {"start", "unclaimed", "claim", "check"} \cup Busy => q \in Prios,
           l \in Busy => (pc[c] \in Busy /\ q = cand[c]) \/ ~smp,
           l \in {"behavior", "handler"} <=> pc[c] \in {"behavior", "handler"},
           pc[c] \in {"behavior", "handler"} => q = cand[c],
           l \in {"unclaimed", "claim", "recheck", "release"} => smp,
           l = "check" => ~smp,
           ~smp /\ c = Boot /\ l \in {"scan", "check"} =>
                \A r \in Prios : r > q /\ queue[r] # <<>> => r \in fresh
    PROVE  IInv' /\ AbsStep
  <1> USE QvAssumption
  <1>1. TypeOK'
    BY DEF IInv, TypeOK, kernel, publishing, Contexts
  <1>p. \A d \in Contexts : pc'[d] = IF d = c THEN l ELSE pc[d]
    BY DEF IInv, TypeOK, Contexts
  <1>q. \A d \in Cores : cand'[d] = IF d = c THEN q ELSE cand[d]
    BY DEF IInv, TypeOK
  <1>2. PcInv'
    BY <1>p, <1>q DEF IInv, PcInv, publishing, Contexts
  <1>3. ClaimInv'
    BY <1>p, <1>q DEF IInv, ClaimInv, kernel, Contexts
  <1>4. SoloInv' /\ SmpInv'
    BY <1>p DEF IInv, SoloInv, SmpInv, Contexts
  <1>5. ScanInv'
    BY <1>p, <1>q DEF IInv, ScanInv, kernel, Contexts
  <1>6. AbsStep
    <2>1. running' = running
      BY <1>p, <1>q, SameRunning DEF Contexts
    <2> QED
      BY <2>1, QuietStep DEF kernel
  <1> QED
    BY <1>1, <1>2, <1>3, <1>4, <1>5, <1>6 DEF IInv

(* The search goes on with the next lower object, if the one it leaves has  *)
(* no events; likewise in the smp build if it is claimed.                   *)
LEMMA ScanOnStep ==
    ASSUME IInv, NEW c \in Cores, todo[c] = {}, ScanOn(c), cand[c] \in Prios,
           UNCHANGED <<smp, kernel, ceiling, event, publishing, ops, fresh>>,
           pc[c] \in {"scan", "unclaimed"},
           ~smp => pc[c] = "scan" /\ queue[cand[c]] = <<>>
    PROVE  IInv' /\ AbsStep
  <1> USE QvAssumption
  <1>1. PICK q \in Prios \cup {0} : IsBelow(q, cand[c]) /\ cand' = [cand EXCEPT ![c] = q]
    BY DEF ScanOn
  <1>2. "scan" \in PCs /\ pc' = [pc EXCEPT ![c] = "scan"]
    BY DEF ScanOn, GoTo, PCs
  <1>n. /\ \A r \in Prios : r \in Int /\ r > 0
        /\ q \in Int
        /\ cand[c] \in Int
    <2>1. \A r \in Prios : r \in Int /\ r > 0
      BY QvAssumption
    <2>2. 0 \in Int
      OBVIOUS
    <2>3. q \in Prios \cup {0} /\ cand[c] \in Prios
      BY <1>1
    <2>4. q \in Int
      BY ONLY <2>1, <2>2, <2>3
    <2>5. cand[c] \in Int
      BY <2>1, <2>3
    <2> QED
      BY <2>1, <2>4, <2>5
  <1>3. \A r \in Prios : r > q => r >= cand[c]
    <2>1. CASE q = 0 /\ \A r \in Prios : r >= cand[c]
      BY <2>1
    <2>2. CASE \A r \in Prios : r < cand[c] => r <= q
      BY <1>n, <2>2
    <2> QED
      BY <1>1, <2>1, <2>2 DEF IsBelow
  <1>4. ~smp /\ c = Boot => \A r \in Prios : r > q /\ queue[r] # <<>> => r \in fresh
    <2> SUFFICES ASSUME ~smp, c = Boot, NEW r \in Prios, r > q, queue[r] # <<>>
                 PROVE  r \in fresh
      OBVIOUS
    <2>1. r # cand[c] /\ r >= cand[c]
      BY <1>3
    <2>2. r > cand[c]
      <3>1. r \in Int /\ cand[c] \in Int
        BY <1>n
      <3> QED
        BY ONLY <2>1, <3>1
    <2> QED
      BY <2>2 DEF IInv, ScanInv
  <1> QED
    BY <1>1, <1>2, <1>4, MoveStep DEF Busy

(* Steps that leave the object a core looks at alone.                       *)
LEMMA StayStep ==
    ASSUME IInv, NEW c \in Cores, NEW l \in PCs,
           todo[c] = {},
           pc' = [pc EXCEPT ![c] = l],
           UNCHANGED <<smp, kernel, cand, ceiling, event, publishing, ops, fresh>>,
           pc[c] \notin {"wait", "poster"},
           l # "poster",
           l \in {"start", "unclaimed", "claim", "check"} \cup Busy => cand[c] \in Prios,
           l \in Busy => pc[c] \in Busy \/ ~smp,
           l \in {"behavior", "handler"} <=> pc[c] \in {"behavior", "handler"},
           l \in {"scan", "check"} => pc[c] = "scan",
           l \in {"unclaimed", "claim", "recheck", "release"} => smp,
           l = "check" => ~smp
    PROVE  IInv' /\ AbsStep
  <1>1. cand[c] \in Prios \cup {0} /\ cand' = [cand EXCEPT ![c] = cand[c]]
    BY DEF IInv, TypeOK
  <1>2. ~smp /\ c = Boot /\ l \in {"scan", "check"} =>
            \A r \in Prios : r > cand[c] /\ queue[r] # <<>> => r \in fresh
    BY DEF IInv, ScanInv
  <1> QED
    BY <1>1, <1>2, MoveStep DEF Busy

LEMMA QuietCoreSteps ==
    ASSUME IInv, NEW c \in Cores,
           \/ start_next(c) \/ run_loop(c) \/ tick_return(c) \/ idle_return(c) \/ scan(c)
           \/ scan_unclaimed(c) \/ recheck(c) \/ check_ceiling(c) \/ on_event(c)
    PROVE  IInv' /\ AbsStep
  <1> USE DEF At, GoTo
  <1>t. cand[c] \in Prios \cup {0} /\ (cand[c] # 0 => cand[c] \in Prios)
    BY DEF IInv, TypeOK
  <1>p. pc[c] \in {"unclaimed", "claim", "check", "behavior", "handler", "recheck"} =>
            cand[c] \in Prios
    BY DEF IInv, PcInv, Busy
  <1>1. CASE start_next(c)
    <2>1. PICK q \in Prios \cup {0} :
            /\ IsAbove(q, cand[c])
            /\ cand' = [cand EXCEPT ![c] = q]
            /\ IF q = 0 THEN pc' = [pc EXCEPT ![c] = "reset"] ELSE UNCHANGED pc
      BY <1>1 DEF start_next
    <2>2. "start" \in PCs /\ "reset" \in PCs
      BY DEF PCs
    <2>3. CASE q = 0
      BY <1>1, <2>1, <2>2, <2>3, MoveStep DEF start_next, Busy
    <2>4. CASE q # 0
      <3>1. pc' = [pc EXCEPT ![c] = "start"]
        BY <1>1, <2>1, <2>4 DEF start_next, IInv, TypeOK
      <3> QED
        BY <1>1, <2>1, <2>2, <2>4, <3>1, MoveStep DEF start_next, Busy
    <2> QED
      BY <2>3, <2>4
  <1>2. CASE run_loop(c)
    BY <1>2, StayStep DEF run_loop, Busy, PCs
  <1>3. CASE tick_return(c)
    BY <1>3, StayStep DEF tick_return, Busy, PCs
  <1>4. CASE idle_return(c)
    BY <1>4, StayStep DEF idle_return, IdleReturn, Busy, PCs
  <1>5. CASE scan(c)
    <2>1. CASE cand[c] = 0
      BY <1>5, <2>1, StayStep DEF scan, Busy, PCs
    <2>2. CASE cand[c] # 0 /\ cand[c] > ceiling[c] /\ queue[cand[c]] # <<>>
      BY <1>5, <1>t, <2>2, StayStep DEF scan, Busy, PCs
    <2>3. CASE cand[c] # 0 /\ ~(cand[c] > ceiling[c] /\ queue[cand[c]] # <<>>)
      <3>1. ~smp => queue[cand[c]] = <<>>
        <4> SUFFICES ASSUME ~smp PROVE queue[cand[c]] = <<>>
          OBVIOUS
        <4>1. c = Boot
          BY <1>5 DEF scan, IInv, SoloInv
        <4>2. ceiling[c] = 0
          BY <4>1 DEF IInv, ScanInv
        <4>3. cand[c] > 0
          <5>1. \A r \in Prios : r > 0
            BY QvAssumption
          <5> QED
            BY <2>3, <1>t, <5>1
        <4>4. cand[c] > ceiling[c]
          BY <4>2, <4>3
        <4> QED
          BY <2>3, <4>4
      <3> QED
        BY <1>5, <1>t, <2>3, <3>1, ScanOnStep DEF scan
    <2> QED
      BY <2>1, <2>2, <2>3
  <1>6. CASE scan_unclaimed(c)
    <2>s. smp
      BY <1>6 DEF scan_unclaimed, IInv, SmpInv
    <2>1. CASE executing_core[cand[c]] = NoCore
      BY <1>6, <1>p, <2>1, <2>s, StayStep DEF scan_unclaimed, Busy, PCs
    <2>2. CASE executing_core[cand[c]] # NoCore
      BY <1>6, <1>p, <2>2, <2>s, ScanOnStep DEF scan_unclaimed
    <2> QED
      BY <2>1, <2>2
  <1>7. CASE recheck(c)
    <2>s. smp
      BY <1>7 DEF recheck, IInv, SmpInv
    <2> QED
      BY <1>7, <1>p, <2>s, StayStep DEF recheck, Busy, PCs
  <1>8. CASE check_ceiling(c)
    <2>1. ~smp
      BY <1>8 DEF check_ceiling, IInv, SmpInv
    <2> QED
      BY <1>8, <1>p, <2>1, StayStep DEF check_ceiling, Busy, PCs
  <1>9. CASE on_event(c)
    BY <1>9, <1>p, StayStep DEF on_event, Busy, PCs
  <1> QED
    BY <1>1, <1>2, <1>3, <1>4, <1>5, <1>6, <1>7, <1>8, <1>9

(* run() clears stop_flag, and the other cores of the smp build set off.    *)
LEMMA ResetStep ==
    ASSUME IInv, NEW c \in Cores, run_reset(c)
    PROVE  IInv' /\ AbsStep
  <1> USE QvAssumption
  <1>u. UNCHANGED <<smp, queue, sched_ceiling, executing_core, subscriptions, cand, ceiling,
                    event, publishing, ops, fresh>>
    BY DEF run_reset
  <1>c. pc[c] = "reset"
    BY DEF run_reset, At
  <1>p. \A d \in Contexts : pc'[d] = IF d = c \/ (smp /\ pc[d] = "wait") THEN "loop" ELSE pc[d]
    BY DEF run_reset
  <1>1. TypeOK'
    <2>1. pc' \in [Contexts -> PCs]
      BY DEF run_reset, IInv, TypeOK, PCs
    <2>2. stop_flag' \in BOOLEAN
      BY DEF run_reset
    <2> QED
      BY <1>u, <2>1, <2>2 DEF IInv, TypeOK, publishing
  <1>2. PcInv'
    BY <1>u, <1>c, <1>p DEF IInv, PcInv, publishing, Contexts, Busy
  <1>3. ClaimInv'
    BY <1>u, <1>p DEF IInv, ClaimInv, Contexts, Busy
  <1>4. SoloInv'
    BY <1>u, <1>c, <1>p DEF IInv, SoloInv, Contexts
  <1>5. ScanInv' /\ SmpInv'
    BY <1>u, <1>p DEF IInv, ScanInv, SmpInv, Contexts
  <1>6. AbsStep
    <2>1. \A d \in Cores : pc'[d] \in {"behavior", "handler"} <=>
                            pc[d] \in {"behavior", "handler"}
      BY <1>c, <1>p DEF Contexts
    <2>2. running' = running
      BY <1>u, <2>1, SameRunning
    <2> QED
      BY <1>u, <2>2, QuietStep
  <1> QED
    BY <1>1, <1>2, <1>3, <1>4, <1>5, <1>6 DEF IInv

(* A new search begins above every object.                                  *)
LEMMA BeginStep ==
    ASSUME IInv, NEW c \in Cores, dispatch_once(c)
    PROVE  IInv' /\ AbsStep
  <1> USE QvAssumption
  <1>0. PICK q \in Prios : IsHighest(q) /\ BeginScan(c, q)
    BY DEF dispatch_once
  <1>u. UNCHANGED <<smp, kernel, event, publishing, ops>>
    BY <1>0 DEF BeginScan
  <1>c. pc[c] = "begin" /\ todo[c] = {}
    BY <1>0 DEF BeginScan, At
  <1>p. \A d \in Contexts : pc'[d] = IF d = c THEN "scan" ELSE pc[d]
    BY <1>0 DEF BeginScan, GoTo, IInv, TypeOK, Contexts
  <1>q. \A d \in Cores : cand'[d] = IF d = c THEN q ELSE cand[d]
    BY <1>0 DEF BeginScan, IInv, TypeOK
  <1>1. TypeOK'
    <2>1. pc' \in [Contexts -> PCs]
      BY <1>0 DEF BeginScan, GoTo, IInv, TypeOK, PCs
    <2>2. cand' \in [Cores -> Prios \cup {0}]
      BY <1>0 DEF BeginScan, IInv, TypeOK
    <2>3. ceiling' \in [Cores -> 0..255]
      <3>1. (IF smp THEN sched_ceiling ELSE 0) \in 0..255
        BY DEF IInv, TypeOK
      <3> QED
        BY <1>0, <3>1 DEF BeginScan, IInv, TypeOK
    <2>4. fresh' \in SUBSET Prios
      BY <1>0 DEF BeginScan, IInv, TypeOK
    <2> QED
      BY <1>u, <2>1, <2>2, <2>3, <2>4 DEF IInv, TypeOK, kernel, publishing
  <1>2. PcInv'
    BY <1>u, <1>c, <1>p, <1>q DEF IInv, PcInv, publishing, Contexts, Busy
  <1>3. ClaimInv'
    BY <1>u, <1>p, <1>q DEF IInv, ClaimInv, kernel, Contexts, Busy
  <1>4. SoloInv' /\ SmpInv'
    BY <1>u, <1>c, <1>p DEF IInv, SoloInv, SmpInv, Contexts
  <1>5. ScanInv'
    <2> SUFFICES ASSUME ~smp PROVE ScanInv'
      BY <1>u DEF ScanInv
    <2>1. c = Boot
      BY <1>c DEF IInv, SoloInv
    <2>2. ceiling'[Boot] = 0
      BY <1>0, <2>1 DEF BeginScan, IInv, TypeOK
    <2>3. \A r \in Prios : ~(r > q)
      <3>1. \A r \in Prios : r \in Int
        OBVIOUS
      <3>2. \A r \in Prios : r <= q
        BY <1>0 DEF IsHighest
      <3>3. q \in Int
        BY <3>1
      <3>4. \A r \in Int : r <= q => ~(r > q)
        BY <3>3
      <3> QED
        BY <3>1, <3>2, <3>4
    <2> QED
      BY <1>q, <2>1, <2>2, <2>3 DEF ScanInv
  <1>6. AbsStep
    <2>1. running' = running
      BY <1>u, <1>c, <1>p, <1>q, SameRunning DEF Contexts
    <2> QED
      BY <1>u, <2>1, QuietStep DEF kernel
  <1> QED
    BY <1>1, <1>2, <1>3, <1>4, <1>5, <1>6 DEF IInv

(* The compare-exchange gives c an object nobody works on.                  *)
LEMMA ClaimStep ==
    ASSUME IInv, NEW c \in Cores, claim(c)
    PROVE  IInv' /\ AbsStep
  <1> USE QvAssumption
  <1>c. pc[c] = "claim" /\ todo[c] = {} /\ cand[c] \in Prios /\ smp
    BY DEF claim, ClaimIf, At, IInv, PcInv, SmpInv
  <1>1. CASE executing_core[cand[c]] # NoCore
    BY <1>c, <1>1, StayStep DEF claim, ClaimIf, GoTo, kernel, Busy, PCs
  <1>2. CASE executing_core[cand[c]] = NoCore
    <2> DEFINE p == cand[c]
    <2>u. UNCHANGED <<smp, queue, sched_ceiling, stop_flag, subscriptions, cand, ceiling, event,
                      publishing, ops, fresh>>
      BY DEF claim, ClaimIf
    <2>p. \A d \in Contexts : pc'[d] = IF d = c THEN "recheck" ELSE pc[d]
      BY <1>2 DEF claim, ClaimIf, GoTo, IInv, TypeOK, Contexts
    <2>x. \A r \in Prios : executing_core'[r] = IF r = p THEN c ELSE executing_core[r]
      BY <1>2 DEF claim, ClaimIf, IInv, TypeOK
    <2>1. TypeOK'
      <3>1. pc' \in [Contexts -> PCs]
        BY <1>2 DEF claim, ClaimIf, GoTo, IInv, TypeOK, PCs
      <3>2. executing_core' \in [Prios -> Cores \cup {NoCore}]
        BY <1>2 DEF claim, ClaimIf, IInv, TypeOK
      <3> QED
        BY <2>u, <3>1, <3>2 DEF IInv, TypeOK, publishing
    <2>2. PcInv'
      BY <1>c, <2>u, <2>p DEF IInv, PcInv, publishing, Contexts, Busy
    <2>3. ClaimInv'
      <3> SUFFICES ASSUME NEW d \in Cores, pc'[d] \in Busy
                   PROVE  executing_core'[cand[d]] = d
        BY <2>u DEF ClaimInv
      <3>1. CASE d = c
        BY <1>c, <2>x, <3>1
      <3>2. CASE d # c
        <4>1. pc[d] \in Busy /\ cand[d] \in Prios
          BY <2>p, <3>2 DEF Contexts, IInv, PcInv
        <4>2. executing_core[cand[d]] = d
          BY <1>c, <4>1 DEF IInv, ClaimInv
        <4>3. cand[d] # p
          BY <1>2, <4>2
        <4> QED
          BY <2>x, <4>1, <4>2, <4>3
      <3> QED
        BY <3>1, <3>2
    <2>4. SoloInv' /\ ScanInv' /\ SmpInv'
      BY <1>c, <2>u, <2>p DEF IInv, SoloInv, ScanInv, SmpInv, Contexts
    <2>5. AbsStep
      <3>1. running' = running
        BY <1>c, <2>u, <2>p, SameRunning DEF Contexts
      <3> QED
        BY <2>u, <3>1, QuietStep
    <2> QED
      BY <2>1, <2>2, <2>3, <2>4, <2>5 DEF IInv
  <1> QED
    BY <1>1, <1>2

(* A step of core c concerns no object but the one it looks at.             *)
LEMMA OtherRunning ==
    ASSUME IInv, NEW c \in Cores, cand' = cand,
           \A d \in Cores \ {c} : pc'[d] = pc[d] /\ event'[d] = event[d]
    PROVE  \A r \in Prios : r # cand[c] => running'[r] = running[r]
  <1> SUFFICES ASSUME NEW r \in Prios, r # cand[c] PROVE running'[r] = running[r]
    OBVIOUS
  <1>1. Handling(r)' = Handling(r) /\ c \notin Handling(r)
    BY DEF Handling
  <1>2. CASE Handling(r) = {}
    BY <1>1, <1>2, RunningValue, RunningValuePrime
  <1>3. CASE Handling(r) # {}
    <2>1. PICK d \in Handling(r) : TRUE
      BY <1>3
    <2>2. d \in Cores \ {c} /\ pc[d] \in Busy
      BY <1>1, <2>1 DEF Handling, Busy
    <2>3. Handling(r) = {d}
      <3> SUFFICES ASSUME NEW d2 \in Handling(r) PROVE d2 = d
        BY <2>1
      <3>1. d2 \in Cores /\ pc[d2] \in Busy /\ cand[d2] = cand[d]
        BY <2>1 DEF Handling, Busy
      <3> QED
        BY <2>2, <3>1, Exclusive
    <2>4. running[r] = event[d]
      BY <2>2, <2>3, RunningValue
    <2>5. running'[r] = event'[d]
      BY <1>1, <2>2, <2>3, RunningValuePrime
    <2> QED
      BY <2>2, <2>4, <2>5
  <1> QED
    BY <1>2, <1>3

(* Nobody else is at work on the object of a busy core.                     *)
LEMMA OwnHandling ==
    ASSUME IInv, NEW c \in Cores, pc[c] \in Busy
    PROVE  Handling(cand[c]) = IF pc[c] \in {"behavior", "handler"} THEN {c} ELSE {}
  <1>1. \A d \in Handling(cand[c]) : d = c
    BY Exclusive DEF Handling, Busy
  <1> QED
    BY <1>1 DEF Handling

LEMMA HeadTail ==
    ASSUME NEW S, NEW s \in Seq(S), s # <<>>
    PROVE  Head(s) \in S /\ Tail(s) \in Seq(S)
  OBVIOUS

(* running changes for one object only.                                     *)
LEMMA RunningChange ==
    ASSUME NEW p \in Prios, NEW v, running'[p] = v,
           \A r \in Prios : r # p => running'[r] = running[r]
    PROVE  running' = [running EXCEPT ![p] = v]
  <1>1. running = [r \in Prios |-> running[r]] /\ DOMAIN running = Prios
    BY DEF running
  <1>2. running' = [r \in Prios |-> running'[r]]
    BY DEF running
  <1>3. [running EXCEPT ![p] = v] = [r \in Prios |-> IF r = p THEN v ELSE running[r]]
    BY <1>1
  <1> QED
    BY <1>2, <1>3

(* dispatch_one takes the oldest event of an object nobody works on.        *)
LEMMA PopStep ==
    ASSUME IInv, NEW c \in Cores, pop_event(c)
    PROVE  IInv' /\ AbsStep
  <1> USE QvAssumption
  <1>c. pc[c] = "pop" /\ todo[c] = {} /\ cand[c] \in Prios /\ pc[c] \in Busy
    BY DEF pop_event, At, IInv, PcInv, Busy
  <1>1. CASE queue[cand[c]] = <<>>
    BY <1>c, <1>1, StayStep DEF pop_event, GoTo, kernel, Busy, PCs
  <1>2. CASE queue[cand[c]] # <<>>
    <2>0. PICK p \in Prios : p = cand[c]
      BY <1>c
    <2>e. PICK e : e = Head(queue[p])
      OBVIOUS
    <2>t. e \in 1..MaxOps /\ Tail(queue[p]) \in Seq(1..MaxOps)
      <3>1. queue[p] \in Seq(1..MaxOps) /\ queue[p] # <<>>
        BY <1>2, <2>0 DEF IInv, TypeOK
      <3> QED
        BY <2>e, <3>1, HeadTail
    <2>u. UNCHANGED <<smp, sched_ceiling, executing_core, stop_flag, subscriptions, cand,
                      ceiling, publishing, ops, fresh>>
      BY DEF pop_event
    <2>f. /\ queue' = [queue EXCEPT ![p] = Tail(queue[p])]
          /\ event' = [event EXCEPT ![c] = e]
          /\ pc' = [pc EXCEPT ![c] = "behavior"]
      BY <1>2, <2>0, <2>e DEF pop_event, GoTo
    <2>p. \A d \in Contexts : pc'[d] = IF d = c THEN "behavior" ELSE pc[d]
      BY <2>f DEF IInv, TypeOK, Contexts
    <2>v. \A d \in Cores : event'[d] = IF d = c THEN e ELSE event[d]
      BY <2>f DEF IInv, TypeOK
    <2>1. TypeOK'
      <3>1. pc' \in [Contexts -> PCs]
        BY <2>f DEF IInv, TypeOK, PCs
      <3>2. queue' \in [Prios -> Seq(1..MaxOps)]
        BY <2>f, <2>t DEF IInv, TypeOK
      <3>3. event' \in [Cores -> 0..MaxOps]
        <4>1. e \in 0..MaxOps
          BY <2>t
        <4> QED
          BY <2>f, <4>1 DEF IInv, TypeOK
      <3> QED
        BY <2>u, <3>1, <3>2, <3>3 DEF IInv, TypeOK, publishing
    <2>2. PcInv'
      <3>1. e # 0
        BY <2>t
      <3> QED
        BY <1>c, <2>u, <2>p, <2>v, <3>1 DEF IInv, PcInv, publishing, Contexts, Busy
    <2>3. ClaimInv'
      BY <1>c, <2>u, <2>p DEF IInv, ClaimInv, Contexts, Busy
    <2>4. SoloInv' /\ SmpInv'
      BY <1>c, <2>u, <2>p DEF IInv, SoloInv, SmpInv, Contexts
    <2>5. ScanInv'
      BY <1>c, <2>u, <2>p DEF IInv, SoloInv, ScanInv, Contexts
    <2>6. AbsStep
      <3>1. Handling(p) = {}
        BY <1>c, <2>0, OwnHandling
      <3>2. running[p] = 0
        BY <3>1, RunningValue
      <3>3. Handling(p)' = {c}
        BY <2>0, <2>p, <2>u, <3>1 DEF Handling, Contexts
      <3>4. running'[p] = e
        BY <2>v, <3>3, RunningValuePrime
      <3>5. \A r \in Prios : r # p => running'[r] = running[r]
        BY <2>0, <2>p, <2>u, <2>v, OtherRunning DEF Contexts
      <3>6. running' = [running EXCEPT ![p] = e]
        BY <3>4, <3>5, RunningChange
      <3>7. Abs!Begin(p)
        BY <1>2, <2>0, <2>e, <2>f, <3>2, <3>6 DEF Abs!Begin
      <3> QED
        BY <3>7 DEF AbsStep, Abs!Next
    <2> QED
      BY <2>1, <2>2, <2>3, <2>4, <2>5, <2>6 DEF IInv
  <1> QED
    BY <1>1, <1>2

(* The handler returns: its object is done with the event.                  *)
LEMMA ReturnStep ==
    ASSUME IInv, NEW c \in Cores, handler_return(c)
    PROVE  IInv' /\ AbsStep
  <1> USE QvAssumption
  <1>c. pc[c] = "handler" /\ todo[c] = {} /\ cand[c] \in Prios /\ pc[c] \in Busy
    BY DEF handler_return, At, IInv, PcInv, Busy
  <1>u. UNCHANGED <<smp, kernel, cand, ceiling, publishing, ops, fresh>>
    BY DEF handler_return
  <1>0. PICK p \in Prios : p = cand[c]
    BY <1>c
  <1>l. PICK l \in PCs, e \in 0..MaxOps :
            /\ pc' = [pc EXCEPT ![c] = l]
            /\ event' = [event EXCEPT ![c] = e]
            /\ l = IF smp THEN "release" ELSE "begin"
    <2>1. CASE smp
      <3>1. event[c] \in 0..MaxOps /\ event' = [event EXCEPT ![c] = event[c]]
        BY <2>1 DEF handler_return, IInv, TypeOK
      <3> QED
        BY <2>1, <3>1 DEF handler_return, GoTo, PCs
    <2>2. CASE ~smp
      <3>1. 0 \in 0..MaxOps
        OBVIOUS
      <3> QED
        BY <2>2, <3>1 DEF handler_return, GoTo, PCs
    <2> QED
      BY <2>1, <2>2
  <1>p. \A d \in Contexts : pc'[d] = IF d = c THEN l ELSE pc[d]
    BY <1>l DEF IInv, TypeOK, Contexts
  <1>v. \A d \in Cores : d # c => event'[d] = event[d]
    BY <1>l DEF IInv, TypeOK
  <1>1. TypeOK'
    <2>1. pc' \in [Contexts -> PCs]
      BY <1>l DEF IInv, TypeOK
    <2>2. event' \in [Cores -> 0..MaxOps]
      BY <1>l DEF IInv, TypeOK
    <2> QED
      BY <1>u, <2>1, <2>2 DEF IInv, TypeOK, kernel, publishing
  <1>2. PcInv'
    BY <1>c, <1>u, <1>l, <1>p, <1>v DEF IInv, PcInv, publishing, Contexts, Busy
  <1>3. ClaimInv'
    BY <1>c, <1>u, <1>p DEF IInv, ClaimInv, kernel, Contexts, Busy
  <1>4. SoloInv' /\ SmpInv'
    BY <1>c, <1>u, <1>l, <1>p DEF IInv, SoloInv, SmpInv, Contexts
  <1>5. ScanInv'
    BY <1>c, <1>u, <1>l, <1>p DEF IInv, SoloInv, ScanInv, kernel, Contexts
  <1>6. AbsStep
    <2>1. Handling(p) = {c}
      BY <1>c, <1>0, OwnHandling
    <2>2. running[p] = event[c] /\ event[c] # 0
      BY <1>c, <2>1, RunningValue DEF IInv, PcInv
    <2>3. Handling(p)' = {}
      BY <1>0, <1>l, <1>p, <1>u, <2>1 DEF Handling, Contexts
    <2>4. running'[p] = 0
      BY <2>3, RunningValuePrime
    <2>5. \A r \in Prios : r # p => running'[r] = running[r]
      BY <1>0, <1>p, <1>u, <1>v, OtherRunning DEF Contexts
    <2>6. running' = [running EXCEPT ![p] = 0]
      BY <2>4, <2>5, RunningChange
    <2>7. Abs!End(p)
      BY <1>u, <2>2, <2>6 DEF Abs!End, kernel
    <2> QED
      BY <2>7 DEF AbsStep, Abs!Next
  <1> QED
    BY <1>1, <1>2, <1>3, <1>4, <1>5, <1>6 DEF IInv

(* The claim ends; no other core had it.                                    *)
LEMMA ReleaseStep ==
    ASSUME IInv, NEW c \in Cores, release(c)
    PROVE  IInv' /\ AbsStep
  <1> USE QvAssumption
  <1>c. pc[c] = "release" /\ todo[c] = {} /\ cand[c] \in Prios /\ pc[c] \in Busy /\ smp
    BY DEF release, Release, At, IInv, PcInv, SmpInv, Busy
  <1>u. UNCHANGED <<smp, queue, sched_ceiling, stop_flag, subscriptions, cand, ceiling,
                    publishing, ops, fresh>>
    BY DEF release, Release
  <1>l. PICK l \in {"begin", "idle"} : pc' = [pc EXCEPT ![c] = l]
    BY DEF release, Release, GoTo
  <1>p. \A d \in Contexts : pc'[d] = IF d = c THEN l ELSE pc[d]
    BY <1>l DEF IInv, TypeOK, Contexts
  <1>v. \A d \in Cores : d # c => event'[d] = event[d]
    BY DEF release, Release, IInv, TypeOK
  <1>x. \A r \in Prios : r # cand[c] => executing_core'[r] = executing_core[r]
    BY DEF release, Release, IInv, TypeOK
  <1>1. TypeOK'
    <2>1. pc' \in [Contexts -> PCs]
      BY <1>l DEF IInv, TypeOK, PCs
    <2>2. event' \in [Cores -> 0..MaxOps]
      <3>1. 0 \in 0..MaxOps
        OBVIOUS
      <3> QED
        BY <3>1 DEF release, Release, IInv, TypeOK
    <2>3. executing_core' \in [Prios -> Cores \cup {NoCore}]
      BY DEF release, Release, IInv, TypeOK
    <2> QED
      BY <1>u, <2>1, <2>2, <2>3 DEF IInv, TypeOK, publishing
  <1>2. PcInv'
    BY <1>c, <1>u, <1>p, <1>v DEF IInv, PcInv, publishing, Contexts, Busy
  <1>3. ClaimInv'
    <2> SUFFICES ASSUME NEW d \in Cores, pc'[d] \in Busy
                 PROVE  executing_core'[cand[d]] = d
      BY <1>u DEF ClaimInv
    <2>1. d # c /\ pc[d] \in Busy /\ cand[d] \in Prios
      BY <1>p DEF Contexts, Busy, IInv, PcInv
    <2>2. cand[d] # cand[c]
      BY <1>c, <2>1, Exclusive
    <2>3. executing_core[cand[d]] = d
      BY <1>c, <2>1 DEF IInv, ClaimInv
    <2> QED
      BY <1>x, <2>1, <2>2, <2>3
  <1>4. SoloInv' /\ ScanInv'
    BY <1>c, <1>u DEF SoloInv, ScanInv
  <1>5. SmpInv'
    BY <1>u, <1>p DEF IInv, SmpInv, Contexts
  <1>6. AbsStep
    <2>1. running' = running
      BY <1>c, <1>u, <1>p, <1>v, SameRunning DEF Contexts
    <2> QED
      BY <1>u, <2>1, QuietStep
  <1> QED
    BY <1>1, <1>2, <1>3, <1>4, <1>5, <1>6 DEF IInv

-----------------------------------------------------------------------------
(* Theorems *)

LEMMA NextInv == IInv /\ [Next]_vars => IInv' /\ AbsStep
  <1> SUFFICES ASSUME IInv, [Next]_vars PROVE IInv' /\ AbsStep
    OBVIOUS
  <1>1. ASSUME NEW t \in Contexts, UserStep(t) \/ PublishStep(t) PROVE IInv' /\ AbsStep
    BY <1>1, UserSteps
  <1>2. ASSUME NEW c \in Cores, CoreStep(c) PROVE IInv' /\ AbsStep
    BY <1>2, QuietCoreSteps, ResetStep, BeginStep, ClaimStep, PopStep, ReturnStep, ReleaseStep
       DEF CoreStep
  <1>3. CASE UNCHANGED vars
    <2>1. IInv'
      BY <1>3 DEF vars, kernel, locals, publishing, IInv, TypeOK, PcInv, ClaimInv, SoloInv,
                  ScanInv, SmpInv
    <2>2. running' = running
      BY <1>3, SameRunning DEF vars, locals
    <2> QED
      BY <1>3, <2>1, <2>2, QuietStep DEF vars, kernel
  <1> QED
    BY <1>1, <1>2, <1>3 DEF Next

(* The inductive invariant: on any number of cores an object being worked   *)
(* on is claimed by the one core at work on it, and the single-core search  *)
(* has passed no object with events that did not get them meanwhile.        *)
THEOREM Invariant == Spec => []IInv
  BY InitInv, NextInv, PTL DEF Spec

(* Run to completion: both builds of the kernel implement ActiveAbs, so an  *)
(* object's events are handled one at a time, each once, in the order of    *)
(* their posting, on any number of cores.                                   *)
THEOREM RunToCompletion == Spec => OneAtATimeInOrder
  <1>1. Init => Abs!Init
    <2> SUFFICES ASSUME Init PROVE Abs!Init
      OBVIOUS
    <2>1. \A p \in Prios : Handling(p) = {}
      BY QvAssumption DEF Init, Handling, Contexts
    <2>2. running = [p \in Prios |-> 0]
      BY <2>1 DEF running
    <2> QED
      BY <2>2 DEF Init, Abs!Init
  <1>2. IInv /\ [Next]_vars => [Abs!Next]_(Abs!absVars)
    BY NextInv DEF AbsStep
  <1> QED
    BY <1>1, <1>2, Invariant, PTL DEF Spec, OneAtATimeInOrder, Abs!Spec

(* The scheduling decision of the single-core build: dispatch_once never    *)
(* passes over an object with events above the ceiling that it should have  *)
(* chosen, and never chooses one at or below the ceiling.                   *)
THEOREM PriorityOrder == Spec => ChoosesHighest
  <1> DEFINE Rule ==
        ~smp /\ pc[Boot] \in {"scan", "check"} /\ pc'[Boot] \in {"pop", "idle"} =>
            /\ pc'[Boot] = "pop" => cand[Boot] > sched_ceiling
            /\ \A q \in Prios :
                /\ queue[q] # <<>>
                /\ q > sched_ceiling
                /\ pc'[Boot] = "pop" => q > cand[Boot]
                => q \in fresh
  <1>1. IInv /\ [Next]_vars => [Rule]_vars
    <2> SUFFICES ASSUME IInv, [Next]_vars, ~smp, pc[Boot] \in {"scan", "check"},
                        pc'[Boot] \in {"pop", "idle"}
                 PROVE  /\ pc'[Boot] = "pop" => cand[Boot] > sched_ceiling
                        /\ \A q \in Prios :
                            /\ queue[q] # <<>>
                            /\ q > sched_ceiling
                            /\ pc'[Boot] = "pop" => q > cand[Boot]
                            => q \in fresh
      OBVIOUS
    <2> USE QvAssumption
    <2>1. scan(Boot) \/ check_ceiling(Boot)
      <3>1. pc'[Boot] # pc[Boot]
        OBVIOUS
      <3>2. ASSUME NEW t \in Contexts, UserStep(t) \/ PublishStep(t) PROVE pc' = pc
        BY <3>2 DEF UserStep, PublishStep, post, publish, publish_next, subscribe, unsubscribe,
            unsubscribe_all, Subscribe, lock_scheduler, unlock_scheduler, SetCeiling, stop, locals
      <3>3. PICK c \in Cores : CoreStep(c)
        BY <3>1, <3>2 DEF Next, vars, locals
      <3>4. c = Boot
        BY <3>3 DEF IInv, SoloInv, CoreStep, start_next, run_reset, run_loop, tick_return,
            idle_return, IdleReturn, dispatch_once, BeginScan, scan, scan_unclaimed, claim,
            ClaimIf, recheck, check_ceiling, pop_event, on_event, handler_return, release,
            Release, At
      <3> QED
        BY <3>3, <3>4 DEF CoreStep, start_next, run_reset, run_loop, tick_return,
            idle_return, IdleReturn, dispatch_once, BeginScan, scan, scan_unclaimed, claim,
            ClaimIf, recheck, check_ceiling, pop_event, on_event, handler_return, release,
            Release, At
    <2>i. \A r \in Prios : r > cand[Boot] /\ queue[r] # <<>> => r \in fresh
      BY DEF IInv, ScanInv
    <2>t. /\ \A r \in Prios : r \in Int /\ r > 0
          /\ sched_ceiling \in Int
          /\ cand[Boot] \in Prios \cup {0}
          /\ pc \in [Contexts -> PCs]
          /\ Boot \in Contexts
      BY DEF IInv, TypeOK, Contexts
    <2>2. CASE scan(Boot)
      <3>1. cand[Boot] = 0 /\ pc'[Boot] = "idle"
        BY <2>2, <2>t DEF scan, ScanOn, GoTo
      <3> QED
        BY <2>i, <2>t, <3>1
    <2>3. CASE check_ceiling(Boot)
      <3>1. cand[Boot] \in Prios /\ cand[Boot] \in Int
        BY <2>3, <2>t DEF check_ceiling, At, IInv, PcInv
      <3>2. pc'[Boot] = IF cand[Boot] <= sched_ceiling THEN "idle" ELSE "pop"
        BY <2>3, <2>t DEF check_ceiling, GoTo
      <3>3. CASE pc'[Boot] = "pop"
        BY <2>i, <2>t, <3>1, <3>2, <3>3
      <3>4. CASE pc'[Boot] = "idle"
        <4>1. cand[Boot] <= sched_ceiling
          BY <3>2, <3>4
        <4>2. \A r \in Prios : r > sched_ceiling => r > cand[Boot]
          BY <2>t, <3>1, <4>1
        <4> QED
          BY <2>i, <3>4, <4>2
      <3> QED
        BY <3>3, <3>4
    <2> QED
      BY <2>1, <2>2, <2>3
  <1>2. [][Rule]_vars => ChoosesHighest
    BY DEF ChoosesHighest
  <1> QED
    BY <1>1, <1>2, Invariant, PTL DEF Spec
=============================================================================
