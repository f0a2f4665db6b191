------------------------------ MODULE QvKernel ------------------------------
(***************************************************************************)
(* The cooperative kernel of crates/qf (kernel.rs) with its subscription   *)
(* table (pubsub.rs) and the queues of its active objects (active.rs), in  *)
(* the single-core build and in the `smp` build.                           *)
(*                                                                         *)
(* One core, Boot, calls run().  In the smp build the other cores call     *)
(* run_until_idle in a loop of their own, once the objects have been       *)
(* started.  Posters are interrupts and threads that only post, publish,   *)
(* change subscriptions and stop the kernel.  One action is one critical   *)
(* section of a mutex or one atomic access; everybody else may run in      *)
(* between.                                                                *)
(*                                                                         *)
(* An active object is its priority; the n-th event posted in a behaviour  *)
(* is the number n.                                                        *)
(***************************************************************************)
EXTENDS Integers, Sequences

CONSTANTS
    Prios,      \* priorities of the registered active objects
    Cores,      \* cores that dispatch
    Boot,       \* the core that calls run()
    Posters,    \* interrupts and threads that do not dispatch
    Builds,     \* builds to run: TRUE for `smp`
    NoCore,     \* CORE_ID_NONE
    Signals,    \* signals that are published
    PubSub,     \* has ps_init been called?
    Ceilings,   \* ceilings passed to lock_scheduler
    MaxOps      \* bound: API calls user code makes in a behaviour

ASSUME QvAssumption ==
    /\ Prios \subseteq 1..255 /\ Prios # {}
    /\ Boot \in Cores
    /\ Cores \cap Posters = {}
    /\ NoCore \notin Cores
    /\ Builds \subseteq BOOLEAN
    /\ PubSub \in BOOLEAN
    /\ Ceilings \subseteq 0..255
    /\ MaxOps \in Nat

VARIABLES
    smp,              \* which build runs; never changes
    queue,            \* ActiveObject::queue
    sched_ceiling,    \* SchedulerState::sched_ceiling, QvKernel::sched_ceiling
    executing_core,   \* MpsActiveSlot::executing_core
    stop_flag,        \* QvKernel::stop_flag
    subscriptions,    \* PubSubTable::subscriptions
    pc,               \* where a core or poster stands
    cand,             \* the object a core looks at, dispatches or starts; 0 for none
    ceiling,          \* the ceiling a core has loaded (smp)
    event,            \* the event a core has popped, or 0
    todo,             \* recipients a publish has not reached yet
    sent,             \* the event it publishes
    ops,              \* API calls made so far (bounded by MaxOps)
    fresh             \* ghost: objects others posted to during Boot's dispatch_once

kernel == <<queue, sched_ceiling, executing_core, stop_flag, subscriptions>>
locals == <<pc, cand, ceiling, event>>
publishing == <<todo, sent>>
vars == <<smp, kernel, locals, publishing, ops, fresh>>

Contexts == Cores \cup Posters

PCs == {"start", "reset", "wait", "loop", "tick", "begin", "scan", "unclaimed", "claim",
        "check", "recheck", "pop", "behavior", "handler", "release", "idle", "stopped",
        "poster"}

At(c, l) == pc[c] = l /\ todo[c] = {}
GoTo(c, l) == pc' = [pc EXCEPT ![c] = l]

(* The next registered object below p, and the highest and lowest of all.  *)
IsBelow(q, p) ==
    \/ q \in Prios /\ q < p /\ \A r \in Prios : r < p => r <= q
    \/ q = 0 /\ \A r \in Prios : r >= p
IsAbove(q, p) ==
    \/ q \in Prios /\ q > p /\ \A r \in Prios : r > p => r >= q
    \/ q = 0 /\ \A r \in Prios : r <= p
IsHighest(q) == q \in Prios /\ \A r \in Prios : r <= q
IsLowest(q) == q \in Prios /\ \A r \in Prios : r >= q

-----------------------------------------------------------------------------
(* User code: handlers, on_start, tick_fn, the idle callback, and posters *)

InUser(t) ==
    /\ todo[t] = {}
    /\ pc[t] \in {"start", "tick", "handler", "idle", "poster"}

Op(t) == InUser(t) /\ ops < MaxOps /\ ops' = ops + 1

(* ActiveObject::post *)
Push(t, p, e) ==
    /\ queue' = [queue EXCEPT ![p] = Append(@, e)]
    /\ fresh' = IF t = Boot THEN fresh ELSE fresh \cup {p}

(* post, post_from_isr *)
post(t, p) ==
    /\ Op(t)
    /\ Push(t, p, ops + 1)
    /\ UNCHANGED <<smp, sched_ceiling, executing_core, stop_flag, subscriptions, locals, publishing>>

(* publish, publish_from_isr: the subscribers are read once, *)
publish(t, sig) ==
    /\ Op(t)
    /\ todo' = [todo EXCEPT ![t] = IF PubSub THEN subscriptions[sig] \cap Prios ELSE Prios]
    /\ sent' = [sent EXCEPT ![t] = ops + 1]
    /\ UNCHANGED <<smp, kernel, locals, fresh>>

(* ... and the event is posted to one after the other, lowest first. *)
publish_next(t, p) ==
    /\ p \in todo[t]
    /\ \A q \in todo[t] : p <= q
    /\ Push(t, p, sent[t])
    /\ todo' = [todo EXCEPT ![t] = @ \ {p}]
    /\ UNCHANGED <<smp, sched_ceiling, executing_core, stop_flag, subscriptions, locals, sent,
                   ops>>

Subscribe(t, subs) ==
    /\ PubSub
    /\ Op(t)
    /\ subscriptions' = subs
    /\ UNCHANGED <<smp, queue, sched_ceiling, executing_core, stop_flag, locals, publishing, fresh>>

subscribe(t, sig, p) == Subscribe(t, [subscriptions EXCEPT ![sig] = @ \cup {p}])
unsubscribe(t, sig, p) == Subscribe(t, [subscriptions EXCEPT ![sig] = @ \ {p}])
unsubscribe_all(t, p) == Subscribe(t, [sig \in Signals |-> subscriptions[sig] \ {p}])

SetCeiling(t, n) ==
    /\ t \in Cores
    /\ Op(t)
    /\ sched_ceiling' = n
    /\ UNCHANGED <<smp, queue, executing_core, stop_flag, subscriptions, locals, publishing, fresh>>

(* lock_scheduler raises the ceiling; the smp build's loop takes effect at  *)
(* its successful swap, or at the load that finds it high enough.           *)
lock_scheduler(t, n) == SetCeiling(t, IF n > sched_ceiling THEN n ELSE sched_ceiling)
unlock_scheduler(t) == SetCeiling(t, 0)

stop(t) ==
    /\ Op(t)
    /\ stop_flag' = TRUE
    /\ UNCHANGED <<smp, queue, sched_ceiling, executing_core, subscriptions, locals, publishing, fresh>>

-----------------------------------------------------------------------------
(* run *)

(* start(): on_start of one object after the other, lowest first.           *)
start_next(c) ==
    /\ At(c, "start")
    /\ \E q \in Prios \cup {0} :
        /\ IsAbove(q, cand[c])
        /\ cand' = [cand EXCEPT ![c] = q]
        /\ IF q = 0 THEN GoTo(c, "reset") ELSE UNCHANGED pc
    /\ UNCHANGED <<smp, kernel, ceiling, event, publishing, ops, fresh>>

run_reset(c) ==
    /\ At(c, "reset")
    /\ stop_flag' = FALSE
    /\ pc' = [d \in Contexts |-> IF d = c \/ (smp /\ pc[d] = "wait") THEN "loop" ELSE pc[d]]
    /\ UNCHANGED <<smp, queue, sched_ceiling, executing_core, subscriptions, cand, ceiling,
                   event, publishing, ops, fresh>>

(* The loop of run(), and that of a core that only calls run_until_idle.    *)
run_loop(c) ==
    /\ At(c, "loop")
    /\ GoTo(c, IF c # Boot THEN "begin" ELSE IF stop_flag THEN "stopped" ELSE "tick")
    /\ UNCHANGED <<smp, kernel, cand, ceiling, event, publishing, ops, fresh>>

tick_return(c) ==
    /\ At(c, "tick")
    /\ GoTo(c, "begin")
    /\ UNCHANGED <<smp, kernel, cand, ceiling, event, publishing, ops, fresh>>

IdleReturn(c, l) ==
    /\ At(c, "idle")
    /\ GoTo(c, l)
    /\ UNCHANGED <<smp, kernel, cand, ceiling, event, publishing, ops, fresh>>

(* Mutant: run() clears the flag in every round of its loop. *)
idle_return_reset(c) == IdleReturn(c, IF c = Boot THEN "reset" ELSE "loop")

idle_return(c) == IdleReturn(c, "loop")

-----------------------------------------------------------------------------
(* dispatch_once *)

BeginScan(c, q) ==
    /\ At(c, "begin")
    /\ ceiling' = [ceiling EXCEPT ![c] = IF smp THEN sched_ceiling ELSE 0]
    /\ cand' = [cand EXCEPT ![c] = q]
    /\ GoTo(c, "scan")
    /\ fresh' = IF c = Boot THEN {} ELSE fresh
    /\ UNCHANGED <<smp, kernel, event, publishing, ops>>

(* Mutant: the registry is searched from the wrong end. *)
dispatch_once_lowest(c) == \E q \in Prios : IsLowest(q) /\ BeginScan(c, q)

(* The smp build loads the ceiling first, the other one checks it last.     *)
dispatch_once(c) == \E q \in Prios : IsHighest(q) /\ BeginScan(c, q)

ScanOn(c) ==
    /\ \E q \in Prios \cup {0} : IsBelow(q, cand[c]) /\ cand' = [cand EXCEPT ![c] = q]
    /\ GoTo(c, "scan")

(* find: has_events of the next object; none is left. *)
scan(c) ==
    /\ At(c, "scan")
    /\ \/ /\ cand[c] = 0
          /\ GoTo(c, "idle")
          /\ UNCHANGED cand
       \/ /\ cand[c] # 0
          /\ IF cand[c] > ceiling[c] /\ queue[cand[c]] # <<>>
               THEN GoTo(c, IF smp THEN "unclaimed" ELSE "check") /\ UNCHANGED cand
               ELSE ScanOn(c)
    /\ UNCHANGED <<smp, kernel, ceiling, event, publishing, ops, fresh>>

(* find, smp build: executing_core.load *)
scan_unclaimed(c) ==
    /\ At(c, "unclaimed")
    /\ IF executing_core[cand[c]] = NoCore
         THEN GoTo(c, "claim") /\ UNCHANGED cand
         ELSE ScanOn(c)
    /\ UNCHANGED <<smp, kernel, ceiling, event, publishing, ops, fresh>>

ClaimIf(c, free) ==
    /\ At(c, "claim")
    /\ IF free
         THEN /\ executing_core' = [executing_core EXCEPT ![cand[c]] = c]
              /\ GoTo(c, "recheck")
         ELSE GoTo(c, "idle") /\ UNCHANGED executing_core
    /\ UNCHANGED <<smp, queue, sched_ceiling, stop_flag, subscriptions, cand, ceiling, event,
                   publishing, ops, fresh>>

(* Mutant: a store instead of the compare-exchange. *)
claim_store(c) == ClaimIf(c, TRUE)

(* executing_core.compare_exchange; the call gives up when it fails. *)
claim(c) == ClaimIf(c, executing_core[cand[c]] = NoCore)

recheck(c) ==
    /\ At(c, "recheck")
    /\ GoTo(c, IF queue[cand[c]] # <<>> THEN "pop" ELSE "release")
    /\ UNCHANGED <<smp, kernel, cand, ceiling, event, publishing, ops, fresh>>

(* Single-core build: the object found is at or below the ceiling. *)
check_ceiling(c) ==
    /\ At(c, "check")
    /\ GoTo(c, IF cand[c] <= sched_ceiling THEN "idle" ELSE "pop")
    /\ UNCHANGED <<smp, kernel, cand, ceiling, event, publishing, ops, fresh>>

(* ActiveObject::dispatch_one: pop_event, *)
pop_event(c) ==
    /\ At(c, "pop")
    /\ IF queue[cand[c]] = <<>>
         THEN GoTo(c, IF smp THEN "release" ELSE "idle") /\ UNCHANGED <<queue, event>>
         ELSE /\ queue' = [queue EXCEPT ![cand[c]] = Tail(@)]
              /\ event' = [event EXCEPT ![c] = Head(queue[cand[c]])]
              /\ GoTo(c, "behavior")
    /\ UNCHANGED <<smp, sched_ceiling, executing_core, stop_flag, subscriptions, cand, ceiling,
                   publishing, ops, fresh>>

(* ... behavior.lock(), held while on_event runs, *)
on_event(c) ==
    /\ At(c, "behavior")
    /\ \A d \in Cores : ~(pc[d] = "handler" /\ cand[d] = cand[c])
    /\ GoTo(c, "handler")
    /\ UNCHANGED <<smp, kernel, cand, ceiling, event, publishing, ops, fresh>>

(* ... and the return of on_event. *)
handler_return(c) ==
    /\ At(c, "handler")
    /\ IF smp THEN GoTo(c, "release") /\ UNCHANGED event
              ELSE GoTo(c, "begin") /\ event' = [event EXCEPT ![c] = 0]
    /\ UNCHANGED <<smp, kernel, cand, ceiling, publishing, ops, fresh>>

Release(c, core) ==
    /\ At(c, "release")
    /\ executing_core' = [executing_core EXCEPT ![cand[c]] = core]
    /\ GoTo(c, IF event[c] # 0 THEN "begin" ELSE "idle")
    /\ event' = [event EXCEPT ![c] = 0]
    /\ UNCHANGED <<smp, queue, sched_ceiling, stop_flag, subscriptions, cand, ceiling,
                   publishing, ops, fresh>>

(* Mutant: the claim outlives a call that found the queue drained. *)
release_if_dispatched(c) == Release(c, IF event[c] # 0 THEN NoCore ELSE c)

(* smp build: the claim ends, whether or not something was dispatched.      *)
release(c) == Release(c, NoCore)

-----------------------------------------------------------------------------
Init ==
    /\ smp \in Builds
    /\ queue = [p \in Prios |-> <<>>]
    /\ sched_ceiling = 0
    /\ executing_core = [p \in Prios |-> NoCore]
    /\ stop_flag = FALSE
    /\ subscriptions = [sig \in Signals |-> {}]
    /\ pc = [t \in Contexts |-> IF t = Boot THEN "start"
                                ELSE IF t \in Cores THEN "wait" ELSE "poster"]
    /\ \E q \in Prios : IsLowest(q) /\ cand = [c \in Cores |-> IF c = Boot THEN q ELSE 0]
    /\ ceiling = [c \in Cores |-> 0]
    /\ event = [c \in Cores |-> 0]
    /\ todo = [t \in Contexts |-> {}]
    /\ sent = [t \in Contexts |-> 0]
    /\ ops = 0
    /\ fresh = {}

UserStep(t) ==
    \/ \E p \in Prios : post(t, p) \/ unsubscribe_all(t, p)
    \/ \E sig \in Signals : publish(t, sig)
    \/ \E sig \in Signals, p \in Prios : subscribe(t, sig, p) \/ unsubscribe(t, sig, p)
    \/ \E n \in Ceilings : lock_scheduler(t, n)
    \/ unlock_scheduler(t)
    \/ stop(t)

PublishStep(t) == \E p \in Prios : publish_next(t, p)

CoreStep(c) ==
    \/ start_next(c) \/ run_reset(c) \/ run_loop(c) \/ tick_return(c) \/ idle_return(c)
    \/ dispatch_once(c) \/ scan(c) \/ scan_unclaimed(c) \/ claim(c) \/ recheck(c)
    \/ check_ceiling(c) \/ pop_event(c) \/ on_event(c)
    \/ handler_return(c) \/ release(c)

Next ==
    \/ \E t \in Contexts : UserStep(t) \/ PublishStep(t)
    \/ \E c \in Cores : CoreStep(c)

Spec == Init /\ [][Next]_vars

(* Handlers return, and no core stops inside the kernel. *)
FairSpec ==
    /\ Spec
    /\ \A t \in Contexts : WF_vars(PublishStep(t))
    /\ \A c \in Cores : WF_vars(CoreStep(c))

-----------------------------------------------------------------------------
(* Properties *)

TypeOK ==
    /\ smp \in Builds
    /\ queue \in [Prios -> Seq(1..MaxOps)]
    /\ sched_ceiling \in 0..255
    /\ executing_core \in [Prios -> Cores \cup {NoCore}]
    /\ stop_flag \in BOOLEAN
    /\ subscriptions \in [Signals -> SUBSET Prios]
    /\ pc \in [Contexts -> PCs]
    /\ cand \in [Cores -> Prios \cup {0}]
    /\ ceiling \in [Cores -> 0..255]
    /\ event \in [Cores -> 0..MaxOps]
    /\ todo \in [Contexts -> SUBSET Prios]
    /\ sent \in [Contexts -> 0..MaxOps]
    /\ ops \in 0..MaxOps
    /\ fresh \in SUBSET Prios

(* Cores that have taken an event of p from its queue and not yet returned  *)
(* from its handler.                                                        *)
Handling(p) == {c \in Cores : pc[c] \in {"behavior", "handler"} /\ cand[c] = p}

running ==
    [p \in Prios |-> IF Handling(p) = {} THEN 0 ELSE event[CHOOSE c \in Handling(p) : TRUE]]

Abs == INSTANCE ActiveAbs WITH pending <- queue, Events <- 1..MaxOps

(* Run to completion: on any number of cores an object's events are handled *)
(* one at a time, each once, in the order of their posting.                 *)
OneAtATimeInOrder == Abs!Spec

(* Single-core build: dispatch_once chooses an object above the ceiling, or *)
(* nothing; every object above its choice that has events and is not locked *)
(* out got them from somebody else during the call.                         *)
ChoosesHighest ==
    [][~smp /\ pc[Boot] \in {"scan", "check"} /\ pc'[Boot] \in {"pop", "idle"} =>
        /\ pc'[Boot] = "pop" => cand[Boot] > sched_ceiling
        /\ \A q \in Prios :
            /\ queue[q] # <<>>
            /\ q > sched_ceiling
            /\ pc'[Boot] = "pop" => q > cand[Boot]
            => q \in fresh]_vars

(* Every event is handled, unless the scheduler is locked or run() returns. *)
EventuallyHandled ==
    \A p \in Prios :
        queue[p] # <<>> ~>
            queue[p] = <<>> \/ sched_ceiling >= p \/ (pc[Boot] = "stopped" /\ ~smp)

(* run() "returns when stop() is called", once it runs. *)
StopEnds == stop_flag /\ pc[Boot] \notin {"start", "reset"} ~> pc[Boot] = "stopped"
=============================================================================
