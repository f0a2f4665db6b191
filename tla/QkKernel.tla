------------------------------ MODULE QkKernel ------------------------------
(***************************************************************************)
(* The preemptive QK kernel of crates/qk: QkScheduler (scheduler.rs) and   *)
(* QkKernel (kernel.rs), in the single-core build (SMP = FALSE, one core)  *)
(* and in the `smp` build (SMP = TRUE, several cores sharing one           *)
(* scheduler).                                                             *)
(*                                                                         *)
(* Every core runs user code: its main loop (frame 1) or the handler of    *)
(* the active object on top of its stack.  User code posts, publishes,     *)
(* locks and unlocks the scheduler and asks the kernel to run; a call of   *)
(* QkKernel::activate pushes a frame, so preemption is a nested frame.     *)
(* Other contexts only post: the command thread of the host examples, also *)
(* in the single-core build, and interrupt handlers.                       *)
(* One action is one critical section of the code: the scheduler's mutex   *)
(* and each active object's queue mutex are taken and released separately, *)
(* and other cores and posters run in between.                             *)
(*                                                                         *)
(* An active object is known by its priority (build rejects duplicates);   *)
(* an event carries nothing the kernel looks at, so a queue is a length.   *)
(***************************************************************************)
EXTENDS Integers, Sequences

CONSTANTS
    Prios,       \* priorities of the registered active objects
    threshold,   \* preemption threshold of each of them
    Cores,       \* cores that run the kernel
    Posters,     \* threads and interrupts that post and do not run it
    SMP,         \* is the `smp` feature on?
    NoCore,      \* the 0xFF of State::executing_cores
    Ceilings,    \* ceilings user code passes to lock_scheduler
    MaxOps,      \* bound: API calls user code makes in a behaviour
    MaxInitial   \* bound: events queued on an object before start()

(* QkKernelBuilder::validate_priority and validate_threshold. *)
ValidRegistrations ==
    /\ Prios \subseteq 1..63
    /\ threshold \in [Prios -> 1..63]
    /\ \A p \in Prios : threshold[p] >= p

ASSUME RegistrationsAssumption == ValidRegistrations
ASSUME CoresAssumption ==
    /\ SMP \in BOOLEAN
    /\ Cores # {}
    /\ NoCore \notin Cores
    /\ Cores \cap Posters = {}
    /\ ~SMP => \A c, d \in Cores : c = d
ASSUME BoundsAssumption ==
    /\ Ceilings \subseteq 1..63
    /\ MaxOps \in Nat
    /\ MaxInitial \in Nat

(* Everybody who calls post. *)
Contexts == Cores \cup Posters

VARIABLES
    lock_ceiling,       \* State::lock_ceiling
    ready,              \* State::ready
    active_prio,        \* CoreState::active_prio, per core
    active_threshold,   \* CoreState::active_threshold, per core
    next_prio,          \* CoreState::next_prio, per core
    executing_cores,    \* State::executing_cores (smp build)
    queue,              \* events waiting in each active object's queue
    stack,              \* frames of activate(), per core; frame 1 is the main loop
    pc,                 \* where the code on top of the stack stands, per context
    posting,            \* the post or publish in progress, per context
    started,            \* has start() run?
    ops,                \* API calls made so far (bounded by MaxOps)
    no_event,           \* ghost: objects whose dispatch_one found an empty queue
    raced               \* ghost: objects to which a post overlapped their dispatch

sched == <<lock_ceiling, ready, active_prio, active_threshold, next_prio, executing_cores>>
ghosts == <<no_event, raced>>
vars == <<sched, queue, stack, pc, posting, started, ops, ghosts>>

-----------------------------------------------------------------------------
(* Frames and decisions *)

(* A saved SchedStatus: Locked(prev), or Unlocked for prev = -1, with the    *)
(* ceiling asked for (a ghost that the properties read).                     *)
Status == [prev : -1..63, ceiling : 1..63]

(* One call of activate(): the priority being run (decision.next_prio), what *)
(* to restore, where its caller resumes, and the locks its user code holds.  *)
Frame == [prio : Prios \cup {0}, restore_prio : Prios \cup {0},
          restore_threshold : 0..63, then : {"user", "run"}, held : Seq(Status)]

PostOp == [todo : SUBSET Prios, target : Prios \cup {0}, was_empty : BOOLEAN,
           then : {"user", "run"}]

PCs == {"user", "run", "post", "push", "mark", "replan",
        "commit", "pop", "check", "clear", "complete", "next", "restore"}

MainLoop == [prio |-> 0, restore_prio |-> 0, restore_threshold |-> 0,
             then |-> "user", held |-> <<>>]

NoPost == [todo |-> {}, target |-> 0, was_empty |-> FALSE, then |-> "user"]

Top(c) == stack[c][Len(stack[c])]
SetTop(c, f) == [stack EXCEPT ![c][Len(stack[c])] = f]
Push(c, f) == [stack EXCEPT ![c] = Append(@, f)]
Pop(c) == [stack EXCEPT ![c] = SubSeq(@, 1, Len(@) - 1)]
GoTo(c, l) == pc' = [pc EXCEPT ![c] = l]

(* Context x is between the two ends of a post to p. *)
Posting(x, p) == pc[x] \in {"push", "mark"} /\ posting[x].target = p

(* Core c found the queue of p empty and has not yet cleared its flag. *)
GivingUp(c, p) == pc[c] = "clear" /\ Top(c).prio = p

(* A post to p is in progress while its dispatch takes an event or looks    *)
(* whether there are more; or it begins between that look and the flag.     *)
RacedBy(p, overlap) == raced' = IF overlap THEN raced \cup {p} ELSE raced

(* QkKernel::threshold_for *)
threshold_for(p) == IF p = 0 THEN 0 ELSE threshold[p]

(* Mutant: a core only looks at what the other cores run on top. *)
already_running_top_only(c, p) ==
    SMP /\ \E d \in Cores \ {c} : active_prio[d] = p \/ next_prio[d] = p

(* smp build: another core runs or has planned p, or some core has not yet  *)
(* completed it.                                                            *)
already_running(c, p) ==
    /\ SMP
    /\ \/ \E d \in Cores \ {c} : active_prio[d] = p \/ next_prio[d] = p
       \/ executing_cores[p] # NoCore

(* What plan_activation, next_after_dispatch and has_ready_to_run may pick  *)
(* on core c above threshold t.                                             *)
Eligible(c, t) ==
    {p \in ready : p > t /\ p > lock_ceiling /\ ~already_running(c, p)}

IsHighest(p, S) == p \in S /\ \A q \in S : q <= p

-----------------------------------------------------------------------------
(* User code: the API calls a main loop or a handler may make next *)

InUser(c) == pc[c] = "user" /\ started

CountOp == ops < MaxOps /\ ops' = ops + 1

(* Mutant: start() forgets the objects that already have events. *)
start_marks_nothing ==
    /\ ~started
    /\ started' = TRUE
    /\ UNCHANGED <<sched, queue, stack, pc, posting, ops, ghosts>>

(* start(): marks the objects that already have queued events; run once,    *)
(* before the dispatch loops.                                               *)
start ==
    /\ ~started
    /\ started' = TRUE
    /\ ready' = ready \cup {p \in Prios : queue[p] > 0}
    /\ UNCHANGED <<lock_ceiling, active_prio, active_threshold, next_prio,
                   executing_cores, queue, stack, pc, posting, ops, ghosts>>

(* post (one recipient) and publish (the subscribers S), alone or followed  *)
(* by run_until_idle (post_and_run, publish_and_run).                       *)
publish(c, S, then) ==
    /\ InUser(c)
    /\ CountOp
    /\ posting' = [posting EXCEPT ![c] = [NoPost EXCEPT !.todo = S, !.then = then]]
    /\ GoTo(c, "post")
    /\ UNCHANGED <<sched, queue, stack, started, ghosts>>

(* lock_scheduler *)
lock_scheduler(c, ceiling) ==
    /\ InUser(c)
    /\ CountOp
    /\ lock_ceiling' = IF ceiling > lock_ceiling THEN ceiling ELSE lock_ceiling
    /\ LET prev == IF ceiling > lock_ceiling THEN lock_ceiling ELSE -1
       IN  stack' = SetTop(c, [Top(c) EXCEPT !.held =
                        Append(@, [prev |-> prev, ceiling |-> ceiling])])
    /\ UNCHANGED <<ready, active_prio, active_threshold, next_prio, executing_cores,
                   queue, pc, posting, started, ghosts>>

UnlockTo(c, ceiling) ==
    LET held == Top(c).held
    IN  /\ InUser(c)
        /\ held # <<>>
        /\ lock_ceiling' = ceiling
        /\ stack' = SetTop(c, [Top(c) EXCEPT !.held = SubSeq(held, 1, Len(held) - 1)])
        /\ GoTo(c, IF held[Len(held)].prev >= 0 THEN "replan" ELSE "user")
        /\ UNCHANGED <<ready, active_prio, active_threshold, next_prio, executing_cores,
                       queue, posting, started, ops, ghosts>>

(* Mutants: unlocking forgets that Unlocked saved nothing, or drops every   *)
(* enclosing lock as well.                                                  *)
unlock_scheduler_raw(c) ==
    Top(c).held # <<>> /\ UnlockTo(c, Top(c).held[Len(Top(c).held)].prev)

unlock_scheduler_all(c) == UnlockTo(c, 0)

(* unlock_scheduler with the status of the last lock this code took: a      *)
(* Locked status lowers the ceiling and is followed by a new plan, an       *)
(* Unlocked one does nothing.                                               *)
unlock_scheduler(c) ==
    LET held == Top(c).held
        prev == held[Len(held)].prev
    IN  /\ held # <<>>
        /\ UnlockTo(c, IF prev >= 0 /\ lock_ceiling > prev THEN prev ELSE lock_ceiling)

(* run_until_idle; a main loop calls it for ever. *)
run_until_idle(c) ==
    /\ InUser(c)
    /\ GoTo(c, "run")
    /\ IF Len(stack[c]) = 1 THEN UNCHANGED ops ELSE CountOp
    /\ UNCHANGED <<sched, queue, stack, posting, started, ghosts>>

(* The handler returns to dispatch_one, having released its locks. *)
handler_return(c) ==
    /\ InUser(c)
    /\ Len(stack[c]) > 1
    /\ Top(c).held = <<>>
    /\ GoTo(c, "check")
    /\ UNCHANGED <<sched, queue, stack, posting, started, ops, ghosts>>

-----------------------------------------------------------------------------
(* post: has_events, then push, then mark_ready if the queue was empty      *)

IsLowest(p, S) == p \in S /\ \A q \in S : p <= q

AfterRecipient(c) ==
    IF posting[c].todo \ {posting[c].target} = {} THEN posting[c].then ELSE "post"

(* `let was_empty = !slot.object.has_events()` of the next recipient, in    *)
(* ascending order of priority.                                             *)
post_has_events(c) ==
    /\ pc[c] = "post"
    /\ \E p \in Prios :
        /\ IsLowest(p, posting[c].todo)
        /\ posting' = [posting EXCEPT ![c].target = p, ![c].was_empty = (queue[p] = 0)]
        /\ RacedBy(p, \E d \in Cores : GivingUp(d, p))
    /\ GoTo(c, "push")
    /\ UNCHANGED <<sched, queue, stack, started, ops, no_event>>

post_push(c) ==
    LET p == posting[c].target
    IN  /\ pc[c] = "push"
        /\ queue' = [queue EXCEPT ![p] = @ + 1]
        /\ IF posting[c].was_empty
             THEN GoTo(c, "mark") /\ UNCHANGED posting
             ELSE /\ GoTo(c, AfterRecipient(c))
                  /\ posting' = [posting EXCEPT ![c].todo = @ \ {p}]
        /\ UNCHANGED <<sched, stack, started, ops, ghosts>>

post_mark_ready(c) ==
    LET p == posting[c].target
    IN  /\ pc[c] = "mark"
        /\ ready' = ready \cup {p}
        /\ posting' = [posting EXCEPT ![c].todo = @ \ {p}]
        /\ GoTo(c, AfterRecipient(c))
        /\ UNCHANGED <<lock_ceiling, active_prio, active_threshold, next_prio,
                       executing_cores, queue, stack, started, ops, ghosts>>

-----------------------------------------------------------------------------
(* Scheduling: dispatch_once, activate *)

(* plan_activation for the code at core c, which resumes at `then`: pick    *)
(* the highest eligible object and enter activate(), or report that nothing *)
(* may preempt.                                                             *)
plan_activation(c, then) ==
    \/ \E p \in Prios :
        /\ IsHighest(p, Eligible(c, active_threshold[c]))
        /\ next_prio' = [next_prio EXCEPT ![c] = p]
        /\ stack' = Push(c, [prio |-> p, restore_prio |-> active_prio[c],
                             restore_threshold |-> threshold_for(active_prio[c]),
                             then |-> then, held |-> <<>>])
        /\ GoTo(c, "commit")
    \/ /\ Eligible(c, active_threshold[c]) = {}
       /\ next_prio' = [next_prio EXCEPT ![c] = 0]
       /\ GoTo(c, "user")
       /\ UNCHANGED stack

PlanFrame == <<lock_ceiling, ready, active_prio, active_threshold, executing_cores,
               queue, posting, started, ghosts>>

(* dispatch_once called by run_until_idle: again until it finds nothing. *)
dispatch_loop(c) ==
    pc[c] = "run" /\ plan_activation(c, "run") /\ UNCHANGED <<PlanFrame, ops>>

(* dispatch_once called by user code. *)
dispatch_once(c) ==
    InUser(c) /\ CountOp /\ plan_activation(c, "user") /\ UNCHANGED PlanFrame

(* The plan of unlock_scheduler. *)
unlock_replan(c) ==
    pc[c] = "replan" /\ plan_activation(c, "user") /\ UNCHANGED <<PlanFrame, ops>>

Commit(c, p, t) ==
    /\ pc[c] = "commit"
    /\ active_prio' = [active_prio EXCEPT ![c] = p]
    /\ active_threshold' = [active_threshold EXCEPT ![c] = t]
    /\ next_prio' = [next_prio EXCEPT ![c] = 0]
    /\ executing_cores' = IF SMP THEN [executing_cores EXCEPT ![p] = c] ELSE executing_cores
    /\ GoTo(c, "pop")
    /\ UNCHANGED <<lock_ceiling, ready, queue, stack, posting, started, ops, ghosts>>

(* Mutant: the object runs with its priority as its threshold. *)
commit_activation_own_prio(c) == Commit(c, Top(c).prio, Top(c).prio)

commit_activation(c) == Commit(c, Top(c).prio, threshold_for(Top(c).prio))

(* dispatch_one: pop an event and run the handler on it; with an empty      *)
(* queue it returns false, which activate() asserts against (a release      *)
(* build goes on).                                                          *)
dispatch_one(c) ==
    LET p == Top(c).prio
    IN  /\ pc[c] = "pop"
        /\ IF queue[p] > 0
             THEN /\ queue' = [queue EXCEPT ![p] = @ - 1]
                  /\ GoTo(c, "user")
                  /\ UNCHANGED no_event
             ELSE /\ no_event' = no_event \cup {p}
                  /\ GoTo(c, "check")
                  /\ UNCHANGED queue
        /\ RacedBy(p, \E x \in Contexts : Posting(x, p))
        /\ UNCHANGED <<sched, stack, posting, started, ops>>

AfterHandler(c, l) ==
    /\ pc[c] = "check"
    /\ GoTo(c, l)
    /\ RacedBy(Top(c).prio, \E x \in Contexts : Posting(x, Top(c).prio))
    /\ UNCHANGED <<sched, queue, stack, posting, started, ops, no_event>>

(* Mutants: the ready flag is always cleared, or never. *)
activate_always_clears(c) == AfterHandler(c, "clear")
activate_never_clears(c) == AfterHandler(c, "complete")

(* `if !object.has_events()` *)
activate_has_events(c) ==
    AfterHandler(c, IF queue[Top(c).prio] = 0 THEN "clear" ELSE "complete")

ClearReady(c, S) ==
    /\ pc[c] = "clear"
    /\ ready' = ready \ S
    /\ GoTo(c, "complete")
    /\ UNCHANGED <<lock_ceiling, active_prio, active_threshold, next_prio,
                   executing_cores, queue, stack, posting, started, ops, ghosts>>

(* Mutant: the whole ready set is cleared (reset_ready). *)
mark_none_ready(c) == ClearReady(c, ready)

mark_not_ready(c) == ClearReady(c, {Top(c).prio})

complete_execution(c) ==
    /\ pc[c] = "complete"
    /\ executing_cores' = IF SMP THEN [executing_cores EXCEPT ![Top(c).prio] = NoCore]
                                 ELSE executing_cores
    /\ GoTo(c, "next")
    /\ UNCHANGED <<lock_ceiling, ready, active_prio, active_threshold, next_prio,
                   queue, stack, posting, started, ops, ghosts>>

(* The follow-up object is gated by the threshold of what activate()        *)
(* preempted, not by that of the object that just ran.                      *)
next_after_dispatch(c) ==
    LET E == Eligible(c, Top(c).restore_threshold)
    IN  /\ pc[c] = "next"
        /\ \/ \E p \in Prios :
                /\ IsHighest(p, E)
                /\ next_prio' = [next_prio EXCEPT ![c] = p]
                /\ stack' = SetTop(c, [Top(c) EXCEPT !.prio = p])
                /\ GoTo(c, "commit")
           \/ /\ E = {}
              /\ next_prio' = [next_prio EXCEPT ![c] = 0]
              /\ GoTo(c, "restore")
              /\ UNCHANGED stack
        /\ UNCHANGED <<PlanFrame, ops>>

Restore(c, t) ==
    /\ pc[c] = "restore"
    /\ active_prio' = [active_prio EXCEPT ![c] = Top(c).restore_prio]
    /\ active_threshold' = [active_threshold EXCEPT ![c] = t]
    /\ next_prio' = [next_prio EXCEPT ![c] = 0]
    /\ stack' = Pop(c)
    /\ GoTo(c, Top(c).then)
    /\ UNCHANGED <<lock_ceiling, ready, executing_cores, queue, posting, started,
                   ops, ghosts>>

restore_active(c) == Restore(c, Top(c).restore_threshold)

-----------------------------------------------------------------------------
(* build() configures every core idle; events posted before start() wait in *)
(* their queues, and those posted through the kernel are marked ready.      *)
Init ==
    /\ lock_ceiling = 0
    /\ queue \in [Prios -> 0..MaxInitial]
    /\ ready \in SUBSET {p \in Prios : queue[p] > 0}
    /\ active_prio = [c \in Cores |-> 0]
    /\ active_threshold = [c \in Cores |-> 0]
    /\ next_prio = [c \in Cores |-> 0]
    /\ executing_cores = [p \in Prios |-> NoCore]
    /\ stack = [c \in Cores |-> <<MainLoop>>]
    /\ pc = [x \in Contexts |-> "user"]
    /\ posting = [x \in Contexts |-> NoPost]
    /\ started = FALSE
    /\ ops = 0
    /\ no_event = {}
    /\ raced = {}

UserStep(c) ==
    \/ \E S \in SUBSET Prios \ {{}}, then \in {"user", "run"} : publish(c, S, then)
    \/ \E ceiling \in Ceilings : lock_scheduler(c, ceiling)
    \/ unlock_scheduler(c)
    \/ run_until_idle(c)
    \/ dispatch_once(c)
    \/ handler_return(c)

PostStep(x) == post_has_events(x) \/ post_push(x) \/ post_mark_ready(x)

KernelStep(c) ==
    \/ PostStep(c)
    \/ dispatch_loop(c)
    \/ unlock_replan(c)
    \/ commit_activation(c)
    \/ dispatch_one(c)
    \/ activate_has_events(c)
    \/ mark_not_ready(c)
    \/ complete_execution(c)
    \/ next_after_dispatch(c)
    \/ restore_active(c)

(* A command thread or an interrupt posts and leaves the dispatching to     *)
(* whoever runs the kernel.                                                 *)
PosterStep(x) == PostStep(x) \/ \E S \in SUBSET Prios \ {{}} : publish(x, S, "user")

Next ==
    \/ start
    \/ \E c \in Cores : UserStep(c) \/ KernelStep(c)
    \/ \E x \in Posters : PosterStep(x)

Spec == Init /\ [][Next]_vars

(* Run-to-completion scheduling goes on as long as there is something to do *)
(* (weak fairness of the kernel's own steps); handlers return, user code    *)
(* releases the locks it takes, and main loops keep calling run_until_idle. *)
Fairness ==
    /\ WF_vars(start)
    /\ \A c \in Cores :
        /\ WF_vars(KernelStep(c))
        /\ WF_vars(handler_return(c))
        /\ SF_vars(unlock_scheduler(c))
        /\ WF_vars(Len(stack[c]) = 1 /\ run_until_idle(c))
    /\ \A x \in Posters : WF_vars(PostStep(x))

FairSpec == Spec /\ Fairness

-----------------------------------------------------------------------------
(* Properties *)

TypeOK ==
    /\ lock_ceiling \in 0..63
    /\ ready \in SUBSET Prios
    /\ active_prio \in [Cores -> Prios \cup {0}]
    /\ active_threshold \in [Cores -> 0..63]
    /\ next_prio \in [Cores -> Prios \cup {0}]
    /\ executing_cores \in [Prios -> Cores \cup {NoCore}]
    /\ queue \in [Prios -> Nat]
    /\ stack \in [Cores -> Seq(Frame)]
    /\ pc \in [Contexts -> PCs]
    /\ posting \in [Contexts -> PostOp]
    /\ started \in BOOLEAN
    /\ ops \in 0..MaxOps
    /\ no_event \in SUBSET Prios
    /\ raced \in SUBSET Prios

(* Frames of core c whose active object is between commit_activation and    *)
(* complete_execution.                                                      *)
Executing(c) ==
    {i \in 2..Len(stack[c]) : i < Len(stack[c]) \/ pc[c] \notin {"commit", "next", "restore"}}

(* Run to completion: no active object is executed by two activations at    *)
(* the same time, whether nested on one core (it would wait for its own     *)
(* behaviour mutex for ever) or on two cores.                               *)
Isolation ==
    \A c, d \in Cores : \A i \in Executing(c), j \in Executing(d) :
        stack[c][i].prio = stack[d][j].prio => c = d /\ i = j

(* An active object with threshold T is only ever preempted on its core by  *)
(* priorities greater than T, through any nesting of activations and of     *)
(* follow-up dispatches.                                                    *)
PreemptionThreshold ==
    \A c \in Cores : \A i, j \in 1..Len(stack[c]) :
        i < j => stack[c][j].prio > threshold_for(stack[c][i].prio)

(* lock_scheduler: while user code holds a lock at some ceiling, nothing at *)
(* or below it is activated on top of that code, whatever the code above it *)
(* locks and unlocks in between.                                            *)
LockProtects ==
    \A c \in Cores : \A i, j \in 1..Len(stack[c]) :
        i < j => \A k \in 1..Len(stack[c][i].held) :
                    stack[c][j].prio > stack[c][i].held[k].ceiling

(* p has events, is not ready, and nobody is about to mark it: no later     *)
(* post will mark it either, since its queue is not empty.                  *)
Lost(p) ==
    /\ queue[p] > 0 /\ p \notin ready
    /\ \A x \in Contexts : ~(Posting(x, p) /\ posting[x].was_empty)

(* `post` "marks it ready" (kernel.rs): whoever posts, an object with       *)
(* queued events is in the ready set or about to be.                        *)
PostMarksReady == started => \A p \in Prios : ~Lost(p)

(* An event can only be lost to a post that overlaps the dispatch of the    *)
(* same object: that is in progress on another context when dispatch_one    *)
(* takes an event or activate() looks for more, or begins between that look *)
(* and mark_not_ready.  Posts at any other time, by handlers, by other      *)
(* cores, threads or interrupts, never leave an event behind.               *)
NoLostEvent == started => \A p \in Prios : Lost(p) => p \in raced

(* activate() asserts "scheduled active object had no event". *)
ScheduledObjectHasEvent == no_event = {}

(* The assertion of activate() fails for no object but one that a post met  *)
(* in the middle of a dispatch: no stale flag comes from anything else.     *)
ScheduledHasEvent == no_event \subseteq raced

(* run_until_idle of the main loop returns with the scheduler unlocked only *)
(* when every queue is drained, but for events that are being posted at     *)
(* that moment and for objects that lost one before.                        *)
RunUntilIdleDrains ==
    [][\A c \in Cores :
        (/\ pc[c] = "run" /\ pc'[c] = "user"
         /\ Len(stack[c]) = 1 /\ lock_ceiling = 0)
        => \A p \in Prios : queue[p] > 0 => p \in raced \/ \E x \in Contexts : Posting(x, p)]_vars

(* Every queued event is dispatched in the end, unless a post overlapped a  *)
(* dispatch of its object.                                                  *)
EventuallyDispatched == \A p \in Prios : queue[p] > 0 ~> (queue[p] = 0 \/ p \in raced)

=============================================================================
