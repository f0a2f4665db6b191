----------------------------- MODULE QxkKernel -----------------------------
(***************************************************************************)
(* The QXK kernel (crates/qxk/src/kernel.rs, thread.rs): dispatch_once     *)
(* cut at every critical section, the calls that post events, and          *)
(* the scheduler lock.  A call an interrupt, an OS thread or a handler     *)
(* makes is a sequence of critical sections, call[c], that other contexts  *)
(* interleave with.                                                        *)
(***************************************************************************)
EXTENDS QxkScheduler

CONSTANTS
    Ceilings,    \* ceilings the application uses; 0: a mutex without one
    MaxOps       \* bound: calls the application makes in a behaviour

ASSUME CeilingAssumption == Ceilings \subseteq 0..255

VARIABLES
    queue,       \* events queued for each active object
    handler,     \* threads whose handler is still there, i.e. not Terminated
    pc,          \* where dispatch_once of a core stands
    mode,        \* the ScheduleMode it works on
    act,         \* what the running handler is about to return
    call,        \* critical sections left of the call each context is in
    held,        \* the SchedStatus each context has to give back
    ops          \* calls made so far

local == <<pc, mode, act>>
kernel == <<queue, handler>>
bound == <<held, ops>>

(* A critical section to come: its operation and its argument. *)
Do(op, arg) == [op |-> op, arg |-> arg]

(* The critical sections of post_ao: has_events, post, mark_ao_ready. *)
Posting(p) == <<Do("has_events", p)>>

(* publish_ao walks the slots in priority order. *)
Slot(i) == CHOOSE p \in AOs : Cardinality({q \in AOs : q < p}) = i - 1

Publishing == [i \in 1..Cardinality(AOs) |-> Do("has_events", Slot(i))]

(* Context c is free to make a call: an interrupt or OS thread between      *)
(* calls, a core outside dispatch_once or in a handler that has not just    *)
(* been told that it must block.                                            *)
Free(c) ==
    /\ call[c] = <<>>
    /\ c \in Cores => pc[c] \in {"out", "user"} /\ act[c] = "run"

Begin(c, steps) ==
    /\ Free(c) /\ ops < MaxOps
    /\ ops' = ops + 1
    /\ call' = [call EXCEPT ![c] = steps]

(* The thread whose handler context c runs. *)
RunsThread(c, t) == c \in Cores /\ pc[c] = "user" /\ mode[c] = t /\ t \in Threads

-----------------------------------------------------------------------------
(* start(): the objects whose on_start posted an event, and every thread,   *)
(* are ready.                                                               *)
InitKernel ==
    /\ InitScheduler
    /\ queue \in [AOs -> 0..1]
    /\ ao_ready = {p \in AOs : queue[p] > 0}
    /\ thread_ready = Threads
    /\ handler = Threads
    /\ pc = [c \in Cores |-> "out"]
    /\ mode = [c \in Cores |-> Idle]
    /\ act = [c \in Cores |-> "run"]
    /\ call = [c \in Contexts |-> <<>>]
    /\ held = [c \in Contexts |-> Unlocked]
    /\ ops = 0

Goto(c, to) == pc' = [pc EXCEPT ![c] = to] /\ UNCHANGED <<mode, act>>

(* dispatch_once, entered from run_until_idle or unlock_scheduler *)
plan(c) ==
    /\ pc[c] \in {"out", "plan"} /\ call[c] = <<>>
    /\ \E m \in NextModes(c) :
         /\ plan_next(c, m)
         /\ mode' = [mode EXCEPT ![c] = m]
    /\ pc' = [pc EXCEPT ![c] = "set"]
    /\ UNCHANGED <<act, kernel, bound, call>>

activate(c) ==
    /\ pc[c] = "set"
    /\ set_active(c, mode[c])
    /\ Goto(c, IF mode[c] \in AOs THEN "pop" ELSE
               IF mode[c] \in Threads THEN "thread" ELSE "complete")
    /\ UNCHANGED <<kernel, bound, call>>

(* dispatch_one takes an event and runs the handler; without one it returns *)
(* false, which only a debug assertion looks at.                            *)
pop_event(c) ==
    /\ pc[c] = "pop"
    /\ queue' = [queue EXCEPT ![mode[c]] = Max({0, @ - 1})]
    /\ Goto(c, IF queue[mode[c]] > 0 THEN "user" ELSE "check")
    /\ UNCHANGED <<sched, handler, bound, call>>

ao_return(c) ==
    /\ pc[c] = "user" /\ mode[c] \in AOs /\ call[c] = <<>>
    /\ Goto(c, "check")
    /\ UNCHANGED <<sched, kernel, bound, call>>

check_empty(c) ==
    /\ pc[c] = "check"
    /\ Goto(c, IF queue[mode[c]] = 0 THEN "unready" ELSE "complete")
    /\ UNCHANGED <<sched, kernel, bound, call>>

unready(c) ==
    /\ pc[c] = "unready"
    /\ mark_ao_not_ready(mode[c])
    /\ Goto(c, "complete")
    /\ UNCHANGED <<kernel, bound, call>>

(* The guard of the thread's mutex is held until dispatch_once is done with *)
(* the thread.                                                              *)
GuardFree(t) ==
    \A c \in Cores : mode[c] = t => pc[c] \notin {"user", "complete", "finish"}

(* ExtendedThread::state follows the handler; nothing after start() reads   *)
(* it, so that only the loss of the handler is kept.                        *)
poll(c) ==
    /\ pc[c] = "thread" /\ GuardFree(mode[c])
    /\ IF mode[c] \in handler
       THEN Goto(c, "user")
       ELSE /\ pc' = [pc EXCEPT ![c] = "complete"]
            /\ act' = [act EXCEPT ![c] = "Terminated"]
            /\ UNCHANGED mode
    /\ UNCHANGED <<sched, kernel, bound, call>>

(* The handler returns: Blocked after a primitive said WouldBlock, anything *)
(* else otherwise.                                                          *)
poll_return(c, a) ==
    /\ pc[c] = "user" /\ mode[c] \in Threads /\ call[c] = <<>>
    /\ (a = "Blocked") = (act[c] = "Blocked")
    /\ handler' = IF a = "Terminated" THEN handler \ {mode[c]} ELSE handler
    /\ pc' = [pc EXCEPT ![c] = "complete"]
    /\ act' = [act EXCEPT ![c] = a]
    /\ UNCHANGED <<sched, mode, queue, bound, call>>

complete(c) ==
    /\ pc[c] = "complete"
    /\ complete_execution(c, mode[c])
    /\ IF mode[c] \in Threads
       THEN Goto(c, "finish")
       ELSE Goto(c, "out")
    /\ UNCHANGED <<kernel, bound, call>>

(* mutant of finish: a blocked thread stays ready too *)
finish_blocked(c) ==
    /\ pc[c] = "finish"
    /\ IF act[c] = "Terminated" THEN mark_thread_not_ready(mode[c])
                                ELSE mark_thread_ready(mode[c])
    /\ pc' = [pc EXCEPT ![c] = "out"]
    /\ act' = [act EXCEPT ![c] = "run"]
    /\ UNCHANGED <<mode, kernel, bound, call>>

finish(c) ==
    /\ pc[c] = "finish"
    /\ CASE act[c] = "Yield" -> mark_thread_ready(mode[c])
         [] act[c] = "Terminated" -> mark_thread_not_ready(mode[c])
         [] OTHER -> UNCHANGED sched
    /\ pc' = [pc EXCEPT ![c] = "out"]
    /\ act' = [act EXCEPT ![c] = "run"]
    /\ UNCHANGED <<mode, kernel, bound, call>>

Dispatch(c) ==
    \/ plan(c) \/ activate(c) \/ pop_event(c) \/ ao_return(c)
    \/ check_empty(c) \/ unready(c) \/ poll(c) \/ complete(c) \/ finish(c)
    \/ \E a \in {"Continue", "Yield", "Blocked", "Terminated"} : poll_return(c, a)

-----------------------------------------------------------------------------
(* Calls of the kernel: post_ao, publish_ao, and the scheduler lock, which  *)
(* a thread handler reaches through its context, anyone else through the    *)
(* kernel.                                                                  *)
post_ao(c, p) ==
    /\ Begin(c, Posting(p))
    /\ UNCHANGED <<sched, kernel, local, held>>

publish_ao(c) ==
    /\ Begin(c, Publishing)
    /\ UNCHANGED <<sched, kernel, local, held>>

lock_scheduler(c, ceiling) ==
    /\ held[c] = Unlocked
    /\ Begin(c, <<>>)
    /\ held' = [held EXCEPT ![c] = lock_status(ceiling)]
    /\ lock(ceiling)
    /\ UNCHANGED <<kernel, local>>

(* QxkKernel::unlock_scheduler goes on to has_work and dispatch_once; a     *)
(* handler calls QxkScheduler::unlock alone.                                *)
unlock_scheduler(c) ==
    /\ held[c] # Unlocked
    /\ Begin(c, IF c \in Cores /\ pc[c] = "out" THEN <<Do("has_work", c)>> ELSE <<>>)
    /\ unlock(held[c])
    /\ held' = [held EXCEPT ![c] = Unlocked]
    /\ UNCHANGED <<kernel, local>>

PostCall(c) == publish_ao(c) \/ \E p \in AOs : post_ao(c, p)
LockCall(c) == unlock_scheduler(c) \/ \E l \in Ceilings \ {0} : lock_scheduler(c, l)

(* The next critical section of the call context c is in. *)
Doing(c, op) == call[c] # <<>> /\ Head(call[c]).op = op
Arg(c) == Head(call[c]).arg
Rest(c, steps) == call' = [call EXCEPT ![c] = steps \o Tail(call[c])]

has_events(c) ==
    /\ Doing(c, "has_events")
    /\ Rest(c, <<Do(IF queue[Arg(c)] = 0 THEN "post_mark" ELSE "post", Arg(c))>>)
    /\ UNCHANGED <<sched, kernel, local, bound>>

post(c) ==
    /\ Doing(c, "post") \/ Doing(c, "post_mark")
    /\ queue' = [queue EXCEPT ![Arg(c)] = @ + 1]
    /\ Rest(c, IF Doing(c, "post_mark") THEN <<Do("mark", Arg(c))>> ELSE <<>>)
    /\ UNCHANGED <<sched, handler, local, bound>>

mark(c) ==
    /\ Doing(c, "mark")
    /\ mark_ao_ready(Arg(c))
    /\ Rest(c, <<>>)
    /\ UNCHANGED <<kernel, local, bound>>

dispatch_if_work(c) ==
    /\ Doing(c, "has_work")
    /\ IF has_work(c) THEN Goto(c, "plan") ELSE UNCHANGED local
    /\ Rest(c, <<>>)
    /\ UNCHANGED <<sched, kernel, bound>>

KernelStep(c) == has_events(c) \/ post(c) \/ mark(c) \/ dispatch_if_work(c)
=============================================================================
