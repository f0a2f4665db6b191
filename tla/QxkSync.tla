------------------------------ MODULE QxkSync ------------------------------
(***************************************************************************)
(* The blocking primitives of QXK (crates/qxk/src/primitives.rs) on top of *)
(* the kernel: semaphore, mutex with an optional priority ceiling, message *)
(* queue and condition variable.  Each updates its own state under its own *)
(* lock and calls the scheduler after releasing it, so that every call is  *)
(* a first critical section and the ones it leaves in call[c].             *)
(* A behaviour uses one primitive, or posts events, as kind says; the      *)
(* scheduler lock goes with the mutex, they share the ceiling.             *)
(***************************************************************************)
EXTENDS QxkKernel

CONSTANTS
    MaxCount,    \* SemaphoreInner::max_count
    Capacity,    \* N of MessageQueue<T, N>
    NoOwner,     \* MutexInner::owner is None
    BootCore     \* the core of a single-core build

ASSUME SyncAssumption == BootCore \in Cores /\ NoOwner \notin Threads

VARIABLES
    kind,        \* what the application calls
    quiet,       \* nothing but the cores runs
    count,       \* SemaphoreInner::count, or messages in the queue
    owner,       \* MutexInner::owner; locked is owner # NoOwner
    ceiling,     \* MutexInner::ceiling
    status,      \* MutexInner::ceiling_sched_status
    waiting,     \* threads in waiting, or in waiting_receivers
    senders,     \* threads in waiting_senders
    holders      \* threads told that they hold the mutex (for the properties)

sync == <<count, owner, status, waiting, senders, holders>>
fixed == <<smp, kind, quiet, ceiling>>
vars == <<sched, kernel, local, bound, call, sync, fixed>>

Kinds == {"post", "semaphore", "mutex", "queue", "condvar"}

InitSync ==
    /\ InitKernel
    /\ smp \in BOOLEAN
    /\ kind \in Kinds
    /\ quiet \in IF smp THEN {FALSE} ELSE BOOLEAN
    /\ count = 0
    /\ owner = NoOwner /\ status = Unlocked /\ holders = {}
    /\ ceiling \in IF kind = "mutex" THEN Ceilings ELSE {0}
    /\ waiting = {} /\ senders = {}

-----------------------------------------------------------------------------
(* take_highest: the waiter of highest priority, and the call that wakes it *)
Highest(W) == {t \in W : \A u \in W : ThreadPrio[t] >= ThreadPrio[u]}

Waking(t) == <<Do("unblock", t)>>

(* The highest waiter of W leaves it and is woken after the lock is released *)
Wake(c, W, W_next, before) ==
    IF W = {} THEN Begin(c, before) /\ W_next = W
    ELSE \E t \in Highest(W) : Begin(c, before \o Waking(t)) /\ W_next = W \ {t}

(* push_waiter, then block_thread outside the lock, then WouldBlock *)
Enqueue(c, t, W, W_next) ==
    /\ W_next = W \cup {t}
    /\ Begin(c, <<Do("block", t)>>)
    /\ act' = [act EXCEPT ![c] = "Blocked"]
    /\ UNCHANGED <<pc, mode>>

-----------------------------------------------------------------------------
(* Semaphore *)
try_wait(c) ==
    /\ kind = "semaphore"
    /\ count > 0
    /\ count' = count - 1
    /\ Begin(c, <<>>)
    /\ UNCHANGED <<sched, kernel, local, held, owner, status, waiting, senders, holders>>

wait_timeout(c) == try_wait(c)

wait(c, t) ==
    /\ kind = "semaphore" /\ RunsThread(c, t)
    /\ IF count > 0
       THEN /\ count' = count - 1
            /\ Begin(c, <<>>)
            /\ UNCHANGED <<local, waiting>>
       ELSE Enqueue(c, t, waiting, waiting') /\ UNCHANGED count
    /\ UNCHANGED <<sched, kernel, held, owner, status, senders, holders>>

signal(c) ==
    /\ kind = "semaphore"
    /\ count < MaxCount          \* otherwise Overflow, and nothing happens
    /\ count' = count + 1
    /\ Wake(c, waiting, waiting', <<>>)
    /\ UNCHANGED <<sched, kernel, local, held, owner, status, senders, holders>>

-----------------------------------------------------------------------------
(* Mutex *)
Granted(t) == owner' = t /\ holders' = holders \cup {t}

try_lock(c, t) ==
    /\ kind = "mutex" /\ RunsThread(c, t)
    /\ owner = NoOwner
    /\ Granted(t)
    /\ Begin(c, <<>>)
    /\ UNCHANGED <<sched, kernel, local, held, count, status, waiting, senders>>

mutex_lock(c, t) ==
    /\ kind = "mutex" /\ RunsThread(c, t)
    /\ IF owner = NoOwner
       THEN /\ Granted(t)
            /\ Begin(c, IF ceiling > 0 THEN <<Do("ceil_lock", t)>> ELSE <<>>)
            /\ UNCHANGED <<local, waiting>>
       ELSE /\ Enqueue(c, t, waiting, waiting')
            /\ UNCHANGED <<owner, holders>>
    /\ UNCHANGED <<sched, kernel, held, count, status, senders>>

(* the two critical sections that apply the ceiling *)
ceil_lock(c) ==
    /\ Doing(c, "ceil_lock")
    /\ lock(ceiling)
    /\ Rest(c, <<Do("store", lock_status(ceiling))>>)
    /\ UNCHANGED <<kernel, local, bound, sync>>

store_status(c) ==
    /\ Doing(c, "store")
    /\ status' = Arg(c)
    /\ Rest(c, <<>>)
    /\ UNCHANGED <<sched, kernel, local, bound, count, owner, waiting, senders, holders>>

(* A thread unlocks what it owns, from its handler or, on its behalf, from  *)
(* an interrupt after its lock call has returned.                           *)
mutex_unlock(c, t) ==
    /\ kind = "mutex" /\ owner = t
    /\ RunsThread(c, t) \/ c \in Posters
    /\ \A d \in Contexts : ~Doing(d, "ceil_lock") /\ ~Doing(d, "store")
    /\ owner' = NoOwner /\ holders' = holders \ {t}
    /\ status' = Unlocked
    /\ Wake(c, waiting, waiting',
            IF status # Unlocked THEN <<Do("ceil_unlock", status)>> ELSE <<>>)
    /\ UNCHANGED <<sched, kernel, local, held, count, senders>>

ceil_unlock(c) ==
    /\ Doing(c, "ceil_unlock")
    /\ unlock(Arg(c))
    /\ Rest(c, <<>>)
    /\ UNCHANGED <<kernel, local, bound, sync>>

-----------------------------------------------------------------------------
(* Message queue: count is its length *)
try_send(c) ==
    /\ kind = "queue"
    /\ count < Capacity          \* otherwise QueueFull
    /\ count' = count + 1
    /\ Wake(c, waiting, waiting', <<>>)
    /\ UNCHANGED <<sched, kernel, local, held, owner, status, senders, holders>>

try_receive(c) ==
    /\ kind = "queue" /\ count > 0
    /\ count' = count - 1
    /\ Begin(c, <<>>)
    /\ UNCHANGED <<sched, kernel, local, held, owner, status, waiting, senders, holders>>

(* send drops the message it cannot push *)
send(c, t) ==
    /\ kind = "queue" /\ RunsThread(c, t)
    /\ IF count < Capacity
       THEN /\ count' = count + 1
            /\ Wake(c, waiting, waiting', <<>>)
            /\ UNCHANGED <<local, senders>>
       ELSE /\ Enqueue(c, t, senders, senders')
            /\ UNCHANGED <<count, waiting>>
    /\ UNCHANGED <<sched, kernel, held, owner, status, holders>>

receive(c, t) ==
    /\ kind = "queue" /\ RunsThread(c, t)
    /\ IF count > 0
       THEN /\ count' = count - 1
            /\ Wake(c, senders, senders', <<>>)
            /\ UNCHANGED <<local, waiting>>
       ELSE /\ Enqueue(c, t, waiting, waiting')
            /\ UNCHANGED <<count, senders>>
    /\ UNCHANGED <<sched, kernel, held, owner, status, holders>>

-----------------------------------------------------------------------------
(* Condition variable *)
cond_wait(c, t) ==
    /\ kind = "condvar" /\ RunsThread(c, t)
    /\ Enqueue(c, t, waiting, waiting')
    /\ UNCHANGED <<sched, kernel, held, count, owner, status, senders, holders>>

notify_one(c) ==
    /\ kind = "condvar" /\ waiting # {}
    /\ Wake(c, waiting, waiting', <<>>)
    /\ UNCHANGED <<sched, kernel, local, held, count, owner, status, senders, holders>>

(* mem::take empties the list; its threads are unblocked one after another, *)
(* in the order they were queued in, here any order.                        *)
Orders(W) ==
    {s \in [1..Cardinality(W) -> W] : \A t \in W : \E i \in DOMAIN s : s[i] = t}

(* mutant of notify_all: the loop stops one short *)
notify_all_short(c) ==
    /\ kind = "condvar" /\ waiting # {}
    /\ \E s \in Orders(waiting) :
         Begin(c, [i \in 1..(Len(s) - 1) |-> Do("unblock", s[i])])
    /\ waiting' = {}
    /\ UNCHANGED <<sched, kernel, local, held, count, owner, status, senders, holders>>

notify_all(c) ==
    /\ kind = "condvar" /\ waiting # {}
    /\ \E s \in Orders(waiting) :
         Begin(c, [i \in DOMAIN s |-> Do("unblock", s[i])])
    /\ waiting' = {}
    /\ UNCHANGED <<sched, kernel, local, held, count, owner, status, senders, holders>>

-----------------------------------------------------------------------------
block(c) ==
    /\ Doing(c, "block")
    /\ block_thread(Arg(c))
    /\ Rest(c, <<>>)
    /\ UNCHANGED <<kernel, local, bound, sync>>

unblock(c) ==
    /\ Doing(c, "unblock")
    /\ unblock_thread(Arg(c))
    /\ Rest(c, <<>>)
    /\ UNCHANGED <<kernel, local, bound, sync>>

SyncCall(c) ==
    \/ wait_timeout(c) \/ signal(c) \/ try_send(c) \/ try_receive(c)
    \/ notify_one(c) \/ notify_all(c)
    \/ \E t \in Threads :
         \/ wait(c, t) \/ try_lock(c, t) \/ mutex_lock(c, t) \/ mutex_unlock(c, t)
         \/ send(c, t) \/ receive(c, t) \/ cond_wait(c, t)

SyncStep(c) == ceil_lock(c) \/ store_status(c) \/ ceil_unlock(c) \/ block(c) \/ unblock(c)

Used == IF smp THEN Cores ELSE {BootCore}
Running == IF quiet THEN Used ELSE Used \cup Posters

NextSync ==
    /\ \/ \E c \in Used : Dispatch(c) /\ UNCHANGED sync
       \/ kind = "post" /\ \E c \in Running : PostCall(c) /\ UNCHANGED sync
       \/ kind = "mutex" /\ \E c \in Running : LockCall(c) /\ UNCHANGED sync
       \/ \E c \in Contexts : KernelStep(c) /\ UNCHANGED sync
       \/ \E c \in Running : SyncCall(c)
       \/ \E c \in Contexts : SyncStep(c)
    /\ UNCHANGED fixed

SpecSync == InitSync /\ [][NextSync]_vars

-----------------------------------------------------------------------------
(* Two cores never run the same active object, nor the handler of the same  *)
(* thread: plan_next claims what it chooses before it releases the          *)
(* scheduler's lock, and complete_execution gives it up only after the      *)
(* handler has returned.                                                    *)
OneCoreAtATime ==
    \A c, d \in Cores :
        c # d /\ pc[c] = "user" /\ pc[d] = "user" => mode[c] # mode[d]

(* The ceiling comes down: when every lock of the scheduler has been given  *)
(* back, by whichever contexts and mutexes took them and in whatever order, *)
(* nothing stays locked out.  unlock only ever lowers the ceiling.          *)
InFlight(op) == \E c \in Contexts : \E i \in DOMAIN call[c] : call[c][i].op = op
CeilingReleased ==
    /\ \A c \in Contexts : held[c] = Unlocked
    /\ status = Unlocked /\ ~InFlight("ceil_unlock") /\ ~InFlight("store")
    => lock_ceiling = 0

(* A thread in a wait list, once its own call is over, is not scheduled: it *)
(* runs again only when somebody takes it off the list and unblocks it.     *)
Pending(op, t) == \E c \in Contexts : \E i \in DOMAIN call[c] : call[c][i] = Do(op, t)
NoSpuriousWakeup ==
    \A t \in waiting \cup senders : Pending("block", t) \/ t \notin thread_ready

(* "The scheduler will unblock the thread when signal() is called": a live  *)
(* thread is scheduled, or waits where a waker will find it, or is about to *)
(* be unblocked.                                                            *)
Accounted(t) ==
    \/ t \in thread_ready \cup waiting \cup senders
    \/ t \notin handler \/ Pending("unblock", t)
SignalUnblocks == kind = "semaphore" => \A t \in Threads : Accounted(t)

(* The same where calls cannot overlap: on one core with nothing else that  *)
(* calls the primitives, no thread is forgotten.                            *)
NoLostWakeupInTurn == ~smp /\ quiet => \A t \in Threads : Accounted(t)

=============================================================================
