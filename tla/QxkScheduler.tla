--------------------------- MODULE QxkScheduler ---------------------------
(***************************************************************************)
(* The dual-mode scheduler of QXK (crates/qxk/src/scheduler.rs): a ready   *)
(* set of active objects, named by their priority, and a ready queue of    *)
(* extended threads, behind one mutex.  Active objects above the lock      *)
(* ceiling come first, threads after them.  Every operator below is one    *)
(* critical section; the kernel and the synchronization primitives call    *)
(* them.  smp selects the build; the single-core build keeps no record of  *)
(* who runs what that any decision reads.                                  *)
(***************************************************************************)
EXTENDS Integers, Sequences, FiniteSets, FiniteSetsExt

CONSTANTS
    Cores,        \* the cores that run the kernel loop
    Posters,      \* interrupts, and the other OS threads of a hosted build
    AOs,          \* priorities of the registered active objects
    Threads,      \* the registered extended threads
    ThreadPrio,   \* their priorities
    Idle          \* ScheduleMode::Idle

ASSUME QxkConstants ==
    /\ AOs \subseteq 1..63
    /\ ThreadPrio \in [Threads -> 0..255]
    /\ Cores # {} /\ Cores \cap Posters = {}
    /\ IsFiniteSet(Threads)
    /\ AOs \cap Threads = {} /\ Idle \notin AOs \cup Threads   \* variants of ScheduleMode

VARIABLES
    smp,            \* the smp feature of the build
    lock_ceiling,   \* State::lock_ceiling
    ao_ready,       \* State::ao_ready
    thread_ready,   \* State::thread_ready
    active,         \* CoreState::active_prio, active_thread
    next,           \* CoreState::next_prio, next_thread
    executing       \* executing_aos, executing_threads: claimed by some core

sched == <<lock_ceiling, ao_ready, thread_ready, active, next, executing>>

Contexts == Cores \cup Posters
(* QxkScheduler::new: nothing ready, nothing running. *)
InitScheduler ==
    /\ lock_ceiling = 0
    /\ active = [c \in Cores |-> Idle]
    /\ next = [c \in Cores |-> Idle]
    /\ executing = {}

-----------------------------------------------------------------------------
(* mutant of Taken: what another core has only planned is not skipped *)
Taken_active(c, w) == smp /\ \E d \in Cores \ {c} : active[d] = w

(* The smp planner skips what another core runs or is about to run. *)
Taken(c, w) ==
    /\ smp
    /\ \/ \E d \in Cores \ {c} : active[d] = w \/ next[d] = w
       \/ w \in executing

(* Active objects the planner of core c may choose. *)
Eligible(c) == {p \in ao_ready : p > lock_ceiling /\ ~Taken(c, p)}

(* The head of the thread queue: it is sorted by priority, equals in any    *)
(* order (sort_unstable).                                                   *)
Heads(c) ==
    LET free == {t \in thread_ready : ~Taken(c, t)}
    IN  {t \in free : \A u \in free : ThreadPrio[t] >= ThreadPrio[u]}

(* plan_next of the single-core build looks at the highest ready priority   *)
(* only; Eligible is empty exactly when that one is at or below the ceiling.*)
NextModes(c) ==
    IF Eligible(c) # {} THEN {Max(Eligible(c))}
    ELSE IF Heads(c) # {} THEN Heads(c)
    ELSE {Idle}

plan_next(c, m) ==
    /\ m \in NextModes(c)
    /\ next' = IF smp THEN [next EXCEPT ![c] = m] ELSE next
    /\ UNCHANGED <<lock_ceiling, ao_ready, thread_ready, active, executing>>

(* has_work of the single-core build does not look at the ceiling. *)
has_work(c) ==
    IF smp THEN Eligible(c) # {} \/ Heads(c) # {}
    ELSE ao_ready # {} \/ thread_ready # {}

set_active(c, m) ==
    /\ active' = [active EXCEPT ![c] = m]
    /\ next' = [next EXCEPT ![c] = Idle]
    /\ executing' = IF smp THEN executing \cup ({m} \ {Idle}) ELSE executing
    /\ UNCHANGED <<lock_ceiling, ao_ready, thread_ready>>

complete_execution(c, m) ==
    /\ executing' = executing \ {m}
    /\ active' = IF smp /\ active[c] = m THEN [active EXCEPT ![c] = Idle] ELSE active
    /\ UNCHANGED <<lock_ceiling, ao_ready, thread_ready, next>>

-----------------------------------------------------------------------------
mark_ao_ready(p) ==
    /\ ao_ready' = ao_ready \cup {p}
    /\ UNCHANGED <<lock_ceiling, thread_ready, active, next, executing>>

mark_ao_not_ready(p) ==
    /\ ao_ready' = ao_ready \ {p}
    /\ UNCHANGED <<lock_ceiling, thread_ready, active, next, executing>>

(* mark_thread_ready and unblock_thread insert unless the id is there. *)
mark_thread_ready(t) ==
    /\ thread_ready' = thread_ready \cup {t}
    /\ UNCHANGED <<lock_ceiling, ao_ready, active, next, executing>>

unblock_thread(t) == mark_thread_ready(t)

mark_thread_not_ready(t) ==
    /\ thread_ready' = thread_ready \ {t}
    /\ UNCHANGED <<lock_ceiling, ao_ready, active, next, executing>>

block_thread(t) == mark_thread_not_ready(t)

(* SchedStatus: -1 is Unlocked, any other value is Locked(previous). *)
Unlocked == -1

lock_status(ceiling) == IF ceiling > lock_ceiling THEN lock_ceiling ELSE Unlocked

lock(ceiling) ==
    /\ lock_ceiling' = Max({ceiling, lock_ceiling})
    /\ UNCHANGED <<ao_ready, thread_ready, active, next, executing>>

(* mutant of unlock: whatever was saved is restored *)
unlock_restores(status) ==
    /\ lock_ceiling' = IF status # Unlocked THEN status ELSE lock_ceiling
    /\ UNCHANGED <<ao_ready, thread_ready, active, next, executing>>

unlock(status) ==
    /\ lock_ceiling' = IF status # Unlocked /\ lock_ceiling > status
                       THEN status ELSE lock_ceiling
    /\ UNCHANGED <<ao_ready, thread_ready, active, next, executing>>
=============================================================================
