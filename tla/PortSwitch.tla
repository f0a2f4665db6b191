---------------------------- MODULE PortSwitch ----------------------------
(***************************************************************************)
(* The context switch of the Cortex-M and RISC-V ports of the QXK kernel:  *)
(* the statics CURRENT_THREAD_SP, NEXT_THREAD_SP and THREAD_SPS, the        *)
(* exception handlers that save and restore a context, qxk_schedule that   *)
(* they call in between.                                                   *)
(*                                                                         *)
(* A stack is a sequence of frames, frame 1 the topmost.  Code of a thread *)
(* at call depth d has its locals in the frames 1..d; an exception that    *)
(* stops it writes the context (the registers, here the place where the    *)
(* thread is) in frame d + 1.  A stack pointer names a stack and a frame.  *)
(* The application's main runs on a process stack of its own.              *)
(***************************************************************************)
EXTENDS Integers

CONSTANTS
    Threads,        \* the extended threads
    ThreadId,       \* and their ids
    MAX_THREADS,    \* size of THREAD_SPS
    MaxDepth,       \* how deep the code of a thread nests calls
    MaxSteps        \* how many steps it runs

ASSUME ThreadsAssumption == ThreadId \in [Threads -> Nat] /\ MAX_THREADS \in Nat
ASSUME PlaceBounds == MaxDepth \in Nat /\ MaxSteps \in Nat

VARIABLES
    port,       \* "cortex-m" or "riscv"
    sps,        \* THREAD_SPS
    current_sp, \* CURRENT_THREAD_SP
    next_sp,    \* NEXT_THREAD_SP
    kernel_set, \* KERNEL_PTR is not null
    pending,    \* PENDSVSET of ICSR, MSIP0 of the CLINT
    active,     \* the ScheduleMode qxk_schedule made active last
    stacks,     \* the frames of every stack
    cpu,        \* the stack in use and the place of the code that runs on it
    place       \* where the code of every stack got by itself

portVars == <<port, sps, current_sp, next_sp, kernel_set, pending, active, stacks, cpu, place>>

Main == "main"
Owners == Threads \cup {Main}
Frames == 1..(MaxDepth + 1)

Null == [owner |-> "none", frame |-> 0]
\* A frame with the locals of a call, and what runs once locals, or what is at address 0,
\* were taken for a context.
Locals == [depth |-> -1, step |-> 0]
NoPlace == [depth |-> -1, step |-> -1]

Entry == [depth |-> 0, step |-> 0]

Running == cpu.place # NoPlace

---------------------------------------------------------------------------
(* Setting up *)

\* ThreadStack::init writes a context that starts at the entry into the topmost frame.
cm_ThreadStack_init(t) ==
    /\ stacks' = [stacks EXCEPT ![t][1] = Entry]
    /\ UNCHANGED <<port, cpu>>

rv_ThreadStack_init(t) ==
    /\ stacks' = [stacks EXCEPT ![t][1] = Entry]
    /\ UNCHANGED <<port, cpu>>

cm_register_thread_sp(t, sp) ==
    /\ sps' = IF ThreadId[t] < MAX_THREADS THEN [sps EXCEPT ![t] = sp] ELSE sps
    /\ current_sp' = IF ThreadId[t] < MAX_THREADS /\ current_sp = Null THEN sp ELSE current_sp

rv_register_thread_sp(t, sp) ==
    /\ sps' = IF ThreadId[t] < MAX_THREADS THEN [sps EXCEPT ![t] = sp] ELSE sps
    /\ current_sp' = IF ThreadId[t] < MAX_THREADS /\ current_sp = Null THEN sp ELSE current_sp

\* The application's main sets a thread up before it starts the kernel.
SetUp(t) ==
    /\ cpu.owner = Main /\ Running /\ ~kernel_set
    /\ place[t] = NoPlace
    /\ \/ port = "cortex-m" /\ cm_ThreadStack_init(t) /\ cm_register_thread_sp(t, [owner |-> t, frame |-> 1])
       \/ port = "riscv" /\ rv_ThreadStack_init(t) /\ rv_register_thread_sp(t, [owner |-> t, frame |-> 1])
    /\ place' = [place EXCEPT ![t] = Entry]
    /\ UNCHANGED <<next_sp, kernel_set, pending, active>>

cm_start == port = "cortex-m" /\ kernel_set' = TRUE
rv_start == port = "riscv" /\ kernel_set' = TRUE

Start ==
    /\ cpu.owner = Main /\ Running /\ ~kernel_set
    /\ cm_start \/ rv_start
    /\ UNCHANGED <<port, sps, current_sp, next_sp, pending, active, stacks, cpu, place>>

---------------------------------------------------------------------------
(* The code that runs on the stack in use: a step, a call, a return *)

Run(depth) ==
    /\ Running /\ cpu.place.step < MaxSteps
    /\ depth \in 0..MaxDepth
    /\ depth \in {cpu.place.depth - 1, cpu.place.depth, cpu.place.depth + 1}
    /\ LET now == [depth |-> depth, step |-> cpu.place.step + 1]
       IN  /\ cpu' = [cpu EXCEPT !.place = now]
           /\ place' = [place EXCEPT ![cpu.owner] = now]
    /\ stacks' = [stacks EXCEPT ![cpu.owner] =
                     [f \in Frames |-> IF f = depth /\ depth > cpu.place.depth THEN Locals ELSE @[f]]]
    /\ UNCHANGED <<port, sps, current_sp, next_sp, kernel_set, pending, active>>

\* pend_sv, by itself, through ContextSwitch::request or from an interrupt.
cm_pend_sv == port = "cortex-m" /\ pending' = TRUE
rv_pend_sv == port = "riscv" /\ pending' = TRUE

\* SVC_Handler finds the frame of the caller; rust_svc_handler takes the number out of the
\* instruction and pends the switch for 0 only.
cm_SVC_Handler(number) ==
    /\ port = "cortex-m"
    /\ pending' = (number = 0 \/ pending)

RequestSwitch ==
    /\ Running
    /\ cm_pend_sv \/ rv_pend_sv \/ \E number \in {0, 1} : cm_SVC_Handler(number)
    /\ UNCHANGED <<port, sps, current_sp, next_sp, kernel_set, active, stacks, cpu, place>>

---------------------------------------------------------------------------
(* The switch *)

\* plan_next of the QXK scheduler may answer with any thread, with an active object or
\* with idle.
PlanNext == Threads \cup {"active object", "idle"}

\* Without a kernel nothing happens; else NEXT_THREAD_SP changes for a thread that has a
\* slot, and keeps its value for everything else.
cm_qxk_schedule(mode) ==
    IF ~kernel_set THEN UNCHANGED <<active, next_sp>>
    ELSE /\ active' = mode
         /\ next_sp' = IF mode \in DOMAIN sps THEN sps[mode] ELSE next_sp

rv_qxk_schedule(mode) ==
    IF ~kernel_set THEN UNCHANGED <<active, next_sp>>
    ELSE /\ active' = mode
         /\ next_sp' = IF mode \in DOMAIN sps THEN sps[mode] ELSE next_sp

\* The context of the code that is stopped, in the frame below the ones it uses.
Saved == [stacks EXCEPT ![cpu.owner][cpu.place.depth + 1] = cpu.place]

\* What the processor goes on with after it took its registers from sp.
RestoredFrom(sp, frames) ==
    [owner |-> sp.owner,
     place |-> IF sp = Null \/ frames[sp.owner][sp.frame] = Locals THEN NoPlace
               ELSE frames[sp.owner][sp.frame]]

\* PendSV_Handler stores the stack pointer of the stopped code in CURRENT_THREAD_SP, calls
\* qxk_schedule and leaves with the registers NEXT_THREAD_SP points to.
PendSV_Handler(mode) ==
    /\ port = "cortex-m"
    /\ pending' = FALSE
    /\ stacks' = Saved
    /\ cm_qxk_schedule(mode)
    /\ current_sp' = next_sp'
    /\ cpu' = RestoredFrom(next_sp', Saved)

\* TrapHandler does so for the software interrupt, which it clears; any other cause saves
\* and restores the stopped code itself.
TrapHandler(cause, mode) ==
    /\ port = "riscv"
    /\ stacks' = Saved
    /\ \/ /\ cause = "software"
          /\ pending' = FALSE
          /\ rv_qxk_schedule(mode)
          /\ current_sp' = next_sp'
          /\ cpu' = RestoredFrom(next_sp', Saved)
       \/ /\ cause = "other"
          /\ UNCHANGED <<pending, active, next_sp, current_sp, cpu>>

\* The exception of the pending switch, and on RISC-V any other trap.
Exception ==
    /\ Running
    /\ \E mode \in PlanNext :
          \/ pending /\ PendSV_Handler(mode)
          \/ \E cause \in {"software", "other"} : (cause = "software" => pending) /\ TrapHandler(cause, mode)
    /\ UNCHANGED <<port, sps, kernel_set, place>>

---------------------------------------------------------------------------
PortInit(p) ==
    /\ port = p
    /\ sps = [t \in {u \in Threads : ThreadId[u] < MAX_THREADS} |-> Null]
    /\ current_sp = Null /\ next_sp = Null
    /\ kernel_set = FALSE /\ pending = FALSE /\ active = "idle"
    /\ stacks = [o \in Owners |-> [f \in Frames |-> Locals]]
    /\ cpu = [owner |-> Main, place |-> Entry]
    /\ place = [o \in Owners |-> IF o = Main THEN Entry ELSE NoPlace]

PortNext ==
    \/ \E t \in Threads : SetUp(t)
    \/ Start
    \/ \E depth \in 0..MaxDepth : Run(depth)
    \/ RequestSwitch
    \/ Exception

---------------------------------------------------------------------------
(* Properties *)

\* "Picks the next runnable and publishes its saved stack pointer in NEXT_THREAD_SP": the
\* processor goes on with a thread where that thread was stopped.
ResumesWhereStopped ==
    \A t \in Threads : cpu.owner = t /\ place[t] # NoPlace => cpu.place = place[t]

=============================================================================
