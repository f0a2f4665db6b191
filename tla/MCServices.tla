---------------------------- MODULE MCServices ----------------------------
(***************************************************************************)
(* The services of the framework on small instances: two time events on a  *)
(* wheel with two rates, the philosophers of the host and of the ESP       *)
(* boards, the bounded queue with deferral, the context switch of the      *)
(* ports, the bus drivers.  One of them runs in a behaviour, the others    *)
(* stay as they are.                                                       *)
(***************************************************************************)
EXTENDS Dpp, QfQueue, PortSwitch, HalBus

VARIABLE service

vars == <<service, timeVars, dppVars, queueVars, portVars, halVars>>

MCRateOf == [t1 |-> 1, t2 |-> 1]

MCNone == -1
MCIntervals == {-1, 0, 2}
MCThreadId == [a |-> 0, b |-> 1, c |-> 2]

NoPhilos == [i \in {} |-> "thinking"]

DppIdle ==
    /\ build = "none" /\ table = "serving" /\ taken = {} /\ hungry = {} /\ waiting = <<>>
    /\ philo = NoPhilos
    /\ inbox = NoPhilos
    /\ presses = 0

QueueIdle ==
    /\ kind = "dynamic" /\ eq = with_safety_margin(0, 0)
    /\ aoq = <<>> /\ made = 0 /\ done = {} /\ halted = FALSE

PortIdle == PortInit("cortex-m")

Init ==
    \/ /\ service = "time"
       /\ \E p \in Intervals : TimeInit(p)
       /\ DppIdle /\ QueueIdle /\ PortIdle /\ HalIdle
    \/ /\ service = "dpp"
       /\ DppInit("host", 4) \/ DppInit("esp", 5)
       /\ QueueIdle /\ PortIdle /\ HalIdle
    \/ /\ service = "queue"
       /\ QueueInit
       /\ TimeInit(None) /\ DppIdle /\ PortIdle /\ HalIdle
    \/ /\ service = "switch"
       /\ PortInit("cortex-m") \/ PortInit("riscv")
       /\ TimeInit(None) /\ DppIdle /\ QueueIdle /\ HalIdle
    \/ /\ service = "bus"
       /\ HalInit
       /\ TimeInit(None) /\ DppIdle /\ QueueIdle /\ PortIdle

Next ==
    /\ UNCHANGED service
    /\ \/ service = "time" /\ TimeNext /\ UNCHANGED <<dppVars, queueVars, portVars, halVars>>
       \/ service = "dpp" /\ DppNext /\ UNCHANGED <<queueVars, portVars, halVars>>
       \/ service = "queue" /\ QueueNext /\ UNCHANGED <<timeVars, dppVars, portVars, halVars>>
       \/ service = "switch" /\ PortNext /\ UNCHANGED <<timeVars, dppVars, queueVars, halVars>>
       \/ service = "bus" /\ HalNext /\ UNCHANGED <<timeVars, dppVars, queueVars, portVars>>

\* The main loop of the application never stops ticking and running the kernel.
Fairness ==
    /\ WF_vars(service = "dpp" /\ tick /\ UNCHANGED <<service, queueVars, portVars, halVars>>)
    /\ WF_vars(service = "dpp" /\ PollAndRun /\ UNCHANGED <<service, queueVars, portVars, halVars>>)
    /\ WF_vars(/\ service = "dpp" /\ (DispatchTable \/ DispatchPhilo)
               /\ UNCHANGED <<service, queueVars, portVars, halVars>>)

Spec == Init /\ [][Next]_vars /\ Fairness

=============================================================================
