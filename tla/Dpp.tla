-------------------------------- MODULE Dpp --------------------------------
(***************************************************************************)
(* The dining philosophers, the application that every port of the         *)
(* repository runs: philosophers and a table as active objects on the QK   *)
(* kernel, driven by the timer wheel.  "host" is examples/dpp/src (QHsm,   *)
(* random thinking times, a table that can be paused); "esp" is            *)
(* examples/dpp/src/bin/esp32_c6.rs and its twin esp32_s3.rs (QMsm, fixed  *)
(* times, a queue of waiting philosophers).  Both run the kernel on one    *)
(* core; a handler runs to completion, so it is one step.                  *)
(***************************************************************************)
EXTENDS QfTime, FiniteSets

CONSTANTS
    ThinkTicks,  \* host: the values of think_ticks
    EatTicks,    \* host: the values of eat_ticks
    MaxPresses   \* bound: PAUSE and SERVE events posted from outside

VARIABLES
    build,   \* "host" or "esp"
    philo,   \* the state of each philosopher
    table,   \* the state of the table: "serving" or "paused"
    taken,   \* the forks in use (host: forks[f] = false; esp: forks[f] = true)
    hungry,  \* TableData.hungry of the host, as a set
    waiting, \* Table.waiting of the esp build
    inbox,   \* the event queues; the table's is at index TABLE
    presses  \* how many PAUSE and SERVE events came so far

dppVars == <<build, philo, table, taken, hungry, waiting, inbox, presses>>

Philos == DOMAIN philo
N == Cardinality(Philos)
TABLE == N

-----------------------------------------------------------------------------
(* The table. *)

left(i) == (i + 1) % N
right(i) == (i + N - 1) % N

can_eat(tk, i) == i \notin tk /\ left(i) \notin tk
take_forks(tk, i) == tk \cup {i, left(i)}
release_forks(tk, i) == tk \ {i, left(i)}

\* The table's data while it hands out forks.
TableData == [taken |-> taken, hungry |-> hungry, granted |-> {}]

grant_forks(d, i) ==
    [taken |-> take_forks(d.taken, i), hungry |-> d.hungry \ {i}, granted |-> d.granted \cup {i}]

\* Serve the philosophers of a list that are hungry and can eat, in order.
ServeHungry(d, i) ==
    IF i \in d.hungry /\ can_eat(d.taken, i) THEN grant_forks(d, i) ELSE d

ServeInOrder(d, list) ==
    LET after[k \in 0..Len(list)] == IF k = 0 THEN d ELSE ServeHungry(after[k - 1], list[k])
    IN  after[Len(list)]

handle_hungry(i) ==
    IF can_eat(taken, i) THEN grant_forks(TableData, i)
    ELSE [TableData EXCEPT !.hungry = @ \cup {i}]

handle_done(i) ==
    ServeInOrder([TableData EXCEPT !.taken = release_forks(@, i)], <<right(i), left(i)>>)

\* A plausible bug: the forks stay taken while the table is paused.
handle_paused_done_keeps(i) == TableData

handle_paused_done(i) == [TableData EXCEPT !.taken = release_forks(@, i)]

serving_entry == ServeInOrder(TableData, [k \in 1..N |-> k - 1])

\* A plausible bug: a philosopher that cannot eat is not put in the queue.
try_grant_forgets(d, i) ==
    IF can_eat(d.taken, i)
    THEN [d EXCEPT !.taken = take_forks(@, i), !.granted = @ \cup {i}]
    ELSE d

\* esp32_c6.rs: the waiting philosophers are tried again in order of arrival.
try_grant(d, i) ==
    IF can_eat(d.taken, i)
    THEN [d EXCEPT !.taken = take_forks(@, i), !.granted = @ \cup {i}]
    ELSE [d EXCEPT !.waiting = Append(@, i)]

TryInOrder(d, list) ==
    LET after[k \in 0..Len(list)] == IF k = 0 THEN d ELSE try_grant(after[k - 1], list[k])
    IN  after[Len(list)]

table_serving(sig, i) ==
    CASE sig = "HUNGRY" -> try_grant([taken |-> taken, waiting |-> waiting, granted |-> {}], i)
      [] sig = "DONE" ->
            TryInOrder([taken |-> release_forks(taken, i), waiting |-> <<>>, granted |-> {}], waiting)

\* Each grant posts EAT to its philosopher.
Granted(box, ids) ==
    [a \in DOMAIN box |-> IF a \in ids THEN Append(box[a], [sig |-> "EAT"]) ELSE box[a]]

SetTable(d, box, st) ==
    /\ table' = st
    /\ taken' = d.taken
    /\ hungry' = d.hungry
    /\ inbox' = Granted(box, d.granted)
    /\ UNCHANGED waiting

serving(e, box) ==
    /\ table = "serving"
    /\ CASE e.sig = "HUNGRY" -> SetTable(handle_hungry(e.philo), box, "serving")
         [] e.sig = "DONE" -> SetTable(handle_done(e.philo), box, "serving")
         [] e.sig = "PAUSE" -> SetTable(TableData, box, "paused")
         [] e.sig = "SERVE" -> SetTable(TableData, box, "serving")

paused(e, box) ==
    /\ table = "paused"
    /\ CASE e.sig = "HUNGRY" ->
                SetTable([TableData EXCEPT !.hungry = @ \cup {e.philo}], box, "paused")
         [] e.sig = "DONE" -> SetTable(handle_paused_done(e.philo), box, "paused")
         [] e.sig = "SERVE" -> SetTable(serving_entry, box, "serving")
         [] e.sig = "PAUSE" -> SetTable(TableData, box, "paused")

-----------------------------------------------------------------------------
(* The kernel: the ready active object of the highest priority is next.    *)

Ready == {a \in DOMAIN inbox : inbox[a] # <<>>}

\* Priorities: the table's is the highest, the philosophers' grow with the index.
NextAo == CHOOSE a \in Ready : \A b \in Ready : b <= a

Popped(a) == [inbox EXCEPT ![a] = Tail(@)]

DispatchTable ==
    /\ Ready # {}
    /\ NextAo = TABLE
    /\ LET e == Head(inbox[TABLE])
       IN \/ build = "host" /\ (serving(e, Popped(TABLE)) \/ paused(e, Popped(TABLE)))
          \/ /\ build = "esp"
             /\ LET d == table_serving(e.sig, e.philo)
                IN /\ taken' = d.taken
                   /\ waiting' = d.waiting
                   /\ inbox' = Granted(Popped(TABLE), d.granted)
             /\ UNCHANGED <<table, hungry>>
    /\ UNCHANGED <<build, philo, presses, timers, wheel, cursor>>

post_table(box, sig, i) == [box EXCEPT ![TABLE] = Append(@, [sig |-> sig, philo |-> i])]

(* Host: the exit action of the state that is left, then the entry action  *)
(* of the new one, as the handlers of philo.rs run in a transition.        *)

thinking(i, e) ==
    /\ philo[i] = "thinking" /\ e.sig = "TIMEOUT"
    /\ philo' = [philo EXCEPT ![i] = "hungry"]
    /\ timers' = [timers EXCEPT ![i] = disarm(@)]
    /\ inbox' = post_table(Popped(i), "HUNGRY", i)

hungry_state(i, e) ==
    /\ philo[i] = "hungry" /\ e.sig = "EAT"
    /\ philo' = [philo EXCEPT ![i] = "eating"]
    /\ \E n \in EatTicks : timers' = [timers EXCEPT ![i] = arm(@, n, None)]
    /\ inbox' = Popped(i)

eating(i, e) ==
    /\ philo[i] = "eating" /\ e.sig = "TIMEOUT"
    /\ philo' = [philo EXCEPT ![i] = "thinking"]
    /\ \E n \in ThinkTicks : timers' = [timers EXCEPT ![i] = arm(disarm(@), n, None)]
    /\ inbox' = post_table(Popped(i), "DONE", i)

(* ESP: the QMState tables. *)

schedule_think(tm, i) == arm(tm, 3 + (i % 3), None)
schedule_eat(tm, i) == arm(tm, 2 + (i % 3), None)

exit_action(st, s, i) ==
    CASE st = "thinking" -> [s EXCEPT !.timer = disarm(@)]
      [] st = "hungry" -> s
      [] st = "eating" -> [timer |-> disarm(s.timer), box |-> post_table(s.box, "DONE", i)]

entry_action(st, s, i) ==
    CASE st = "thinking" -> [s EXCEPT !.timer = schedule_think(@, i)]
      [] st = "hungry" -> [s EXCEPT !.box = post_table(@, "HUNGRY", i)]
      [] st = "eating" -> [s EXCEPT !.timer = schedule_eat(@, i)]

qm_tran(st, sig) ==
    CASE st = "thinking" /\ sig = "TIMEOUT" -> "hungry"
      [] st = "hungry" /\ sig = "EAT" -> "eating"
      [] st = "eating" /\ sig = "TIMEOUT" -> "thinking"

esp_philo(i, e) ==
    LET to == qm_tran(philo[i], e.sig)
        left_state == exit_action(philo[i], [timer |-> timers[i], box |-> Popped(i)], i)
        s == entry_action(to, left_state, i)
    IN /\ philo' = [philo EXCEPT ![i] = to]
       /\ timers' = [timers EXCEPT ![i] = s.timer]
       /\ inbox' = s.box

Handled(i, e) ==
    <<philo[i], e.sig>> \in {<<"thinking", "TIMEOUT">>, <<"hungry", "EAT">>, <<"eating", "TIMEOUT">>}

\* An event that no state of the philosopher handles is dropped at the top.
dropped(i) ==
    /\ inbox' = Popped(i)
    /\ UNCHANGED <<philo, timers>>

DispatchPhilo ==
    /\ Ready # {}
    /\ NextAo # TABLE
    /\ LET i == NextAo
           e == Head(inbox[i])
       IN IF Handled(i, e)
          THEN \/ build = "host" /\ (thinking(i, e) \/ hungry_state(i, e) \/ eating(i, e))
               \/ build = "esp" /\ esp_philo(i, e)
          ELSE dropped(i)
    /\ UNCHANGED <<build, table, taken, hungry, waiting, presses, wheel, cursor>>

\* The main loop calls tick again once the kernel is idle.
tick ==
    /\ Ready = {}
    /\ tick_rate(0)
    /\ UNCHANGED dppVars

\* QkTimerWheel::tick_rate: post_and_run returns when the kernel is idle, and
\* the loop goes on with the next time event.
PollAndRun ==
    /\ InTick /\ Ready = {}
    /\ timers' = [timers EXCEPT ![Current] = poll(@)]
    /\ inbox' = IF Fires(timers[Current])
                THEN [inbox EXCEPT ![Current] = Append(@, [sig |-> "TIMEOUT"])]
                ELSE inbox
    /\ Advance
    /\ UNCHANGED <<build, philo, table, taken, hungry, waiting, presses, wheel>>

\* External: PAUSE and SERVE come from outside the application.
Button(sig) ==
    /\ build = "host"
    /\ presses < MaxPresses
    /\ presses' = presses + 1
    /\ inbox' = [inbox EXCEPT ![TABLE] = Append(@, [sig |-> sig])]
    /\ UNCHANGED <<build, philo, table, taken, hungry, waiting, timeVars>>

\* kernel.start runs the initial transitions: each philosopher starts thinking.
build_runtime(n) ==
    [0..(n - 1) -> {arm(new_inner(None), k, None) : k \in ThinkTicks}]

build_application(n) ==
    {[i \in 0..(n - 1) |-> schedule_think(new_inner(None), i)]}

DppInit(b, n) ==
    /\ build = b
    /\ philo = [i \in 0..(n - 1) |-> "thinking"]
    /\ table = "serving"
    /\ taken = {}
    /\ hungry = {}
    /\ waiting = <<>>
    /\ inbox = [a \in 0..n |-> <<>>]
    /\ presses = 0
    /\ timers \in IF b = "host" THEN build_runtime(n) ELSE build_application(n)
    /\ wheel = [r \in 0..3 |-> IF r = 0 THEN [k \in 1..n |-> k - 1] ELSE <<>>]
    /\ cursor = Idle

DppNext ==
    \/ tick
    \/ PollAndRun
    \/ DispatchTable
    \/ DispatchPhilo
    \/ \E sig \in {"PAUSE", "SERVE"} : Button(sig)

DppSpec ==
    /\ \E n \in Nat \ {0, 1} : DppInit("host", n) \/ DppInit("esp", n)
    /\ [][DppNext]_<<dppVars, timeVars>>

-----------------------------------------------------------------------------
(* Properties. *)

Queued(a, P(_)) == {k \in DOMAIN inbox[a] : P(inbox[a][k])}

\* The philosophers that were given forks they have not given back.
Holds(i) ==
    \/ philo[i] = "eating"
    \/ Queued(i, LAMBDA e : e.sig = "EAT") # {}
    \/ Queued(TABLE, LAMBDA e : e.sig = "DONE" /\ e.philo = i) # {}

\* Every fork the table counts as taken is held by exactly one philosopher
\* beside it, and no fork is held that the table counts as free: neighbours
\* never eat together, and a pause or a resume between two messages never
\* leaks a fork (table.rs: take_forks, release_forks, handle_paused_done;
\* esp32_c6.rs: try_grant, release_forks).
ForksAccounted ==
    \A f \in Philos :
        Cardinality({i \in {f, right(f)} : Holds(i)}) = IF f \in taken THEN 1 ELSE 0

\* A hungry philosopher's request is in exactly one place: on its way to the
\* table, noted by the table, or granted and on its way back.
RequestAccounted ==
    \A i \in Philos :
        Cardinality(Queued(TABLE, LAMBDA e : e.sig = "HUNGRY" /\ e.philo = i))
          + Cardinality({k \in DOMAIN waiting : waiting[k] = i})
          + (IF i \in hungry THEN 1 ELSE 0)
          + Cardinality(Queued(i, LAMBDA e : e.sig = "EAT"))
        = IF philo[i] = "hungry" THEN 1 ELSE 0

\* The books of the table agree with the philosophers.
TableAccounts == ForksAccounted /\ RequestAccounted

\* No hungry philosopher is forgotten.  On the ESP boards each one eats in the
\* end; on the host, where the times are random, somebody eats or the table
\* is paused, and a table that is resumed serves again.
FinallyFed ==
    \A i \in 0..4 :
        (build # "none" /\ i \in Philos /\ philo[i] = "hungry")
            ~> \/ i \in Philos /\ philo[i] = "eating"
               \/ build = "host" /\ (table = "paused" \/ \E j \in Philos : philo[j] = "eating")

=============================================================================
