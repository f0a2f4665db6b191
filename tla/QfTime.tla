------------------------------- MODULE QfTime -------------------------------
(***************************************************************************)
(* Time events and the timer wheel (crates/qf/src/time.rs and its QK twin  *)
(* crates/qk/src/time.rs).  Any task may arm, rearm, disarm and question a *)
(* time event between two polls of a tick: each call holds the mutex of    *)
(* that one event.  The ghost fields first, polls and fires of an event    *)
(* count from the last call that set its counter.                          *)
(***************************************************************************)
EXTENDS Integers, Sequences, SequencesExt

CONSTANTS
    Timers,     \* the time events that are registered
    RateOf,     \* [Timers -> Nat]: TimeEventConfig.tick_rate
    Dangling,   \* the time events whose target is not registered with the kernel
    Timeouts,   \* the arguments of arm and rearm
    Intervals,  \* the periods, None for a one-shot
    None,       \* Option::None of a period, a negative number
    MaxPolls    \* bound: polls of one arming that are followed

ASSUME TimeAssumption ==
    /\ RateOf \in [Timers -> Nat]
    /\ Dangling \subseteq Timers
    /\ Timeouts \subseteq Nat
    /\ None \notin Nat
    /\ Intervals \subseteq Nat \cup {None}

VARIABLES
    timers,  \* the TimeEventInner of each time event
    wheel,   \* TimerWheel.events: per tick rate, the events in order of registration
    cursor   \* the tick in progress: [rate, pos], pos = 0 between ticks

timeVars == <<timers, wheel, cursor>>

-----------------------------------------------------------------------------
(* One time event. *)

new_inner(interval) ==
    [remaining |-> 0, interval |-> interval, armed |-> FALSE, disarmed_flag |-> FALSE,
     first |-> 0, polls |-> 0, fires |-> 0]

Restarted(tm, n) ==
    [tm EXCEPT !.remaining = n, !.armed = TRUE, !.first = n, !.polls = 0, !.fires = 0]

arm(tm, timeout, interval) == [Restarted(tm, timeout) EXCEPT !.interval = interval]

rearm(tm, timeout) == Restarted(tm, timeout)

disarm(tm) ==
    IF tm.armed
    THEN [tm EXCEPT !.armed = FALSE, !.remaining = 0, !.disarmed_flag = TRUE]
    ELSE tm

was_disarmed(tm) == [tm EXCEPT !.disarmed_flag = FALSE]

Expired(tm) ==
    [tm EXCEPT !.armed = tm.interval # None,
               !.remaining = IF tm.interval # None THEN tm.interval ELSE 0,
               !.disarmed_flag = @ \/ tm.interval = None,
               !.polls = @ + 1,
               !.fires = @ + 1]

\* A plausible bug: the counter is compared before it is decremented.
poll_compares_first(tm) ==
    CASE ~tm.armed -> tm
      [] tm.armed /\ tm.remaining = 0 -> Expired(tm)
      [] OTHER -> [tm EXCEPT !.remaining = @ - 1, !.polls = @ + 1]

poll(tm) ==
    CASE ~tm.armed -> tm
      [] tm.armed /\ tm.remaining \in {0, 1} -> Expired(tm)
      [] OTHER -> [tm EXCEPT !.remaining = @ - 1, !.polls = @ + 1]

Fires(tm) == poll(tm).fires > tm.fires

-----------------------------------------------------------------------------
(* The wheel. *)

\* The buckets of the four rates the wheel starts with; register adds the rest.
new_wheel(rates) == [r \in 0..(rates - 1) |-> <<>>]

register(w, t) ==
    [r \in DOMAIN w \cup 0..RateOf[t] |->
        IF r = RateOf[t]
        THEN Append(IF r \in DOMAIN w THEN w[r] ELSE <<>>, t)
        ELSE IF r \in DOMAIN w THEN w[r] ELSE <<>>]

Idle == [rate |-> 0, pos |-> 0]

InTick == cursor.pos # 0

TimeInit(interval) ==
    /\ timers = [t \in Timers |-> new_inner(interval)]
    /\ wheel = new_wheel(1)
    /\ cursor = Idle

Register(t) ==
    /\ ~InTick
    /\ \A r \in DOMAIN wheel : t \notin ToSet(wheel[r])
    /\ wheel' = register(wheel, t)
    /\ UNCHANGED <<timers, cursor>>

\* A tick of a rate without a bucket, or with an empty one, is over at once.
tick_rate(r) ==
    /\ ~InTick
    /\ r \in DOMAIN wheel /\ wheel[r] # <<>>
    /\ cursor' = [rate |-> r, pos |-> 1]
    /\ UNCHANGED <<timers, wheel>>

Advance ==
    cursor' = IF cursor.pos = Len(wheel[cursor.rate])
              THEN Idle
              ELSE [cursor EXCEPT !.pos = @ + 1]

\* The event that the loop of tick_rate is at.
Current == wheel[cursor.rate][cursor.pos]

\* One turn of the loop: an expired event is posted; the tick ends with the
\* first post that the kernel refuses, and the events after it are not polled.
PollCurrent ==
    /\ InTick
    /\ timers[Current].polls < MaxPolls
    /\ timers' = [timers EXCEPT ![Current] = poll(@)]
    /\ IF Fires(timers[Current]) /\ Current \in Dangling
       THEN cursor' = Idle
       ELSE Advance
    /\ UNCHANGED wheel

Client ==
    \E t \in Timers :
        /\ UNCHANGED <<wheel, cursor>>
        /\ \/ \E n \in Timeouts, p \in Intervals :
                timers' = [timers EXCEPT ![t] = arm(@, n, p)]
           \/ \E n \in Timeouts : timers' = [timers EXCEPT ![t] = rearm(@, n)]
           \/ timers' = [timers EXCEPT ![t] = disarm(@)]
           \/ timers' = [timers EXCEPT ![t] = was_disarmed(@)]

TimeNext ==
    \/ \E t \in Timers : Register(t)
    \/ \E r \in {RateOf[t] : t \in Timers} : tick_rate(r)
    \/ PollCurrent
    \/ Client

TimeSpec == (\E p \in Intervals : TimeInit(p)) /\ [][TimeNext]_timeVars

-----------------------------------------------------------------------------
(* What the counter promises. *)

AtLeastOne(n) == IF n = 0 THEN 1 ELSE n

\* The number of times an event must have fired after some polls: the first
\* time after its timeout, then once a period; zero counts as one tick.
FiresAfter(tm) ==
    LET first == AtLeastOne(tm.first)
    IN CASE tm.polls < first -> 0
         [] tm.polls >= first /\ tm.interval = None -> 1
         [] OTHER -> 1 + (tm.polls - first) \div AtLeastOne(tm.interval)

\* Time events neither drift nor fire early: since the call that set its
\* counter, an event was posted exactly as often as its timeout and its period
\* say for the polls it got, whatever calls came between the polls
\* (time.rs: arm, rearm, disarm, poll).
FiresOnTime == \A t \in DOMAIN timers : timers[t].fires = FiresAfter(timers[t])

=============================================================================
