--------------------------- MODULE ServiceProofs ---------------------------
(***************************************************************************)
(* Time events fire when they are due (FiresOnTime), for every set of      *)
(* timers, timeouts and periods, whatever clients do between two polls;    *)
(* the bounded queues keep the margin and account for every event          *)
(* (MarginKept, ExactlyOnce), for every capacity, margin and storage; the  *)
(* bus drivers move every byte once and in order (DriverHonest), for every *)
(* length, FIFO and register size and every fault of the I2C bus; the      *)
(* table of the philosophers accounts for every fork and every request     *)
(* (TableAccounts), for every number of philosophers.                      *)
(***************************************************************************)
EXTENDS Dpp, QfQueue, HalBus, WellFoundedInduction, FiniteSetTheorems, SequenceTheorems, TLAPS

-----------------------------------------------------------------------------
(* Time events. *)

TimerType ==
    [remaining : Nat, interval : Nat \cup {None}, armed : BOOLEAN, disarmed_flag : BOOLEAN,
     first : Nat, polls : Nat, fires : Nat]

\* What is left to count, in polls: the counter's zero is served by the next
\* poll, as its one is.
Left(tm) == AtLeastOne(tm.remaining)

\* A running counter stands where its timeout, or the number of its expiries
\* and its period, put it.
CounterInv(tm) ==
    tm.armed =>
        \/ tm.fires = 0 /\ tm.polls + Left(tm) = AtLeastOne(tm.first)
        \/ /\ tm.fires > 0 /\ tm.interval # None
           /\ Left(tm) <= AtLeastOne(tm.interval)
           /\ tm.polls - AtLeastOne(tm.first)
                = AtLeastOne(tm.interval) * tm.fires - Left(tm)

TimerInv(tm) == tm \in TimerType /\ CounterInv(tm) /\ tm.fires = FiresAfter(tm)

TimeInv == timers \in [Timers -> TimerType] /\ \A t \in Timers : TimerInv(timers[t])

\* The quotient, from its bounds.
LEMMA Quotient ==
    ASSUME NEW q \in Int, NEW n \in Int, NEW d \in Nat, d * q <= n, n < d * (q + 1)
    PROVE  n \div d = q
  BY SMT

LEMMA Distance ==
    ASSUME NEW d \in Nat, NEW k \in Nat, NEW r \in Nat, NEW x \in Int,
           1 <= r, r <= d, x = d * k - r
    PROVE  d * (k - 1) <= x /\ x < d * k /\ x + 1 = d * k - (r - 1)
  BY SMT

\* A counter that was set anew, by arm or by rearm.
LEMMA RestartedInv ==
    ASSUME NEW tm \in TimerType, NEW n \in Nat, NEW p \in Nat \cup {None}
    PROVE  TimerInv(rearm(tm, n)) /\ TimerInv(arm(tm, n, p))
PROOF
  <1>1. rearm(tm, n) \in TimerType /\ arm(tm, n, p) \in TimerType
    BY DEF TimerType, rearm, arm, Restarted
  <1>2. ASSUME NEW new \in TimerType,
               new.remaining = n, new.first = n, new.polls = 0, new.fires = 0
        PROVE  TimerInv(new)
    BY <1>2 DEF TimerInv, TimerType, CounterInv, FiresAfter, AtLeastOne, Left
  <1>3. /\ rearm(tm, n).remaining = n /\ rearm(tm, n).first = n
        /\ rearm(tm, n).polls = 0 /\ rearm(tm, n).fires = 0
        /\ arm(tm, n, p).remaining = n /\ arm(tm, n, p).first = n
        /\ arm(tm, n, p).polls = 0 /\ arm(tm, n, p).fires = 0
    BY DEF TimerType, rearm, arm, Restarted
  <1> QED BY <1>1, <1>2, <1>3

LEMMA DisarmInv ==
    ASSUME NEW tm, TimerInv(tm)
    PROVE  TimerInv(disarm(tm)) /\ TimerInv(was_disarmed(tm))
  BY DEF TimerInv, TimerType, disarm, was_disarmed, CounterInv, FiresAfter, AtLeastOne, Left

\* A poll that only counts down.
LEMMA CountDownInv ==
    ASSUME NEW tm, TimerInv(tm), tm.armed, tm.remaining \notin {0, 1}
    PROVE  TimerInv([tm EXCEPT !.remaining = @ - 1, !.polls = @ + 1])
PROOF
  <1> DEFINE new == [tm EXCEPT !.remaining = @ - 1, !.polls = @ + 1]
             I == AtLeastOne(tm.interval)
             F == AtLeastOne(tm.first)
  <1>1. /\ tm \in TimerType /\ new \in TimerType
        /\ tm.remaining \in Nat /\ tm.remaining >= 2
        /\ new.remaining = tm.remaining - 1 /\ new.polls = tm.polls + 1
        /\ new.fires = tm.fires /\ new.interval = tm.interval /\ new.first = tm.first
    <2>1. tm \in TimerType BY DEF TimerInv
    <2>2. tm.remaining \in Nat /\ tm.remaining >= 2 /\ tm.remaining - 1 \in Nat /\ tm.polls + 1 \in Nat
      BY <2>1 DEF TimerType
    <2>3. new \in TimerType
      BY <2>1, <2>2 DEF TimerType
    <2> QED BY <2>1, <2>2, <2>3 DEF TimerType
  <1>2. /\ Left(tm) = tm.remaining /\ Left(new) = tm.remaining - 1
        /\ F \in Nat /\ F >= 1
    BY <1>1 DEF Left, AtLeastOne, TimerType
  <1>3. CASE tm.fires = 0 /\ tm.polls + Left(tm) = F
    <2>1. CounterInv(new)
      BY <1>1, <1>2, <1>3 DEF CounterInv, TimerType
    <2>2. FiresAfter(new) = 0
      BY <1>1, <1>2, <1>3 DEF FiresAfter, TimerType
    <2> QED BY <1>1, <1>3, <2>1, <2>2 DEF TimerInv
  <1>4. CASE /\ tm.fires > 0 /\ tm.interval # None /\ Left(tm) <= I
             /\ tm.polls - F = I * tm.fires - Left(tm)
    <2>0. I \in Nat /\ I >= 1 /\ tm.fires \in Nat /\ tm.polls \in Nat
      BY <1>1, <1>4 DEF AtLeastOne, TimerType
    <2>1. CounterInv(new)
      <3>1. new.polls - F = I * tm.fires - Left(new)
        <4> DEFINE m == I * tm.fires
        <4>1. m \in Int BY <2>0
        <4>2. tm.polls - F = m - Left(tm) BY <1>4
        <4> HIDE DEF m, F, new
        <4>3. tm.polls + 1 - F = m - (tm.remaining - 1)
          BY <4>1, <4>2, <1>1, <1>2, <2>0
        <4>4. new.polls - F = tm.polls + 1 - F BY <1>1, <1>2, <2>0
        <4>5. m - Left(new) = m - (tm.remaining - 1) BY <1>2
        <4> QED BY <4>3, <4>4, <4>5 DEF m
      <3> QED BY <3>1, <1>1, <1>2, <1>4, <2>0 DEF CounterInv
    <2>2. /\ I * (tm.fires - 1) <= new.polls - F /\ new.polls - F < I * tm.fires
          /\ new.polls - F \in Int
      <3>1. new.polls - F = I * tm.fires - Left(new) /\ new.polls - F \in Int
        BY <2>1, <1>1, <1>4, <1>2, <2>0 DEF CounterInv
      <3>2. Left(new) \in Nat /\ 1 <= Left(new) /\ Left(new) <= I
        BY <1>1, <1>2, <1>4, <2>0
      <3> HIDE DEF F, I, new
      <3> QED BY <3>1, <3>2, <2>0, Distance
    <2>3. (new.polls - F) \div I = tm.fires - 1
      <3> HIDE DEF F, I, new
      <3> QED BY <2>0, <2>2, Quotient
    <2>4. new.polls >= F
      <3>1. I * (tm.fires - 1) >= 0
        BY <2>0, <1>4
      <3> HIDE DEF F, I
      <3> QED BY <3>1, <2>2, <2>0, <1>1, <1>2
    <2>5. FiresAfter(new) = 1 + (new.polls - F) \div I
      BY <1>1, <1>2, <1>4, <2>0, <2>4 DEF FiresAfter
    <2> QED BY <1>1, <2>0, <2>1, <2>3, <2>5 DEF TimerInv
  <1> QED BY <1>3, <1>4 DEF TimerInv, CounterInv

\* A poll that finds the counter at its end: a one-shot stops, a periodic event
\* starts over.
LEMMA ExpiredInv ==
    ASSUME NEW tm, TimerInv(tm), tm.armed, tm.remaining \in {0, 1}
    PROVE  TimerInv(Expired(tm))
PROOF
  <1> DEFINE new == Expired(tm)
             I == AtLeastOne(tm.interval)
             F == AtLeastOne(tm.first)
  <1>1. /\ tm \in TimerType /\ new \in TimerType
        /\ new.polls = tm.polls + 1 /\ new.fires = tm.fires + 1
        /\ new.interval = tm.interval /\ new.first = tm.first
        /\ tm.interval # None => new.remaining = tm.interval
        /\ tm.interval = None => ~new.armed
    <2>1. tm \in TimerType BY DEF TimerInv
    <2>2. tm.polls + 1 \in Nat /\ tm.fires + 1 \in Nat
      BY <2>1 DEF TimerType
    <2>3. new \in TimerType
      <3>1. (tm.disarmed_flag \/ tm.interval = None) \in BOOLEAN /\ (tm.interval # None) \in BOOLEAN
        OBVIOUS
      <3>2. (IF tm.interval # None THEN tm.interval ELSE 0) \in Nat
        BY <2>1 DEF TimerType
      <3> QED BY <2>1, <2>2, <3>1, <3>2 DEF TimerType, Expired
    <2>4. /\ new.polls = tm.polls + 1 /\ new.fires = tm.fires + 1
          /\ new.interval = tm.interval /\ new.first = tm.first
          /\ tm.interval # None => new.remaining = tm.interval
      BY <2>1 DEF TimerType, Expired
    <2>5. tm.interval = None => ~new.armed
      BY <2>1 DEF TimerType, Expired
    <2> QED BY <2>1, <2>3, <2>4, <2>5
  <1>2. /\ Left(tm) = 1 /\ F \in Nat /\ F >= 1
        /\ tm.polls \in Nat /\ tm.fires \in Nat
    BY <1>1 DEF Left, AtLeastOne, TimerType
  <1>3. CASE tm.interval = None
    <2>1. tm.fires = 0 /\ tm.polls + 1 = F
      BY <1>2, <1>3 DEF TimerInv, CounterInv
    <2>2. FiresAfter(new) = 1
      BY <1>1, <1>2, <1>3, <2>1 DEF FiresAfter
    <2>3. CounterInv(new)
      BY <1>1, <1>3 DEF CounterInv
    <2> QED BY <1>1, <1>2, <2>1, <2>2, <2>3 DEF TimerInv
  <1>4. CASE tm.interval # None
    <2>0. I \in Nat /\ I >= 1 /\ Left(new) = I
      BY <1>1, <1>4 DEF AtLeastOne, Left, TimerType
    <2>1. tm.polls + 1 - F = I * tm.fires
      <3>1. CASE tm.fires = 0 /\ tm.polls + Left(tm) = F
        <4>1. I * tm.fires = 0 BY <3>1, <2>0
        <4> HIDE DEF I, F
        <4> QED BY <3>1, <4>1, <1>2
      <3>2. CASE tm.polls - F = I * tm.fires - Left(tm)
        <4>1. I * tm.fires \in Int BY <2>0, <1>2
        <4> HIDE DEF I, F
        <4> QED BY <3>2, <4>1, <1>2
      <3> QED BY <3>1, <3>2 DEF TimerInv, CounterInv
    <2>2. I * (tm.fires + 1) = I * tm.fires + I /\ I * tm.fires \in Nat
      <3> HIDE DEF I
      <3> QED BY <2>0, <1>2
    <2>3. CounterInv(new)
      <3>1. new.polls - F = I * new.fires - Left(new)
        <4> HIDE DEF I, F, new
        <4> QED BY <2>0, <2>1, <2>2, <1>1, <1>2
      <3> QED BY <3>1, <1>1, <1>2, <1>4, <2>0 DEF CounterInv
    <2>4. (new.polls - F) \div I = tm.fires
      <3>1. new.polls - F = I * tm.fires /\ new.polls - F \in Int
        BY <1>1, <1>2, <2>1
      <3>2. I * tm.fires < I * (tm.fires + 1)
        <4> HIDE DEF I
        <4> QED BY <2>0, <2>2
      <3> HIDE DEF I, F, new
      <3> QED BY <3>1, <3>2, <2>0, <1>2, Quotient
    <2>5. new.polls >= F
      <3> HIDE DEF I, F, new
      <3> QED BY <2>1, <2>2, <1>1, <1>2
    <2>6. FiresAfter(new) = 1 + (new.polls - F) \div I
      BY <1>1, <1>2, <1>4, <2>5 DEF FiresAfter
    <2> QED BY <1>1, <1>2, <2>3, <2>4, <2>6 DEF TimerInv
  <1> QED BY <1>3, <1>4

LEMMA PollInv ==
    ASSUME NEW tm, TimerInv(tm)
    PROVE  TimerInv(poll(tm))
PROOF
  <1>1. CASE ~tm.armed
    BY <1>1 DEF poll
  <1>2. CASE tm.armed /\ tm.remaining \in {0, 1}
    <2>1. poll(tm) = Expired(tm)
      BY <1>2 DEF poll
    <2> QED BY <1>2, <2>1, ExpiredInv
  <1>3. CASE tm.armed /\ tm.remaining \notin {0, 1}
    <2>1. poll(tm) = [tm EXCEPT !.remaining = @ - 1, !.polls = @ + 1]
      BY <1>3 DEF poll
    <2> QED BY <1>3, <2>1, CountDownInv
  <1> QED BY <1>1, <1>2, <1>3

LEMMA TimeInvInit ==
    ASSUME NEW p \in Intervals, TimeInit(p)
    PROVE  TimeInv
PROOF
  <1>1. p \in Nat \cup {None} BY TimeAssumption
  <1>2. new_inner(p) \in TimerType BY <1>1 DEF new_inner, TimerType
  <1>3. TimerInv(new_inner(p))
    BY <1>2 DEF TimerInv, CounterInv, FiresAfter, AtLeastOne, new_inner
  <1> QED BY <1>2, <1>3 DEF TimeInit, TimeInv

\* One event changes to one that satisfies the invariant.
LEMMA OneTimer ==
    ASSUME TimeInv, NEW t, NEW tm, t \in Timers => TimerInv(tm),
           timers' = [timers EXCEPT ![t] = tm]
    PROVE  TimeInv'
  BY DEF TimeInv, TimerInv

LEMMA TimeInvNext ==
    ASSUME TimeInv, [TimeNext]_timeVars
    PROVE  TimeInv'
PROOF
  <1>1. CASE timers' = timers
    BY <1>1 DEF TimeInv
  <1>2. CASE PollCurrent
    <2>1. Current \in Timers => TimerInv(poll(timers[Current]))
      BY PollInv DEF TimeInv
    <2>2. timers' = [timers EXCEPT ![Current] = poll(timers[Current])]
      BY <1>2 DEF PollCurrent
    <2> QED BY <2>1, <2>2, OneTimer
  <1>3. CASE Client
    <2>1. PICK t \in Timers :
            \/ \E n \in Timeouts, p \in Intervals :
                timers' = [timers EXCEPT ![t] = arm(timers[t], n, p)]
            \/ \E n \in Timeouts : timers' = [timers EXCEPT ![t] = rearm(timers[t], n)]
            \/ timers' = [timers EXCEPT ![t] = disarm(timers[t])]
            \/ timers' = [timers EXCEPT ![t] = was_disarmed(timers[t])]
      BY <1>3 DEF Client
    <2>2. timers[t] \in TimerType /\ TimerInv(timers[t])
      BY DEF TimeInv, TimerInv
    <2>3. ASSUME NEW n \in Timeouts, NEW p \in Intervals
          PROVE  TimerInv(arm(timers[t], n, p)) /\ TimerInv(rearm(timers[t], n))
      <3>1. n \in Nat /\ p \in Nat \cup {None} BY TimeAssumption
      <3> QED BY <2>2, <3>1, RestartedInv
    <2>4. ASSUME NEW n \in Timeouts
          PROVE  TimerInv(rearm(timers[t], n))
      <3>1. n \in Nat BY TimeAssumption
      <3> QED BY <2>2, <3>1, RestartedInv
    <2>5. TimerInv(disarm(timers[t])) /\ TimerInv(was_disarmed(timers[t]))
      BY <2>2, DisarmInv
    <2> QED BY <2>1, <2>3, <2>4, <2>5, OneTimer
  <1>4. CASE UNCHANGED timeVars
    BY <1>4, <1>1 DEF timeVars
  <1>5. CASE (\E t \in Timers : Register(t)) \/ (\E r \in {RateOf[t] : t \in Timers} : tick_rate(r))
    BY <1>5, <1>1 DEF Register, tick_rate
  <1> QED BY <1>2, <1>3, <1>4, <1>5 DEF TimeNext

\* Time events neither drift nor fire early, for any timers, timeouts and periods:
\* the countdown of TimeEvent::poll, the one tick that 0 stands for, and every
\* call of arm, rearm and disarm between two polls.
THEOREM TimersAreExact == TimeSpec => []FiresOnTime
PROOF
  <1>1. (\E p \in Intervals : TimeInit(p)) => TimeInv
    BY TimeInvInit
  <1>2. TimeInv /\ [TimeNext]_timeVars => TimeInv'
    BY TimeInvNext
  <1>3. TimeInv => FiresOnTime
    BY DEF TimeInv, TimerInv, FiresOnTime
  <1> QED BY <1>1, <1>2, <1>3, PTL DEF TimeSpec

-----------------------------------------------------------------------------
(* Sequences of events: what the operations of a queue do to them. *)

EventType == [id : Nat, class : {"normal", "critical"}, margin : Nat]
Events == Seq(EventType)

Ids(s) == {s[k].id : k \in DOMAIN s}
Distinct(s) == \A j, k \in DOMAIN s : s[j].id = s[k].id => j = k

\* r is s without its first n events, s with e behind it, s with e before it.
Dropped(s, r, n) == Len(r) = Len(s) - n /\ \A k \in 1..Len(r) : r[k] = s[k + n]
Behind(s, r, e) == Len(r) = Len(s) + 1 /\ r[Len(s) + 1] = e /\ \A k \in 1..Len(s) : r[k] = s[k]
Before(s, r, e) == Len(r) = Len(s) + 1 /\ r[1] = e /\ \A k \in 1..Len(s) : r[k + 1] = s[k]

LEMMA TailDrops ==
    ASSUME NEW s \in Events, s # <<>>
    PROVE  /\ Tail(s) \in Events /\ Dropped(s, Tail(s), 1)
           /\ Head(s) = s[1] /\ Head(s) \in EventType /\ 1 \in DOMAIN s /\ Len(s) \in Nat \ {0}
  BY DEF Events, Dropped

LEMMA SubSeqDrops ==
    ASSUME NEW s \in Events, NEW n \in 0..Len(s)
    PROVE  SubSeq(s, n + 1, Len(s)) \in Events /\ Dropped(s, SubSeq(s, n + 1, Len(s)), n)
PROOF
  <1>1. Len(s) \in Nat /\ n \in Nat /\ \A i \in (n + 1)..Len(s) : s[i] \in EventType
    BY DEF Events
  <1>2. /\ SubSeq(s, n + 1, Len(s)) \in Seq(EventType)
        /\ Len(SubSeq(s, n + 1, Len(s))) = IF n + 1 <= Len(s) THEN Len(s) - (n + 1) + 1 ELSE 0
        /\ \A i \in 1..(Len(s) - (n + 1) + 1) : SubSeq(s, n + 1, Len(s))[i] = s[n + 1 + i - 1]
    BY <1>1, SubSeqProperties
  <1>3. ASSUME NEW k \in 1..(Len(s) - n)
        PROVE  SubSeq(s, n + 1, Len(s))[k] = s[k + n]
    BY <1>1, <1>2
  <1> QED BY <1>1, <1>2, <1>3 DEF Dropped, Events

LEMMA AppendIsBehind ==
    ASSUME NEW s \in Events, NEW e \in EventType
    PROVE  Append(s, e) \in Events /\ Behind(s, Append(s, e), e)
  BY DEF Events, Behind

LEMMA ConcatIsBefore ==
    ASSUME NEW s \in Events, NEW e \in EventType
    PROVE  <<e>> \o s \in Events /\ Before(s, <<e>> \o s, e)
  BY DEF Events, Before

LEMMA DroppedIds ==
    ASSUME NEW s \in Events, NEW r \in Events, NEW n \in 0..Len(s), Dropped(s, r, n), Distinct(s)
    PROVE  /\ Distinct(r)
           /\ Ids(s) = Ids(r) \cup {s[k].id : k \in 1..n}
           /\ Ids(r) \cap {s[k].id : k \in 1..n} = {}
PROOF
  <1>1. /\ Len(s) \in Nat /\ Len(r) \in Nat /\ n \in Nat /\ Len(r) = Len(s) - n
        /\ DOMAIN s = 1..Len(s) /\ DOMAIN r = 1..Len(r)
        /\ \A k \in 1..Len(r) : r[k] = s[k + n] /\ k + n \in 1..Len(s)
    BY DEF Events, Dropped
  <1>2. Distinct(r)
    <2> SUFFICES ASSUME NEW j \in 1..Len(r), NEW k \in 1..Len(r), r[j].id = r[k].id PROVE j = k
      BY <1>1 DEF Distinct
    <2>1. j + n \in DOMAIN s /\ k + n \in DOMAIN s /\ s[j + n].id = s[k + n].id
      BY <1>1
    <2>2. j + n = k + n
      BY <2>1 DEF Distinct
    <2> QED BY <1>1, <2>2
  <1>3. ASSUME NEW k \in 1..Len(s), k > n
        PROVE  k - n \in 1..Len(r) /\ r[k - n] = s[k]
    BY <1>1, <1>3
  <1>4. Ids(s) \subseteq Ids(r) \cup {s[k].id : k \in 1..n}
    <2> SUFFICES ASSUME NEW k \in 1..Len(s), k \notin 1..n PROVE s[k].id \in Ids(r)
      BY <1>1 DEF Ids
    <2>1. k > n BY <1>1
    <2> QED BY <2>1, <1>1, <1>3 DEF Ids
  <1>5. Ids(r) \cup {s[k].id : k \in 1..n} \subseteq Ids(s)
    BY <1>1 DEF Ids
  <1>6. ASSUME NEW j \in 1..Len(r), NEW k \in 1..n, r[j].id = s[k].id PROVE FALSE
    <2>1. j + n \in 1..Len(s) /\ k \in 1..Len(s) /\ s[j + n].id = s[k].id /\ j + n # k
      BY <1>1, <1>6
    <2> QED BY <2>1, <1>1 DEF Distinct
  <1>7. Ids(r) \cap {s[k].id : k \in 1..n} = {}
    <2> SUFFICES ASSUME NEW i \in Ids(r), i \in {s[k].id : k \in 1..n} PROVE FALSE
      OBVIOUS
    <2>1. PICK j \in 1..Len(r) : i = r[j].id
      BY <1>1 DEF Ids
    <2>2. PICK k \in 1..n : i = s[k].id
      OBVIOUS
    <2> QED BY <2>1, <2>2, <1>6
  <1>8. Ids(s) = Ids(r) \cup {s[k].id : k \in 1..n}
    BY <1>4, <1>5
  <1> QED BY <1>2, <1>7, <1>8

LEMMA TailIds ==
    ASSUME NEW s \in Events, s # <<>>, Distinct(s)
    PROVE  /\ Distinct(Tail(s)) /\ Ids(s) = Ids(Tail(s)) \cup {Head(s).id}
           /\ Head(s).id \notin Ids(Tail(s))
PROOF
  <1>1. /\ Tail(s) \in Events /\ Dropped(s, Tail(s), 1) /\ Head(s) = s[1] /\ 1 \in 0..Len(s)
    BY TailDrops
  <1>2. {s[k].id : k \in 1..1} = {Head(s).id}
    BY <1>1
  <1> QED BY <1>1, <1>2, DroppedIds

LEMMA PushedIds ==
    ASSUME NEW s \in Events, NEW r \in Events, NEW e \in EventType,
           Behind(s, r, e) \/ Before(s, r, e)
    PROVE  /\ Ids(r) = Ids(s) \cup {e.id}
           /\ Distinct(s) /\ e.id \notin Ids(s) => Distinct(r)
           /\ e \in ToSet(r)
PROOF
  <1>1. /\ Len(s) \in Nat /\ Len(r) = Len(s) + 1 /\ DOMAIN s = 1..Len(s) /\ DOMAIN r = 1..(Len(s) + 1)
    BY DEF Events, Behind, Before
  <1>2. CASE Behind(s, r, e)
    <2>1. r[Len(s) + 1] = e /\ Len(s) + 1 \in DOMAIN r /\ \A k \in DOMAIN s : k \in DOMAIN r /\ r[k] = s[k]
      BY <1>1, <1>2 DEF Behind
    <2>2. \A k \in DOMAIN r : k = Len(s) + 1 \/ k \in DOMAIN s
      BY <1>1
    <2> QED BY <2>1, <2>2 DEF Ids, Distinct, ToSet
  <1>3. CASE Before(s, r, e)
    <2>1. r[1] = e /\ 1 \in DOMAIN r /\ \A k \in DOMAIN s : k + 1 \in DOMAIN r /\ r[k + 1] = s[k]
      BY <1>1, <1>3 DEF Before
    <2>2. \A k \in DOMAIN r : k = 1 \/ (k - 1 \in DOMAIN s /\ r[k] = s[k - 1])
      BY <1>1, <1>3 DEF Before
    <2>3. Ids(r) = Ids(s) \cup {e.id}
      BY <2>1, <2>2 DEF Ids
    <2>4. ASSUME Distinct(s), e.id \notin Ids(s), NEW j \in DOMAIN r, NEW k \in DOMAIN r, r[j].id = r[k].id
          PROVE  j = k
      <3>1. j \in Int /\ k \in Int BY <1>1
      <3>2. CASE j = 1 /\ k # 1 BY <2>1, <2>2, <2>4, <3>2 DEF Ids
      <3>3. CASE j # 1 /\ k = 1 BY <2>1, <2>2, <2>4, <3>3 DEF Ids
      <3>4. CASE j # 1 /\ k # 1
        <4>1. j - 1 = k - 1 BY <2>2, <2>4, <3>4 DEF Distinct
        <4> QED BY <3>1, <4>1
      <3> QED BY <3>2, <3>3, <3>4
    <2> QED BY <2>1, <2>3, <2>4 DEF Distinct, ToSet
  <1> QED BY <1>2, <1>3

-----------------------------------------------------------------------------
(* The reserve: MarginKept over any sequence of events. *)

Normals(s, n) == {k \in DOMAIN s : s[k].class = "normal" /\ s[k].id <= n}

Kept(s, cap) ==
    \A j \in DOMAIN s :
        s[j].class = "normal" => Cardinality(Normals(s, s[j].id)) <= cap - least(s[j].margin, cap)

LEMMA NormalsBounded ==
    ASSUME NEW s \in Events, NEW n \in Nat
    PROVE  /\ IsFiniteSet(Normals(s, n)) /\ Cardinality(Normals(s, n)) \in Nat
           /\ Cardinality(Normals(s, n)) <= Len(s)
PROOF
  <1>1. Len(s) \in Nat /\ DOMAIN s = 1..Len(s)
    BY DEF Events
  <1>2. IsFiniteSet(1..Len(s)) /\ Cardinality(1..Len(s)) = Len(s)
    <2>1. /\ IsFiniteSet(1..Len(s))
          /\ Cardinality(1..Len(s)) = IF 1 > Len(s) THEN 0 ELSE Len(s) - 1 + 1
      BY <1>1, FS_Interval
    <2> QED BY <1>1, <2>1
  <1>3. Normals(s, n) \in SUBSET (1..Len(s))
    BY <1>1 DEF Normals
  <1> QED BY <1>2, <1>3, FS_Subset, FS_CardinalityType

\* Places of r that a shift takes to places of s with the same events.
LEMMA ShiftedNormals ==
    ASSUME NEW s \in Events, NEW r \in Events, NEW n \in Nat, NEW d \in Int,
           \A k \in Normals(r, n) : k + d \in DOMAIN s /\ s[k + d] = r[k]
    PROVE  Cardinality(Normals(r, n)) <= Cardinality(Normals(s, n))
PROOF
  <1> DEFINE f == [k \in Normals(r, n) |-> k + d]
  <1>1. Normals(r, n) \subseteq Int
    BY DEF Normals, Events
  <1>2. ASSUME NEW k \in Normals(r, n)
        PROVE  k + d \in Normals(s, n)
    BY <1>2 DEF Normals
  <1>3. ASSUME NEW a \in Normals(r, n), NEW b \in Normals(r, n), a + d = b + d
        PROVE  a = b
    <2>1. a \in Int /\ b \in Int BY <1>1
    <2> QED BY <1>3, <2>1
  <1>4. f \in Injection(Normals(r, n), Normals(s, n))
    <2>1. f \in [Normals(r, n) -> Normals(s, n)]
      BY <1>2
    <2>2. ASSUME NEW a \in Normals(r, n), NEW b \in Normals(r, n), f[a] = f[b] PROVE a = b
      BY <1>3, <2>2
    <2> HIDE DEF f
    <2> QED BY <2>1, <2>2 DEF Injection, IsInjective
  <1> QED BY <1>4, NormalsBounded, FS_Injection

LEMMA LeastFacts ==
    ASSUME NEW a \in Nat, NEW b \in Nat
    PROVE  least(a, b) \in Nat /\ least(a, b) <= a /\ least(a, b) <= b /\ (a <= b => least(a, b) = a)
  BY DEF least

LEMMA EventFields ==
    ASSUME NEW s \in Events, NEW k \in DOMAIN s
    PROVE  /\ s[k] \in EventType /\ s[k].id \in Nat /\ s[k].margin \in Nat
           /\ s[k].class \in {"normal", "critical"}
PROOF
  <1>1. s[k] \in EventType BY DEF Events
  <1> QED BY <1>1 DEF EventType

LEMMA KeptDropped ==
    ASSUME NEW s \in Events, NEW r \in Events, NEW n \in 0..Len(s), Dropped(s, r, n),
           NEW cap \in Nat, Kept(s, cap)
    PROVE  Kept(r, cap)
PROOF
  <1>1. /\ Len(s) \in Nat /\ Len(r) \in Nat /\ n \in Nat /\ Len(r) = Len(s) - n
        /\ DOMAIN s = 1..Len(s) /\ DOMAIN r = 1..Len(r)
        /\ \A k \in 1..Len(r) : r[k] = s[k + n] /\ k + n \in 1..Len(s)
    BY DEF Events, Dropped
  <1> SUFFICES ASSUME NEW j \in DOMAIN r, r[j].class = "normal"
               PROVE  Cardinality(Normals(r, r[j].id)) <= cap - least(r[j].margin, cap)
    BY DEF Kept
  <1>2. r[j] \in EventType /\ r[j].id \in Nat /\ r[j].margin \in Nat
    BY EventFields
  <1>3. j + n \in DOMAIN s /\ s[j + n] = r[j]
    BY <1>1
  <1>4. Cardinality(Normals(s, r[j].id)) <= cap - least(r[j].margin, cap)
    BY <1>3 DEF Kept
  <1>5. \A k \in Normals(r, r[j].id) : k + n \in DOMAIN s /\ s[k + n] = r[k]
    BY <1>1 DEF Normals
  <1>6. Cardinality(Normals(r, r[j].id)) <= Cardinality(Normals(s, r[j].id))
    <2>1. n \in Int BY <1>1
    <2> QED BY <2>1, <1>2, <1>5, ShiftedNormals
  <1>7. Cardinality(Normals(r, r[j].id)) \in Nat /\ Cardinality(Normals(s, r[j].id)) \in Nat
    BY <1>2, NormalsBounded
  <1>8. least(r[j].margin, cap) \in Nat
    BY <1>2, LeastFacts
  <1> QED BY <1>4, <1>6, <1>7, <1>8

\* A critical event takes nothing from the reserve of the normal ones.
LEMMA KeptCritical ==
    ASSUME NEW s \in Events, NEW r \in Events, NEW e \in EventType, e.class = "critical",
           Behind(s, r, e) \/ Before(s, r, e), NEW cap \in Nat, Kept(s, cap)
    PROVE  Kept(r, cap)
PROOF
  <1>1. PICK d \in {0, 1} : \A k \in DOMAIN r :
            r[k].class = "normal" => k - d \in DOMAIN s /\ s[k - d] = r[k]
    <2>1. Len(s) \in Nat /\ DOMAIN s = 1..Len(s) /\ DOMAIN r = 1..(Len(s) + 1)
      BY DEF Events, Behind, Before
    <2>2. CASE Behind(s, r, e)
      <3>1. ASSUME NEW k \in DOMAIN r, r[k].class = "normal"
            PROVE  k - 0 \in DOMAIN s /\ s[k - 0] = r[k]
        <4>1. k # Len(s) + 1 BY <2>2, <3>1 DEF Behind
        <4>2. k \in 1..Len(s) /\ k - 0 = k BY <2>1, <4>1
        <4> QED BY <2>1, <2>2, <4>2 DEF Behind
      <3> QED BY <3>1
    <2>3. CASE Before(s, r, e)
      <3>1. ASSUME NEW k \in DOMAIN r, r[k].class = "normal"
            PROVE  k - 1 \in DOMAIN s /\ s[k - 1] = r[k]
        <4>1. k # 1 BY <2>3, <3>1 DEF Before
        <4>2. k - 1 \in 1..Len(s) /\ (k - 1) + 1 = k BY <2>1, <4>1
        <4> QED BY <2>1, <2>3, <4>2 DEF Before
      <3> QED BY <3>1
    <2> QED BY <2>2, <2>3
  <1> SUFFICES ASSUME NEW j \in DOMAIN r, r[j].class = "normal"
               PROVE  Cardinality(Normals(r, r[j].id)) <= cap - least(r[j].margin, cap)
    BY DEF Kept
  <1>2. r[j] \in EventType /\ r[j].id \in Nat /\ r[j].margin \in Nat
    BY EventFields
  <1>3. j - d \in DOMAIN s /\ s[j - d] = r[j]
    BY <1>1
  <1>4. Cardinality(Normals(s, r[j].id)) <= cap - least(r[j].margin, cap)
    BY <1>3 DEF Kept
  <1>5. \A k \in Normals(r, r[j].id) : k + (0 - d) \in DOMAIN s /\ s[k + (0 - d)] = r[k]
    <2>1. \A k \in Normals(r, r[j].id) : k - d \in DOMAIN s /\ s[k - d] = r[k]
      BY <1>1 DEF Normals
    <2>2. \A k \in Normals(r, r[j].id) : k \in Int /\ k - d = k + (0 - d)
      BY DEF Normals, Events
    <2> QED BY <2>1, <2>2
  <1>6. Cardinality(Normals(r, r[j].id)) <= Cardinality(Normals(s, r[j].id))
    BY <1>2, <1>5, ShiftedNormals
  <1>7. Cardinality(Normals(r, r[j].id)) \in Nat /\ Cardinality(Normals(s, r[j].id)) \in Nat
    BY <1>2, NormalsBounded
  <1>8. least(r[j].margin, cap) \in Nat
    BY <1>2, LeastFacts
  <1> QED BY <1>4, <1>6, <1>7, <1>8

\* A normal event is the youngest, and is admitted above its margin.
LEMMA KeptNormal ==
    ASSUME NEW s \in Events, NEW r \in Events, NEW e \in EventType,
           Behind(s, r, e), NEW cap \in Nat, Kept(s, cap),
           \A k \in DOMAIN s : s[k].id < e.id, cap - Len(s) > e.margin
    PROVE  Kept(r, cap)
PROOF
  <1>1. /\ Len(s) \in Nat /\ Len(r) = Len(s) + 1 /\ DOMAIN s = 1..Len(s) /\ DOMAIN r = 1..(Len(s) + 1)
        /\ r[Len(s) + 1] = e
        /\ \A k \in 1..Len(s) : r[k] = s[k]
    BY DEF Events, Behind
  <1>2. e.margin \in Nat /\ e.id \in Nat
    BY DEF EventType
  <1> SUFFICES ASSUME NEW j \in DOMAIN r, r[j].class = "normal"
               PROVE  Cardinality(Normals(r, r[j].id)) <= cap - least(r[j].margin, cap)
    BY DEF Kept
  <1>3. r[j] \in EventType /\ r[j].id \in Nat /\ r[j].margin \in Nat
    BY EventFields
  <1>4. Cardinality(Normals(r, r[j].id)) \in Nat /\ Cardinality(Normals(r, r[j].id)) <= Len(r)
    BY <1>3, NormalsBounded
  <1>5. CASE j = Len(s) + 1
    <2>1. r[j] = e /\ e.margin <= cap
      BY <1>1, <1>2, <1>5
    <2>2. least(r[j].margin, cap) = e.margin
      BY <1>2, <2>1, LeastFacts
    <2> QED BY <1>1, <1>2, <1>4, <2>2
  <1>6. CASE j \in DOMAIN s
    <2>1. r[j] = s[j] /\ r[j].id < e.id
      BY <1>1, <1>6
    <2>2. Cardinality(Normals(s, r[j].id)) <= cap - least(r[j].margin, cap)
      BY <1>6, <2>1 DEF Kept
    <2>3. ASSUME NEW k \in Normals(r, r[j].id) PROVE k + 0 \in DOMAIN s /\ s[k + 0] = r[k]
      <3>1. k \in DOMAIN r /\ r[k].id <= r[j].id
        BY DEF Normals
      <3>2. k # Len(s) + 1
        BY <1>1, <1>2, <1>3, <2>1, <3>1
      <3> QED BY <1>1, <3>1, <3>2
    <2>4. Cardinality(Normals(r, r[j].id)) <= Cardinality(Normals(s, r[j].id))
      BY <1>3, <2>3, ShiftedNormals
    <2>5. Cardinality(Normals(s, r[j].id)) \in Nat /\ least(r[j].margin, cap) \in Nat
      BY <1>3, NormalsBounded, LeastFacts
    <2> QED BY <1>4, <2>2, <2>4, <2>5
  <1> QED BY <1>1, <1>5, <1>6

-----------------------------------------------------------------------------
(* The invariant of the queues, and what each operation does to it. *)

QueueType ==
    [buffer : Events, capacity : Nat, min_free : Int, safety_margin : Nat, shed_count : Nat]

\* Every event made is in one place: the queue s, the queue a or the set d.
Account(s, a, m, d) ==
    /\ Distinct(s) /\ Distinct(a)
    /\ Ids(s) \cap Ids(a) = {} /\ Ids(s) \cap d = {} /\ Ids(a) \cap d = {}
    /\ Ids(s) \cup Ids(a) \cup d = 1..m

QueueInv ==
    /\ kind \in {"dynamic", "static"} /\ halted \in BOOLEAN /\ made \in Nat
    /\ eq \in QueueType /\ aoq \in Events
    /\ Len(eq.buffer) <= eq.capacity
    /\ Ids(eq.buffer) \subseteq 1..made
    /\ Kept(eq.buffer, eq.capacity)
    /\ halted => eq.capacity > Inline \/ Len(aoq) >= Inline
    /\ ~halted => Account(eq.buffer, aoq, made, done)

\* What a post makes of the queue q: the event is at an end of it, or nowhere.
Posted(q, p, e) ==
    /\ p \in QueueType /\ p.capacity = q.capacity /\ Len(p.buffer) <= p.capacity
    /\ Kept(p.buffer, p.capacity)
    /\ p.buffer = q.buffer \/ Behind(q.buffer, p.buffer, e) \/ Before(q.buffer, p.buffer, e)

LEMMA QueueFields ==
    ASSUME NEW q \in QueueType
    PROVE  /\ q.buffer \in Events /\ q.capacity \in Nat /\ q.min_free \in Int
           /\ q.safety_margin \in Nat /\ q.shed_count \in Nat /\ Len(q.buffer) \in Nat
           /\ free(q) = q.capacity - Len(q.buffer) /\ free(q) \in Int
PROOF
  <1>1. /\ q.buffer \in Events /\ q.capacity \in Nat /\ q.min_free \in Int
        /\ q.safety_margin \in Nat /\ q.shed_count \in Nat
    BY DEF QueueType
  <1>2. Len(q.buffer) \in Nat
    BY <1>1 DEF Events
  <1> QED BY <1>1, <1>2 DEF free

LEMMA Refilled ==
    ASSUME NEW q \in QueueType, NEW s \in Events
    PROVE  /\ [q EXCEPT !.buffer = s] \in QueueType
           /\ [q EXCEPT !.buffer = s].buffer = s
           /\ [q EXCEPT !.buffer = s].capacity = q.capacity
           /\ [q EXCEPT !.buffer = s].safety_margin = q.safety_margin
  BY DEF QueueType

LEMMA Watermark ==
    ASSUME NEW q \in QueueType
    PROVE  /\ update_watermark(q) \in QueueType
           /\ update_watermark(q).buffer = q.buffer
           /\ update_watermark(q).capacity = q.capacity
PROOF
  <1>1. least(q.min_free, free(q)) \in Int
    BY QueueFields DEF least
  <1> QED BY <1>1 DEF update_watermark, QueueType

LEMMA Pushed ==
    ASSUME NEW q \in QueueType, NEW e \in EventType
    PROVE  /\ PushBack(q, e) \in QueueType /\ PushBack(q, e).capacity = q.capacity
           /\ Behind(q.buffer, PushBack(q, e).buffer, e)
           /\ PushFront(q, e) \in QueueType /\ PushFront(q, e).capacity = q.capacity
           /\ Before(q.buffer, PushFront(q, e).buffer, e)
PROOF
  <1>1. q.buffer \in Events
    BY QueueFields
  <1>2. Append(q.buffer, e) \in Events /\ Behind(q.buffer, Append(q.buffer, e), e)
    BY <1>1, AppendIsBehind
  <1>3. <<e>> \o q.buffer \in Events /\ Before(q.buffer, <<e>> \o q.buffer, e)
    BY <1>1, ConcatIsBefore
  <1> DEFINE b == [q EXCEPT !.buffer = Append(q.buffer, e)]
             f == [q EXCEPT !.buffer = <<e>> \o q.buffer]
  <1>4. b \in QueueType /\ b.buffer = Append(q.buffer, e) /\ b.capacity = q.capacity
    BY <1>2, Refilled
  <1>5. f \in QueueType /\ f.buffer = <<e>> \o q.buffer /\ f.capacity = q.capacity
    BY <1>3, Refilled
  <1>6. PushBack(q, e) = update_watermark(b) /\ PushFront(q, e) = update_watermark(f)
    BY DEF PushBack, PushFront
  <1> HIDE DEF b, f
  <1>7. /\ update_watermark(b) \in QueueType /\ update_watermark(b).buffer = b.buffer
        /\ update_watermark(b).capacity = b.capacity
    BY <1>4, Watermark
  <1>8. /\ update_watermark(f) \in QueueType /\ update_watermark(f).buffer = f.buffer
        /\ update_watermark(f).capacity = f.capacity
    BY <1>5, Watermark
  <1> QED BY <1>2, <1>3, <1>4, <1>5, <1>6, <1>7, <1>8

LEMMA PostedCritical ==
    ASSUME NEW q \in QueueType, Len(q.buffer) <= q.capacity, Kept(q.buffer, q.capacity),
           NEW e \in EventType, e.class = "critical"
    PROVE  /\ \A k \in Nat : Posted(q, post(q, e, k), e)
           /\ Posted(q, post_lifo(q, e), e)
PROOF
  <1>1. /\ q.buffer \in Events /\ q.capacity \in Nat /\ Len(q.buffer) \in Nat
        /\ free(q) = q.capacity - Len(q.buffer)
    BY QueueFields
  <1>2. Posted(q, q, e)
    BY DEF Posted
  <1>3. Len(q.buffer) < q.capacity => Posted(q, PushBack(q, e), e) /\ Posted(q, PushFront(q, e), e)
    <2> DEFINE b == PushBack(q, e)
               f == PushFront(q, e)
    <2>1. /\ b \in QueueType /\ b.capacity = q.capacity /\ Behind(q.buffer, b.buffer, e)
          /\ f \in QueueType /\ f.capacity = q.capacity /\ Before(q.buffer, f.buffer, e)
      BY Pushed
    <2> HIDE DEF b, f
    <2>2. b.buffer \in Events /\ f.buffer \in Events
      BY <2>1, QueueFields
    <2>3. Kept(b.buffer, q.capacity) /\ Kept(f.buffer, q.capacity)
      BY <1>1, <2>1, <2>2, KeptCritical
    <2>4. Len(b.buffer) = Len(q.buffer) + 1 /\ Len(f.buffer) = Len(q.buffer) + 1
      BY <2>1 DEF Behind, Before
    <2>5. Len(q.buffer) < q.capacity => Posted(q, b, e) /\ Posted(q, f, e)
      BY <1>1, <2>1, <2>3, <2>4 DEF Posted
    <2> QED BY <2>5 DEF b, f
  <1>4. ASSUME NEW k \in Nat PROVE Posted(q, post(q, e, k), e)
    <2>1. CASE free(q) > k
      <3>1. Len(q.buffer) < q.capacity BY <1>1, <2>1
      <3> QED BY <1>3, <2>1, <3>1 DEF post
    <2>2. CASE ~(free(q) > k)
      BY <1>2, <2>2 DEF post
    <2> QED BY <2>1, <2>2
  <1>5. Posted(q, post_lifo(q, e), e)
    BY <1>2, <1>3 DEF post_lifo
  <1> QED BY <1>4, <1>5

LEMMA PostedNormal ==
    ASSUME NEW q \in QueueType, Len(q.buffer) <= q.capacity, Kept(q.buffer, q.capacity),
           NEW e \in EventType, e.margin = q.safety_margin,
           \A k \in DOMAIN q.buffer : q.buffer[k].id < e.id
    PROVE  Posted(q, post_normal(q, e), e)
PROOF
  <1>1. /\ q.buffer \in Events /\ q.capacity \in Nat /\ Len(q.buffer) \in Nat /\ q.shed_count \in Nat
        /\ free(q) = q.capacity - Len(q.buffer) /\ q.safety_margin \in Nat
    BY QueueFields
  <1>2. CASE admits_normal(q)
    <2> DEFINE b == PushBack(q, e)
    <2>1. b \in QueueType /\ b.capacity = q.capacity /\ Behind(q.buffer, b.buffer, e)
      BY Pushed
    <2>2. post_normal(q, e) = b
      BY <1>2 DEF post_normal
    <2> HIDE DEF b
    <2>3. b.buffer \in Events
      BY <2>1, QueueFields
    <2>4. q.capacity - Len(q.buffer) > e.margin
      BY <1>1, <1>2 DEF admits_normal
    <2>5. Kept(b.buffer, q.capacity)
      BY <1>1, <2>1, <2>3, <2>4, KeptNormal
    <2>6. Len(b.buffer) = Len(q.buffer) + 1
      BY <2>1 DEF Behind
    <2>7. Len(b.buffer) <= q.capacity
      BY <1>1, <2>4, <2>6
    <2> QED BY <2>1, <2>2, <2>5, <2>7 DEF Posted
  <1>3. CASE ~admits_normal(q)
    <2> DEFINE p == [q EXCEPT !.shed_count = @ + 1]
    <2>1. p \in QueueType /\ p.buffer = q.buffer /\ p.capacity = q.capacity
      BY <1>1 DEF QueueType
    <2>2. post_normal(q, e) = p
      BY <1>3 DEF post_normal
    <2> HIDE DEF p
    <2> QED BY <2>1, <2>2 DEF Posted
  <1> QED BY <1>2, <1>3

\* A post puts the event into the queue or into the set of those that are done.
LEMMA PostedOnce ==
    ASSUME NEW q \in QueueType, NEW p, NEW e \in EventType, Posted(q, p, e),
           Distinct(q.buffer), e.id \notin Ids(q.buffer),
           NEW d, Ids(q.buffer) \cap d = {}, e.id \notin d,
           NEW r, r = IF e \in ToSet(p.buffer) THEN d ELSE d \cup {e.id}
    PROVE  /\ Distinct(p.buffer)
           /\ Ids(p.buffer) \cup r = Ids(q.buffer) \cup d \cup {e.id}
           /\ Ids(p.buffer) \cap r = {}
PROOF
  <1>1. q.buffer \in Events /\ p.buffer \in Events
    BY QueueFields DEF Posted
  <1>2. CASE p.buffer = q.buffer
    <2>1. e \notin ToSet(q.buffer)
      BY DEF Ids, ToSet
    <2> QED BY <1>2, <2>1
  <1>3. CASE Behind(q.buffer, p.buffer, e) \/ Before(q.buffer, p.buffer, e)
    <2>1. Ids(p.buffer) = Ids(q.buffer) \cup {e.id} /\ Distinct(p.buffer) /\ e \in ToSet(p.buffer)
      BY <1>1, <1>3, PushedIds
    <2> QED BY <2>1
  <1> QED BY <1>2, <1>3 DEF Posted

LEMMA ResultInv ==
    ASSUME QueueInv, ~halted, made' = made + 1,
           NEW e \in EventType, e.id = made + 1,
           NEW q, Posted(eq, q, e), Result(q, e)
    PROVE  QueueInv'
PROOF
  <1>1. /\ eq \in QueueType /\ made \in Nat /\ kind \in {"dynamic", "static"} /\ aoq \in Events
        /\ Ids(eq.buffer) \subseteq 1..made /\ Account(eq.buffer, aoq, made, done)
        /\ Len(eq.buffer) <= eq.capacity /\ Kept(eq.buffer, eq.capacity)
    BY DEF QueueInv
  <1>2. made + 1 \in Nat /\ 1..(made + 1) = (1..made) \cup {made + 1} /\ made + 1 \notin 1..made
    BY <1>1
  <1>3. q \in QueueType /\ q.capacity = eq.capacity /\ Len(q.buffer) <= q.capacity /\ Kept(q.buffer, q.capacity)
    BY DEF Posted
  <1>4. q.buffer \in Events /\ Len(q.buffer) \in Nat /\ q.capacity \in Nat
    BY <1>3, QueueFields
  <1>5. CASE Len(q.buffer) > Storage
    <2>1. halted' = TRUE /\ kind' = kind /\ eq' = eq /\ aoq' = aoq
      BY <1>5 DEF Result, on_error
    <2>2. Inline \in Nat
      BY QueueAssumption
    <2>3. eq.capacity > Inline
      BY <1>1, <1>3, <1>4, <1>5, <2>2 DEF Storage
    <2>4. Ids(eq.buffer) \subseteq 1..(made + 1)
      BY <1>1, <1>2
    <2> QED BY <1>1, <1>2, <2>1, <2>3, <2>4 DEF QueueInv
  <1>6. CASE ~(Len(q.buffer) > Storage)
    <2>1. /\ eq' = q /\ kind' = kind /\ aoq' = aoq /\ halted' = halted
          /\ done' = IF e \in ToSet(q.buffer) THEN done ELSE done \cup {e.id}
      BY <1>6 DEF Result
    <2>2. e.id \notin Ids(eq.buffer) /\ e.id \notin Ids(aoq) /\ e.id \notin done
      BY <1>1, <1>2 DEF Account
    <2>3. Ids(eq.buffer) \cap done = {} /\ Distinct(eq.buffer)
      BY <1>1 DEF Account
    <2> DEFINE d == done'
    <2>4. /\ Distinct(q.buffer) /\ Ids(q.buffer) \cap d = {}
          /\ Ids(q.buffer) \cup d = Ids(eq.buffer) \cup done \cup {e.id}
      BY <1>1, <2>1, <2>2, <2>3, PostedOnce
    <2> HIDE DEF d
    <2>5. Account(q.buffer, aoq, made + 1, d)
      BY <1>1, <1>2, <2>2, <2>4 DEF Account
    <2>6. Ids(q.buffer) \subseteq 1..(made + 1)
      BY <2>5 DEF Account
    <2>7. Account(eq.buffer, aoq, made, done)'
      BY <2>1, <2>5 DEF d
    <2> QED BY <1>1, <1>2, <1>3, <2>1, <2>6, <2>7 DEF QueueInv
  <1> QED BY <1>5, <1>6

LEMMA PostInv ==
    ASSUME QueueInv, QPost \/ StaticPost
    PROVE  QueueInv'
PROOF
  <1>1. /\ eq \in QueueType /\ made \in Nat /\ Len(eq.buffer) <= eq.capacity
        /\ Kept(eq.buffer, eq.capacity) /\ Ids(eq.buffer) \subseteq 1..made
    BY DEF QueueInv
  <1>2. ~halted /\ made' = made + 1
    BY DEF QPost, StaticPost, Making
  <1> DEFINE n == Event("normal")
             c == Event("critical")
  <1>3. eq.safety_margin \in Nat
    BY <1>1, QueueFields
  <1>4. /\ n \in EventType /\ n.id = made + 1 /\ n.margin = eq.safety_margin
        /\ c \in EventType /\ c.id = made + 1 /\ c.class = "critical"
    BY <1>1, <1>3 DEF Event, EventType
  <1>5. \/ Result(post_normal(eq, n), n) \/ Result(post(eq, c, 0), c) \/ Result(post_lifo(eq, c), c)
        \/ \E k \in Margins : Result(post(eq, c, k), c)
    BY DEF QPost, StaticPost, static_post_normal, static_post_critical, static_post_lifo,
           static_post, post_critical
  <1> HIDE DEF n, c
  <1>6. \A k \in DOMAIN eq.buffer : eq.buffer[k].id < n.id
    <2> SUFFICES ASSUME NEW k \in DOMAIN eq.buffer PROVE eq.buffer[k].id < made + 1
      BY <1>4
    <2>1. eq.buffer[k].id \in 1..made
      BY <1>1 DEF Ids
    <2> QED BY <1>1, <2>1
  <1>7. Posted(eq, post_normal(eq, n), n)
    BY <1>1, <1>4, <1>6, PostedNormal
  <1>8. Posted(eq, post_lifo(eq, c), c) /\ \A k \in Nat : Posted(eq, post(eq, c, k), c)
    BY <1>1, <1>4, PostedCritical
  <1>9. Margins \subseteq Nat
    BY QueueAssumption
  <1> QED BY <1>2, <1>4, <1>5, <1>7, <1>8, <1>9, ResultInv

LEMMA SetMarginInv ==
    ASSUME QueueInv, NEW k \in Margins, SetSafetyMargin(k)
    PROVE  QueueInv'
PROOF
  <1>1. eq \in QueueType /\ eq.capacity \in Nat /\ k \in Nat
    BY QueueFields, QueueAssumption DEF QueueInv
  <1>2. least(k, eq.capacity) \in Nat
    BY <1>1, LeastFacts
  <1>3. eq' = [eq EXCEPT !.safety_margin = least(k, eq.capacity)]
    BY DEF SetSafetyMargin, set_safety_margin, static_set_safety_margin
  <1>4. eq' \in QueueType /\ eq'.buffer = eq.buffer /\ eq'.capacity = eq.capacity
    BY <1>1, <1>2, <1>3 DEF QueueType
  <1>5. UNCHANGED <<kind, aoq, made, done, halted>>
    BY DEF SetSafetyMargin
  <1>6. Account(eq.buffer, aoq, made, done) => Account(eq.buffer, aoq, made, done)'
    BY <1>4, <1>5
  <1> QED BY <1>4, <1>5, <1>6 DEF QueueInv

\* What the queue keeps when its first n events are taken.
LEMMA TakenInv ==
    ASSUME NEW q \in QueueType, Len(q.buffer) <= q.capacity, Kept(q.buffer, q.capacity),
           NEW s \in Events, NEW n \in 0..Len(q.buffer), Dropped(q.buffer, s, n),
           NEW p, p = [q EXCEPT !.buffer = s]
    PROVE  /\ p \in QueueType /\ p.buffer = s /\ p.capacity = q.capacity
           /\ Len(p.buffer) <= p.capacity /\ Kept(p.buffer, p.capacity)
           /\ Ids(p.buffer) \subseteq Ids(q.buffer)
PROOF
  <1>1. /\ q.buffer \in Events /\ q.capacity \in Nat /\ Len(q.buffer) \in Nat /\ n \in Nat
    BY QueueFields
  <1>2. p \in QueueType /\ p.buffer = s /\ p.capacity = q.capacity
    BY Refilled
  <1>3. Kept(s, q.capacity)
    BY <1>1, KeptDropped
  <1>4. Len(s) = Len(q.buffer) - n /\ Len(s) <= q.capacity
    BY <1>1 DEF Dropped
  <1>5. Ids(s) \subseteq Ids(q.buffer)
    <2> SUFFICES ASSUME NEW k \in DOMAIN s PROVE s[k].id \in Ids(q.buffer)
      BY DEF Ids
    <2>1. k \in 1..Len(s) /\ s[k] = q.buffer[k + n] /\ DOMAIN q.buffer = 1..Len(q.buffer)
      BY <1>1 DEF Events, Dropped
    <2>2. k + n \in DOMAIN q.buffer
      BY <1>1, <1>4, <2>1
    <2> QED BY <2>1, <2>2 DEF Ids
  <1> QED BY <1>2, <1>3, <1>4, <1>5

LEMMA GetFacts ==
    ASSUME QueueInv, eq.buffer # <<>>, eq' = get(eq)
    PROVE  /\ eq' \in QueueType /\ eq'.buffer = Tail(eq.buffer) /\ eq'.capacity = eq.capacity
           /\ Len(eq'.buffer) <= eq'.capacity /\ Kept(eq'.buffer, eq'.capacity)
           /\ Ids(eq'.buffer) \subseteq Ids(eq.buffer)
           /\ Head(eq.buffer) \in EventType
PROOF
  <1>1. /\ eq \in QueueType /\ eq.buffer \in Events
        /\ Len(eq.buffer) <= eq.capacity /\ Kept(eq.buffer, eq.capacity)
    BY QueueFields DEF QueueInv
  <1>2. /\ Tail(eq.buffer) \in Events /\ Dropped(eq.buffer, Tail(eq.buffer), 1)
        /\ 1 \in 0..Len(eq.buffer) /\ Head(eq.buffer) \in EventType
    BY <1>1, TailDrops
  <1>3. PICK p : p = eq' /\ p = [eq EXCEPT !.buffer = Tail(eq.buffer)]
    BY DEF get
  <1>4. /\ p \in QueueType /\ p.buffer = Tail(eq.buffer) /\ p.capacity = eq.capacity
        /\ Len(p.buffer) <= p.capacity /\ Kept(p.buffer, p.capacity)
        /\ Ids(p.buffer) \subseteq Ids(eq.buffer)
    BY <1>1, <1>2, <1>3, TakenInv
  <1> QED BY <1>2, <1>3, <1>4

LEMMA GetInv ==
    ASSUME QueueInv, Get
    PROVE  QueueInv'
PROOF
  <1>1. /\ eq.buffer # <<>> /\ eq' = get(eq) /\ ~halted
        /\ done' = done \cup {Head(eq.buffer).id}
        /\ kind' = kind /\ aoq' = aoq /\ made' = made /\ halted' = halted
    BY DEF Get, static_get
  <1>2. Account(eq.buffer, aoq, made, done) /\ eq.buffer \in Events
    BY <1>1, QueueFields DEF QueueInv
  <1>3. /\ Distinct(Tail(eq.buffer)) /\ Ids(eq.buffer) = Ids(Tail(eq.buffer)) \cup {Head(eq.buffer).id}
        /\ Head(eq.buffer).id \notin Ids(Tail(eq.buffer))
    BY <1>1, <1>2, TailIds DEF Account
  <1>4. Account(Tail(eq.buffer), aoq, made, done \cup {Head(eq.buffer).id})
    BY <1>2, <1>3 DEF Account
  <1>5. /\ eq' \in QueueType /\ eq'.buffer = Tail(eq.buffer)
        /\ Len(eq'.buffer) <= eq'.capacity /\ Kept(eq'.buffer, eq'.capacity)
        /\ Ids(eq'.buffer) \subseteq Ids(eq.buffer)
    BY <1>1, GetFacts
  <1>6. Account(eq.buffer, aoq, made, done)'
    BY <1>1, <1>4, <1>5
  <1> QED BY <1>1, <1>5, <1>6 DEF QueueInv

LEMMA PostAoInv ==
    ASSUME QueueInv, PostAo
    PROVE  QueueInv'
PROOF
  <1>1. ~halted /\ made' = made + 1 /\ made \in Nat /\ kind' = kind /\ eq' = eq
    BY DEF PostAo, Making, on_error, QueueInv
  <1>2. made + 1 \in Nat /\ 1..(made + 1) = (1..made) \cup {made + 1} /\ made + 1 \notin 1..made
    BY <1>1
  <1>3. Account(eq.buffer, aoq, made, done) /\ Ids(eq.buffer) \subseteq 1..(made + 1)
    BY <1>1, <1>2 DEF QueueInv
  <1>4. CASE Len(aoq) >= Inline
    <2>1. halted' = TRUE /\ aoq' = aoq
      BY <1>4 DEF PostAo, on_error
    <2> QED BY <1>1, <1>2, <1>3, <1>4, <2>1 DEF QueueInv
  <1>5. CASE ~(Len(aoq) >= Inline)
    <2> DEFINE e == Event("normal")
    <2>1. aoq' = Append(aoq, e) /\ done' = done /\ halted' = halted
      BY <1>5 DEF PostAo, push_back
    <2>2. e \in EventType /\ e.id = made + 1
      <3>1. eq.safety_margin \in Nat BY QueueFields DEF QueueInv
      <3> QED BY <1>1, <3>1 DEF Event, EventType
    <2> HIDE DEF e
    <2>3. aoq \in Events /\ aoq' \in Events /\ Behind(aoq, aoq', e)
      BY <2>1, <2>2, AppendIsBehind DEF QueueInv
    <2>4. e.id \notin Ids(aoq) /\ Distinct(aoq)
      BY <1>2, <1>3, <2>2 DEF Account
    <2> DEFINE a == aoq'
    <2>5. Ids(a) = Ids(aoq) \cup {e.id} /\ Distinct(a)
      BY <2>2, <2>3, <2>4, PushedIds
    <2> HIDE DEF a
    <2>6. Account(eq.buffer, a, made + 1, done)
      BY <1>2, <1>3, <2>2, <2>5 DEF Account
    <2>7. Account(eq.buffer, aoq, made, done)'
      BY <1>1, <2>1, <2>6 DEF a
    <2> QED BY <1>1, <1>2, <1>3, <2>1, <2>3, <2>7 DEF QueueInv
  <1> QED BY <1>4, <1>5

LEMMA AoTail ==
    ASSUME QueueInv, ~halted, aoq # <<>>
    PROVE  /\ Account(eq.buffer, aoq, made, done) /\ Tail(aoq) \in Events
           /\ Head(aoq) \in EventType
           /\ Distinct(Tail(aoq)) /\ Ids(aoq) = Ids(Tail(aoq)) \cup {Head(aoq).id}
           /\ Head(aoq).id \notin Ids(Tail(aoq))
PROOF
  <1>1. Account(eq.buffer, aoq, made, done) /\ aoq \in Events
    BY DEF QueueInv
  <1> QED BY <1>1, TailDrops, TailIds DEF Account

LEMMA HandleInv ==
    ASSUME QueueInv, Handle
    PROVE  QueueInv'
PROOF
  <1>1. /\ ~halted /\ aoq # <<>> /\ aoq' = Tail(aoq) /\ done' = done \cup {Head(aoq).id}
        /\ kind' = kind /\ eq' = eq /\ made' = made /\ halted' = halted
    BY DEF Handle
  <1>2. Account(eq.buffer, Tail(aoq), made, done \cup {Head(aoq).id}) /\ Tail(aoq) \in Events
    BY <1>1, AoTail DEF Account
  <1>3. Account(eq.buffer, aoq, made, done)'
    BY <1>1, <1>2
  <1> QED BY <1>1, <1>2, <1>3 DEF QueueInv

LEMMA DeferInv ==
    ASSUME QueueInv, defer
    PROVE  QueueInv'
PROOF
  <1> DEFINE e == [Head(aoq) EXCEPT !.class = "critical"]
             q == post(eq, e, 0)
  <1>1. /\ ~halted /\ aoq # <<>> /\ aoq' = Tail(aoq) /\ eq' = q
        /\ done' = IF e \in ToSet(q.buffer) THEN done ELSE done \cup {e.id}
        /\ kind' = kind /\ made' = made /\ halted' = halted
    BY DEF defer
  <1>2. /\ Account(eq.buffer, aoq, made, done) /\ Tail(aoq) \in Events /\ Head(aoq) \in EventType
        /\ Distinct(Tail(aoq)) /\ Ids(aoq) = Ids(Tail(aoq)) \cup {Head(aoq).id}
        /\ Head(aoq).id \notin Ids(Tail(aoq))
    BY <1>1, AoTail
  <1>3. e \in EventType /\ e.class = "critical" /\ e.id = Head(aoq).id
    BY <1>2 DEF EventType
  <1>4. eq \in QueueType /\ Len(eq.buffer) <= eq.capacity /\ Kept(eq.buffer, eq.capacity)
    BY DEF QueueInv
  <1> HIDE DEF e
  <1>5. Posted(eq, q, e)
    BY <1>3, <1>4, PostedCritical
  <1> HIDE DEF q
  <1>6. e.id \notin Ids(eq.buffer) /\ e.id \notin done /\ Distinct(eq.buffer) /\ Ids(eq.buffer) \cap done = {}
    BY <1>2, <1>3 DEF Account
  <1>7. PICK d : d = done' /\ d = IF e \in ToSet(q.buffer) THEN done ELSE done \cup {e.id}
    BY <1>1
  <1>8. /\ Distinct(q.buffer) /\ Ids(q.buffer) \cap d = {}
        /\ Ids(q.buffer) \cup d = Ids(eq.buffer) \cup done \cup {e.id}
    BY <1>3, <1>4, <1>5, <1>6, <1>7, PostedOnce
  <1>9. Account(q.buffer, Tail(aoq), made, d)
    BY <1>2, <1>3, <1>8 DEF Account
  <1>10. /\ q \in QueueType /\ Len(q.buffer) <= q.capacity /\ Kept(q.buffer, q.capacity)
    BY <1>5 DEF Posted
  <1>11. Ids(q.buffer) \subseteq 1..made
    BY <1>9 DEF Account
  <1>12. Account(eq.buffer, aoq, made, done)'
    BY <1>1, <1>7, <1>9
  <1> QED BY <1>1, <1>2, <1>10, <1>11, <1>12 DEF QueueInv

LEMMA RecallInv ==
    ASSUME QueueInv, recall
    PROVE  QueueInv'
PROOF
  <1>1. /\ ~halted /\ eq.buffer # <<>> /\ eq' = get(eq) /\ kind' = kind /\ made' = made /\ done' = done
    BY DEF recall
  <1>2. Account(eq.buffer, aoq, made, done) /\ eq.buffer \in Events /\ aoq \in Events
    BY <1>1, QueueFields DEF QueueInv
  <1> DEFINE e == Head(eq.buffer)
  <1>3. /\ Distinct(Tail(eq.buffer)) /\ Ids(eq.buffer) = Ids(Tail(eq.buffer)) \cup {e.id}
        /\ e.id \notin Ids(Tail(eq.buffer))
    BY <1>1, <1>2, TailIds DEF Account
  <1>4. /\ eq' \in QueueType /\ eq'.buffer = Tail(eq.buffer)
        /\ Len(eq'.buffer) <= eq'.capacity /\ Kept(eq'.buffer, eq'.capacity)
        /\ Ids(eq'.buffer) \subseteq Ids(eq.buffer) /\ e \in EventType
    BY <1>1, GetFacts
  <1>5. CASE Len(aoq) >= Inline
    <2>1. halted' = TRUE /\ aoq' = aoq
      BY <1>5 DEF recall
    <2> QED BY <1>1, <1>4, <1>5, <2>1 DEF QueueInv
  <1>6. CASE ~(Len(aoq) >= Inline)
    <2>1. halted' = FALSE /\ aoq' = <<e>> \o aoq
      BY <1>6 DEF recall, push_front
    <2> HIDE DEF e
    <2>2. e.id \notin Ids(aoq) /\ Distinct(aoq)
      BY <1>2, <1>3 DEF Account
    <2>3. PICK a : a = aoq' /\ a = <<e>> \o aoq
      BY <2>1
    <2>4. a \in Events /\ Before(aoq, a, e)
      BY <1>2, <1>4, <2>3, ConcatIsBefore
    <2>5. Ids(a) = Ids(aoq) \cup {e.id} /\ Distinct(a)
      BY <1>2, <1>4, <2>2, <2>4, PushedIds
    <2>6. Account(Tail(eq.buffer), a, made, done)
      BY <1>2, <1>3, <2>5 DEF Account
    <2>7. Account(eq.buffer, aoq, made, done)'
      BY <1>1, <1>4, <2>3, <2>6
    <2> QED BY <1>1, <1>4, <2>1, <2>3, <2>4, <2>7 DEF QueueInv
  <1> QED BY <1>5, <1>6

LEMMA FlushInv ==
    ASSUME QueueInv, NEW num \in Nat, flush_deferred(num)
    PROVE  QueueInv'
PROOF
  <1> DEFINE b == eq.buffer
             n == least(num, Len(b))
             s == SubSeq(b, n + 1, Len(b))
  <1>1. /\ ~halted /\ eq' = [eq EXCEPT !.buffer = s] /\ done' = done \cup {b[k].id : k \in 1..n}
        /\ kind' = kind /\ aoq' = aoq /\ made' = made /\ halted' = halted
    BY DEF flush_deferred
  <1>2. /\ Account(b, aoq, made, done) /\ b \in Events /\ eq \in QueueType /\ Len(b) \in Nat
        /\ Len(b) <= eq.capacity /\ Kept(b, eq.capacity)
    BY <1>1, QueueFields DEF QueueInv
  <1>3. n \in 0..Len(b)
    <2> HIDE DEF b
    <2>1. n \in Nat /\ n <= Len(b) BY <1>2, LeastFacts
    <2> HIDE DEF n
    <2> QED BY <1>2, <2>1
  <1> HIDE DEF n
  <1>4. s \in Events /\ Dropped(b, s, n)
    BY <1>2, <1>3, SubSeqDrops
  <1> HIDE DEF s
  <1>5. /\ Distinct(s) /\ Ids(b) = Ids(s) \cup {b[k].id : k \in 1..n}
        /\ Ids(s) \cap {b[k].id : k \in 1..n} = {}
    BY <1>2, <1>3, <1>4, DroppedIds DEF Account
  <1>6. PICK p : p = eq' /\ p = [eq EXCEPT !.buffer = s]
    BY <1>1
  <1>7. /\ p \in QueueType /\ p.buffer = s /\ p.capacity = eq.capacity
        /\ Len(p.buffer) <= p.capacity /\ Kept(p.buffer, p.capacity)
        /\ Ids(p.buffer) \subseteq Ids(b)
    BY <1>2, <1>3, <1>4, <1>6, TakenInv
  <1>8. Account(s, aoq, made, done \cup {b[k].id : k \in 1..n})
    BY <1>2, <1>5 DEF Account
  <1>9. Account(eq.buffer, aoq, made, done)'
    BY <1>1, <1>6, <1>7, <1>8
  <1> QED BY <1>1, <1>6, <1>7, <1>9 DEF QueueInv

LEMMA QueueInvInit == QueueInit => QueueInv
PROOF
  <1> SUFFICES ASSUME QueueInit PROVE QueueInv
    OBVIOUS
  <1>1. PICK c \in Capacities, k \in Margins :
            /\ eq = IF kind = "dynamic" THEN with_safety_margin(c, k) ELSE static_with_safety_margin(c, k)
            /\ halted = (kind = "dynamic" /\ c > Inline)
    BY DEF QueueInit
  <1>2. kind \in {"dynamic", "static"} /\ aoq = <<>> /\ made = 0 /\ done = {}
    BY DEF QueueInit
  <1>3. c \in Nat /\ k \in Nat /\ least(k, c) \in Nat /\ least(0, c) \in Nat
    BY QueueAssumption, LeastFacts
  <1>4. <<>> \in Events /\ Len(<<>>) = 0 /\ DOMAIN <<>> = {}
    BY DEF Events
  <1>5. eq \in QueueType /\ eq.buffer = <<>> /\ eq.capacity = c
    <2>1. CASE kind = "dynamic"
      BY <1>1, <1>3, <1>4, <2>1 DEF QueueType, with_safety_margin
    <2>2. CASE kind = "static"
      BY <1>1, <1>3, <1>4, <2>2 DEF QueueType, static_with_safety_margin, with_safety_margin
    <2> QED BY <1>2, <2>1, <2>2
  <1>6. Ids(<<>>) = {} /\ Distinct(<<>>) /\ Kept(<<>>, c) /\ 1..0 = {}
    BY <1>4 DEF Ids, Distinct, Kept
  <1>7. Account(eq.buffer, aoq, made, done)
    BY <1>2, <1>5, <1>6 DEF Account
  <1>8. halted \in BOOLEAN /\ (halted => eq.capacity > Inline)
    BY <1>1, <1>5
  <1> QED BY <1>2, <1>3, <1>4, <1>5, <1>6, <1>7, <1>8 DEF QueueInv

LEMMA QueueInvNext == QueueInv /\ [QueueNext]_queueVars => QueueInv'
PROOF
  <1> SUFFICES ASSUME QueueInv, [QueueNext]_queueVars PROVE QueueInv'
    OBVIOUS
  <1>1. CASE QPost \/ StaticPost
    BY <1>1, PostInv
  <1>2. ASSUME NEW k \in Margins, SetSafetyMargin(k) PROVE QueueInv'
    BY <1>2, SetMarginInv
  <1>3. CASE Get
    BY <1>3, GetInv
  <1>4. CASE PostAo
    BY <1>4, PostAoInv
  <1>5. CASE Handle
    BY <1>5, HandleInv
  <1>6. CASE defer
    BY <1>6, DeferInv
  <1>7. CASE recall
    BY <1>7, RecallInv
  <1>8. ASSUME NEW n \in 1..2, flush_deferred(n) PROVE QueueInv'
    BY <1>8, FlushInv
  <1>9. CASE UNCHANGED queueVars
    <2>1. /\ kind' = kind /\ eq' = eq /\ aoq' = aoq /\ made' = made /\ done' = done /\ halted' = halted
      BY <1>9 DEF queueVars
    <2>2. Account(eq.buffer, aoq, made, done) => Account(eq.buffer, aoq, made, done)'
      BY <2>1
    <2> QED BY <2>1, <2>2 DEF QueueInv
  <1> QED BY <1>1, <1>2, <1>3, <1>4, <1>5, <1>6, <1>7, <1>8, <1>9 DEF QueueNext

LEMMA OnePlace ==
    ASSUME NEW s \in Events, Distinct(s), NEW i
    PROVE  Cardinality({k \in DOMAIN s : s[k].id = i}) = IF i \in Ids(s) THEN 1 ELSE 0
PROOF
  <1>1. CASE i \in Ids(s)
    <2>1. PICK j \in DOMAIN s : s[j].id = i
      BY <1>1 DEF Ids
    <2>2. {k \in DOMAIN s : s[k].id = i} = {j}
      BY <2>1 DEF Distinct
    <2> QED BY <1>1, <2>2, FS_Singleton
  <1>2. CASE i \notin Ids(s)
    <2>1. {k \in DOMAIN s : s[k].id = i} = {}
      BY <1>2 DEF Ids
    <2> QED BY <1>2, <2>1, FS_EmptySet
  <1> QED BY <1>1, <1>2

\* The normal events of a queue never eat into the margin in force when they were
\* admitted, for any capacity, margin and number of events: post_normal against
\* critical posts, LIFO posts, deferral, recall, flush and changes of the margin.
THEOREM MarginHolds == QueueSpec => []MarginKept
PROOF
  <1>1. QueueInv => MarginKept
    BY DEF QueueInv, Kept, Normals, MarginKept
  <1> QED BY <1>1, QueueInvInit, QueueInvNext, PTL DEF QueueSpec

\* Every event of a running program is in exactly one place, and a queue faults
\* only when it was configured above its storage or the active object's queue is
\* full: defer, recall, flush_deferred and every form of post.
THEOREM EventsAccounted == QueueSpec => []ExactlyOnce
PROOF
  <1>1. QueueInv => ExactlyOnce
    <2> SUFFICES ASSUME QueueInv, ~halted, NEW i \in 1..made PROVE Places(i) = 1
      BY DEF QueueInv, ExactlyOnce
    <2>1. Account(eq.buffer, aoq, made, done) /\ eq.buffer \in Events /\ aoq \in Events
      BY QueueFields DEF QueueInv
    <2>2. Cardinality({k \in DOMAIN eq.buffer : eq.buffer[k].id = i})
            = IF i \in Ids(eq.buffer) THEN 1 ELSE 0
      BY <2>1, OnePlace DEF Account
    <2>3. Cardinality({k \in DOMAIN aoq : aoq[k].id = i}) = IF i \in Ids(aoq) THEN 1 ELSE 0
      BY <2>1, OnePlace DEF Account
    <2>4. i \in Ids(eq.buffer) \/ i \in Ids(aoq) \/ i \in done
      BY <2>1 DEF Account
    <2>5. /\ ~(i \in Ids(eq.buffer) /\ i \in Ids(aoq)) /\ ~(i \in Ids(eq.buffer) /\ i \in done)
          /\ ~(i \in Ids(aoq) /\ i \in done)
      BY <2>1 DEF Account
    <2> QED BY <2>2, <2>3, <2>4, <2>5 DEF Places
  <1> QED BY <1>1, QueueInvInit, QueueInvNext, PTL DEF QueueSpec

-----------------------------------------------------------------------------
(* The bus drivers.  Bytes that move from one end of a queue to another     *)
(* sequence stay in order.                                                  *)

LEMMA PayloadIs ==
    ASSUME NEW n \in Nat
    PROVE  /\ Payload(n) \in Seq(Nat) /\ Len(Payload(n)) = n /\ \A i \in 1 .. n : Payload(n)[i] = i
           /\ Answers(n) \in Seq(Nat) /\ Len(Answers(n)) = n /\ \A i \in 1 .. n : Answers(n)[i] = 100 + i
           /\ Payload(0) = <<>> /\ Answers(0) = <<>>
PROOF
  <1>1. Payload(n) \in Seq(Nat) /\ Answers(n) \in Seq(Nat) /\ Len(Payload(n)) = n /\ Len(Answers(n)) = n
    BY DEF Payload, Answers
  <1>2. /\ \A i \in 1 .. n : Payload(n)[i] = i
        /\ \A i \in 1 .. n : Answers(n)[i] = 100 + i
    BY DEF Payload, Answers
  <1>3. Payload(0) = <<>> /\ Answers(0) = <<>>
    BY DEF Payload, Answers
  <1> QED BY <1>1, <1>2, <1>3

LEMMA PayloadGrows ==
    ASSUME NEW n \in Nat
    PROVE  /\ Append(Payload(n), n + 1) = Payload(n + 1)
           /\ Append(Answers(n), 100 + n + 1) = Answers(n + 1)
  BY DEF Payload, Answers

LEMMA MapIsSeq ==
    ASSUME NEW n \in Nat, NEW f \in [1 .. n -> Nat]
    PROVE  f \in Seq(Nat) /\ Len(f) = n
  OBVIOUS

LEMMA PayloadJoins ==
    ASSUME NEW k \in Nat, NEW n \in Nat, NEW x \in Seq(Nat), Len(x) = n, \A i \in 1 .. n : x[i] = k + i
    PROVE  Payload(k) \o x = Payload(k + n)
PROOF
  <1>1. PICK p : p = Payload(k) /\ p \in Seq(Nat) /\ Len(p) = k /\ \A i \in 1 .. k : p[i] = i
    BY PayloadIs
  <1>6. PICK m \in Nat : m = k + n
    OBVIOUS
  <1>2. PICK u : u = Payload(m) /\ u \in Seq(Nat) /\ Len(u) = m /\ \A i \in 1 .. m : u[i] = i
    BY PayloadIs
  <1>7. PICK v : v = p \o x
    OBVIOUS
  <1>3. /\ v \in Seq(Nat) /\ Len(v) = m
        /\ \A i \in 1 .. m : v[i] = IF i <= k THEN p[i] ELSE x[i - k]
    <2>1. /\ v \in Seq(Nat) /\ Len(v) = Len(p) + Len(x)
          /\ \A i \in 1 .. Len(p) + Len(x) : v[i] = IF i <= Len(p) THEN p[i] ELSE x[i - Len(p)]
      BY <1>1, <1>7, ConcatProperties
    <2>2. Len(p) = k /\ Len(x) = n /\ Len(p) + Len(x) = m
      BY <1>1, <1>6
    <2> QED BY <2>1, <2>2
  <1>4. ASSUME NEW i \in 1 .. m PROVE v[i] = u[i]
    <2>1. CASE i <= k
      BY <1>1, <1>2, <1>3, <2>1
    <2>2. CASE ~(i <= k)
      <3>1. PICK j \in 1 .. n : j = i - k /\ k + j = i
        BY <1>6, <2>2
      <3> QED BY <1>2, <1>3, <2>2, <3>1
    <2> QED BY <2>1, <2>2
  <1>5. v = u
    BY <1>2, <1>3, <1>4, SeqEqual
  <1> QED BY <1>1, <1>2, <1>5, <1>6, <1>7

LEMMA HeadMoves ==
    ASSUME NEW a \in Seq(Nat), NEW b \in Seq(Nat), b # <<>>
    PROVE  Append(a, Head(b)) \o Tail(b) = a \o b
  OBVIOUS

LEMMA AppendMoves ==
    ASSUME NEW a \in Seq(Nat), NEW b \in Seq(Nat), NEW e \in Nat
    PROVE  a \o Append(b, e) = Append(a \o b, e)
  OBVIOUS

-----------------------------------------------------------------------------
(* SPI *)

SpiInv(s) ==
    /\ DOMAIN s = {"chip", "op", "total", "offset", "tx", "rx", "w", "wire"}
    /\ s.op \in {"write", "read", "transfer", "in_place"}
    /\ s.total \in Nat /\ s.offset \in Nat /\ s.offset <= s.total
    /\ s.op # "read" => s.wire = Payload(s.offset) /\ \A i \in 1 .. s.total : s.tx[i] = i
    /\ s.op # "write" => /\ s.rx \in Seq(Nat) /\ s.total <= Len(s.rx)
                         /\ \A i \in 1 .. s.offset : s.rx[i] = 100 + i

LEMMA WordsHold ==
    ASSUME NEW n \in Nat
    PROVE  EspWords(n) * Word \in Nat /\ n <= EspWords(n) * Word
PROOF
  <1>1. Word \in Nat \ {0}
    BY HalSizes
  <1>2. ASSUME NEW a \in Nat, NEW d \in Nat \ {0} PROVE a \div d \in Nat /\ a - d < (a \div d) * d
    BY SMT
  <1>3. n + Word - 1 \in Nat
    BY <1>1
  <1>4. EspWords(n) \in Nat /\ n - 1 < EspWords(n) * Word
    BY <1>1, <1>2, <1>3 DEF EspWords
  <1> QED BY <1>1, <1>4

LEMMA SpiHonestOf ==
    ASSUME SpiInv(spi)
    PROVE  SpiHonest
PROOF
  <1> SUFFICES ASSUME spi.offset = spi.total, spi.op # "write"
               PROVE  SubSeq(spi.rx, 1, spi.total) = Answers(spi.total)
    BY DEF SpiHonest, SpiInv
  <1>1. PICK r, n : r = spi.rx /\ n = spi.total /\ n \in Nat
    BY DEF SpiInv
  <1>2. r \in Seq(Nat) /\ n <= Len(r) /\ \A i \in 1 .. n : r[i] = 100 + i
    BY <1>1 DEF SpiInv
  <1>3. PICK u : u = SubSeq(r, 1, n)
    OBVIOUS
  <1>5. u \in Seq(Nat) /\ Len(u) = (IF 1 <= n THEN n - 1 + 1 ELSE 0) /\ \A i \in 1 .. n - 1 + 1 : u[i] = r[1 + i - 1]
    <2>1. \A i \in 1 .. n : r[i] \in Nat
      BY <1>1, <1>2
    <2>2. 1 \in Int /\ n \in Int
      BY <1>1
    <2> QED BY <1>3, <2>1, <2>2, SubSeqProperties
  <1>6. Len(u) = n /\ \A i \in 1 .. n : u[i] = 100 + i
    BY <1>1, <1>2, <1>5
  <1>7. PICK a : a = Answers(n) /\ a \in Seq(Nat) /\ Len(a) = n /\ \A i \in 1 .. n : a[i] = 100 + i
    BY <1>1, PayloadIs
  <1>8. \A i \in 1 .. Len(u) : u[i] = a[i]
    BY <1>6, <1>7
  <1>4. u = a
    BY <1>5, <1>6, <1>7, <1>8, SeqEqual
  <1> QED BY <1>1, <1>3, <1>4, <1>7

LEMMA SpiIdleInv ==
    ASSUME NEW c
    PROVE  SpiInv(SpiIdle(c))
  BY PayloadIs DEF SpiInv, SpiIdle

LEMMA SpiCallKeeps ==
    ASSUME SpiInv(spi), NEW op \in {"write", "read", "transfer", "in_place"}, NEW n \in Nat, NEW room \in Nat,
           SpiCall(op, n, room)
    PROVE  SpiInv(spi')
PROOF
  <1>1. PICK t : t = spi'
    OBVIOUS
  <1>2. /\ t.op = op /\ t.offset = 0 /\ t.wire = <<>>
        /\ t.total = (IF op = "transfer" THEN Smaller(n, room) ELSE n)
        /\ t.tx = (IF op = "read" THEN <<>> ELSE Payload(n))
        /\ t.rx = (CASE op = "in_place" -> Payload(n)
                     [] op = "transfer" -> Blank(room)
                     [] op = "read" -> Blank(n)
                     [] op = "write" -> <<>>)
    BY <1>1 DEF SpiCall, SpiInv
  <1>8. DOMAIN t = DOMAIN spi
    BY <1>1 DEF SpiCall
  <1>3. t.total \in Nat /\ t.total <= n /\ (op = "transfer" => t.total <= room) /\ (op # "transfer" => t.total = n)
    BY <1>2 DEF Smaller
  <1>4. op # "read" => t.wire = Payload(0) /\ \A i \in 1 .. t.total : t.tx[i] = i
    BY <1>2, <1>3, PayloadIs
  <1>5. Blank(n) \in Seq(Nat) /\ Len(Blank(n)) = n /\ Blank(room) \in Seq(Nat) /\ Len(Blank(room)) = room
    BY DEF Blank
  <1>6. op # "write" => t.rx \in Seq(Nat) /\ t.total <= Len(t.rx)
    BY <1>2, <1>3, <1>5, PayloadIs
  <1>7. SpiInv(t)
    BY <1>1, <1>2, <1>3, <1>4, <1>6, <1>8 DEF SpiInv
  <1> QED BY <1>1, <1>7

\* A round of n bytes: what it puts on the wire and into the buffer.
LEMMA RoundKeeps ==
    ASSUME NEW s, SpiInv(s), NEW t, DOMAIN t = DOMAIN s, t.op = s.op, t.total = s.total, t.tx = s.tx,
           NEW n \in Nat, t.offset = s.offset + n, t.offset <= s.total,
           s.op # "read" => \E x \in Seq(Nat) : /\ t.wire = s.wire \o x /\ Len(x) = n
                                                /\ \A i \in 1 .. n : x[i] = s.tx[s.offset + i],
           s.op # "write" => /\ t.rx \in [1 .. Len(s.rx) -> Nat]
                             /\ \A i \in 1 .. s.offset : t.rx[i] = s.rx[i]
                             /\ \A i \in s.offset + 1 .. s.offset + n : t.rx[i] = 100 + i
    PROVE  SpiInv(t)
PROOF
  <1>1. s.offset \in Nat /\ s.total \in Nat
    BY DEF SpiInv
  <1>2. t.offset \in Nat
    BY <1>1
  <1>3. ASSUME s.op # "read" PROVE t.wire = Payload(t.offset)
    <2>1. PICK x \in Seq(Nat) : /\ t.wire = s.wire \o x /\ Len(x) = n
                                /\ \A i \in 1 .. n : x[i] = s.tx[s.offset + i]
      BY <1>3
    <2>2. s.wire = Payload(s.offset) /\ \A i \in 1 .. s.total : s.tx[i] = i
      BY <1>3 DEF SpiInv
    <2>3. PICK k \in Nat : k = s.offset
      BY <1>1
    <2>4. ASSUME NEW i \in 1 .. n PROVE x[i] = k + i
      <3>1. k + i \in 1 .. s.total
        BY <1>1, <2>3
      <3> QED BY <2>1, <2>2, <2>3, <3>1
    <2>5. Payload(k) \o x = Payload(k + n)
      BY <2>1, <2>4, PayloadJoins
    <2> QED BY <2>1, <2>2, <2>3, <2>5
  <1>4. ASSUME s.op # "write" PROVE /\ t.rx \in Seq(Nat) /\ t.total <= Len(t.rx)
                                    /\ \A i \in 1 .. t.offset : t.rx[i] = 100 + i
    <2>1. /\ s.rx \in Seq(Nat) /\ s.total <= Len(s.rx) /\ \A i \in 1 .. s.offset : s.rx[i] = 100 + i
          /\ Len(s.rx) \in Nat
      BY <1>4 DEF SpiInv
    <2>2. t.rx \in Seq(Nat) /\ Len(t.rx) = Len(s.rx)
      BY <1>4, <2>1, MapIsSeq
    <2>3. ASSUME NEW i \in 1 .. t.offset PROVE t.rx[i] = 100 + i
      <3>1. i \in 1 .. s.offset \/ i \in s.offset + 1 .. s.offset + n
        BY <1>1
      <3> QED BY <1>4, <2>1, <3>1
    <2> QED BY <2>1, <2>2, <2>3
  <1> QED BY <1>1, <1>2, <1>3, <1>4 DEF SpiInv

LEMMA EspKeeps ==
    ASSUME SpiInv(spi), spi.offset < spi.total, NEW t, t = EspRound
    PROVE  SpiInv(t)
PROOF
  <1>1. PICK n : n = Smaller(spi.total - spi.offset, Chunk)
    OBVIOUS
  <1>2. /\ spi.offset \in Nat /\ spi.total \in Nat /\ Chunk \in Nat /\ n \in Nat /\ n <= Chunk
        /\ spi.offset + n <= spi.total
    BY <1>1, HalSizes DEF SpiInv, Smaller
  <1>3. PICK ld : ld = [i \in 1..Chunk |->
                      IF spi.op = "read" \/ i > EspWords(n) * Word THEN spi.w[i]
                      ELSE IF i <= n THEN spi.tx[spi.offset + i] ELSE 0]
    OBVIOUS
  <1>4. PICK w : w = Clocked(ld, n, spi.op # "write")
    OBVIOUS
  <1>5. t = [spi EXCEPT !.offset = spi.offset + n, !.w = w,
                    !.wire = @ \o [i \in 1..n |-> IF spi.op = "read" THEN 0 ELSE ld[i]],
                    !.rx = [i \in DOMAIN @ |->
                               IF /\ spi.op # "write" /\ spi.offset < i /\ i <= spi.offset + n
                                  /\ i - spi.offset <= EspWords(n) * Word
                               THEN w[i - spi.offset] ELSE @[i]]]
    BY <1>1, <1>3, <1>4 DEF EspRound
  <1>6. EspWords(n) * Word \in Nat /\ n <= EspWords(n) * Word
    BY <1>2, WordsHold
  <1>7. PICK k \in Nat : k = EspWords(n) * Word /\ n <= k
    BY <1>6
  <1>8. DOMAIN t = DOMAIN spi /\ t.op = spi.op /\ t.total = spi.total /\ t.tx = spi.tx
    BY <1>5
  <1>9. PICK x : x = [i \in 1..n |-> IF spi.op = "read" THEN 0 ELSE ld[i]]
    OBVIOUS
  <1>10. t.offset = spi.offset + n /\ t.wire = spi.wire \o x
         /\ t.rx = [i \in DOMAIN spi.rx |->
                       IF spi.op # "write" /\ spi.offset < i /\ i <= spi.offset + n /\ i - spi.offset <= k
                       THEN w[i - spi.offset] ELSE spi.rx[i]]
    <2>1. "offset" \in DOMAIN spi /\ "wire" \in DOMAIN spi /\ "rx" \in DOMAIN spi
      BY DEF SpiInv
    <2>2. t.offset = spi.offset + n
      BY <1>5, <2>1
    <2>3. t.wire = spi.wire \o x
      BY <1>5, <1>9, <2>1
    <2>4. t.rx = [i \in DOMAIN spi.rx |->
                       IF spi.op # "write" /\ spi.offset < i /\ i <= spi.offset + n /\ i - spi.offset <= k
                       THEN w[i - spi.offset] ELSE spi.rx[i]]
      BY <1>5, <1>7, <2>1
    <2> QED BY <2>2, <2>3, <2>4
  <1>11. ASSUME spi.op # "read"
         PROVE  x \in Seq(Nat) /\ Len(x) = n /\ \A i \in 1 .. n : x[i] = spi.tx[spi.offset + i]
    <2>1. \A i \in 1 .. n : x[i] = ld[i]
      BY <1>9, <1>11
    <2>2. \A i \in 1 .. n : i \in 1 .. Chunk /\ ~(i > k) /\ i <= n
      BY <1>2, <1>7
    <2>3. \A i \in 1 .. n : ld[i] = spi.tx[spi.offset + i]
      BY <1>3, <1>7, <1>11, <2>2
    <2>4. \A i \in 1 .. n : spi.offset + i \in 1 .. spi.total
      BY <1>2
    <2>5. \A i \in 1 .. n : x[i] \in Nat
      BY <1>11, <2>1, <2>3, <2>4 DEF SpiInv
    <2>6. x \in [1 .. n -> Nat]
      BY <1>9, <2>5
    <2> QED BY <1>2, <2>1, <2>3, <2>6, MapIsSeq
  <1>12. ASSUME spi.op # "write"
         PROVE  /\ t.rx \in [1 .. Len(spi.rx) -> Nat]
                /\ \A i \in 1 .. spi.offset : t.rx[i] = spi.rx[i]
                /\ \A i \in spi.offset + 1 .. spi.offset + n : t.rx[i] = 100 + i
    <2>1. spi.rx \in Seq(Nat) /\ Len(spi.rx) \in Nat /\ DOMAIN spi.rx = 1 .. Len(spi.rx) /\ spi.total <= Len(spi.rx)
      BY <1>12 DEF SpiInv
    <2>2. \A i \in 1 .. Len(spi.rx) : spi.rx[i] \in Nat /\ i \in Nat
      BY <2>1
    <2>3. ASSUME NEW i \in 1 .. Len(spi.rx), spi.offset < i, i <= spi.offset + n PROVE t.rx[i] = 100 + i
      <3>1. PICK j \in 1 .. Chunk : j = i - spi.offset /\ j <= n /\ j <= k
        BY <1>2, <1>7, <2>1, <2>2, <2>3
      <3>2. w[j] = 100 + spi.offset + j
        BY <1>4, <1>12, <3>1 DEF Clocked
      <3>3. 100 + spi.offset + j = 100 + i
        BY <1>2, <2>2, <3>1
      <3> QED BY <1>10, <1>12, <2>1, <2>3, <3>1, <3>2, <3>3
    <2>4. ASSUME NEW i \in 1 .. Len(spi.rx), ~(spi.offset < i /\ i <= spi.offset + n) PROVE t.rx[i] = spi.rx[i]
      BY <1>10, <2>1, <2>4
    <2>5. t.rx \in [1 .. Len(spi.rx) -> Nat]
      <3>1. \A i \in 1 .. Len(spi.rx) : t.rx[i] \in Nat
        BY <2>2, <2>3, <2>4
      <3> QED BY <1>10, <2>1, <3>1
    <2>6. \A i \in 1 .. spi.offset : i \in 1 .. Len(spi.rx) /\ ~(spi.offset < i)
      BY <1>2, <2>1
    <2>7. \A i \in spi.offset + 1 .. spi.offset + n : i \in 1 .. Len(spi.rx) /\ spi.offset < i /\ i <= spi.offset + n
      BY <1>2, <2>1
    <2> QED BY <2>3, <2>4, <2>5, <2>6, <2>7
  <1> QED BY <1>2, <1>8, <1>10, <1>11, <1>12, RoundKeeps

LEMMA WordKeeps ==
    ASSUME SpiInv(spi), spi.offset < spi.total, NEW t, t = WordRound
    PROVE  SpiInv(t)
PROOF
  <1>1. PICK k : k = spi.offset + 1
    OBVIOUS
  <1>2. spi.offset \in Nat /\ spi.total \in Nat /\ k \in Nat /\ k <= spi.total
    BY <1>1 DEF SpiInv
  <1>3. PICK b : b = IF spi.op = "read" THEN 255 ELSE spi.tx[k]
    OBVIOUS
  <1>4. DOMAIN t = DOMAIN spi /\ t.op = spi.op /\ t.total = spi.total /\ t.tx = spi.tx
    BY DEF WordRound
  <1>5. t.offset = k /\ t.wire = Append(spi.wire, b)
        /\ t.rx = [i \in DOMAIN spi.rx |-> IF spi.op # "write" /\ i = k THEN 100 + k ELSE spi.rx[i]]
    BY <1>1, <1>3 DEF WordRound, SpiInv
  <1>6. ASSUME spi.op # "read"
        PROVE  \E x \in Seq(Nat) : /\ t.wire = spi.wire \o x /\ Len(x) = 1
                                   /\ \A i \in 1 .. 1 : x[i] = spi.tx[spi.offset + i]
    <2>1. b = spi.tx[k] /\ k \in 1 .. spi.total
      BY <1>1, <1>2, <1>3, <1>6
    <2>4. b \in Nat /\ spi.wire \in Seq(Nat)
      <3>1. b = k /\ spi.wire = Payload(spi.offset)
        BY <1>6, <2>1 DEF SpiInv
      <3>2. Payload(spi.offset) \in Seq(Nat)
        BY <1>2, PayloadIs
      <3> QED BY <1>2, <3>1, <3>2
    <2>2. Append(spi.wire, b) = spi.wire \o <<b>>
      BY <2>4, AppendIsConcat
    <2>3. <<b>> \in Seq(Nat) /\ Len(<<b>>) = 1 /\ \A i \in 1 .. 1 : <<b>>[i] = spi.tx[spi.offset + i]
      BY <1>1, <2>1, <2>4
    <2> QED BY <1>5, <2>2, <2>3
  <1>7. ASSUME spi.op # "write"
        PROVE  /\ t.rx \in [1 .. Len(spi.rx) -> Nat]
               /\ \A i \in 1 .. spi.offset : t.rx[i] = spi.rx[i]
               /\ \A i \in spi.offset + 1 .. spi.offset + 1 : t.rx[i] = 100 + i
    <2>1. spi.rx \in Seq(Nat) /\ Len(spi.rx) \in Nat /\ DOMAIN spi.rx = 1 .. Len(spi.rx) /\ spi.total <= Len(spi.rx)
      BY <1>7 DEF SpiInv
    <2>2. \A i \in 1 .. Len(spi.rx) : spi.rx[i] \in Nat
      BY <2>1
    <2>3. k \in 1 .. Len(spi.rx)
      BY <1>1, <1>2, <2>1
    <2>4. DOMAIN t.rx = 1 .. Len(spi.rx) /\ t.rx[k] = 100 + k /\ 100 + k \in Nat
      BY <1>2, <1>5, <1>7, <2>1, <2>3
    <2>5. \A i \in 1 .. Len(spi.rx) : i # k => t.rx[i] = spi.rx[i]
      BY <1>5, <2>1
    <2>6. t.rx \in [1 .. Len(spi.rx) -> Nat]
      <3>1. \A i \in 1 .. Len(spi.rx) : t.rx[i] \in Nat
        BY <2>2, <2>4, <2>5
      <3> QED BY <1>5, <2>1, <3>1
    <2>7. \A i \in 1 .. spi.offset : i \in 1 .. Len(spi.rx) /\ i # k
      BY <1>1, <1>2, <2>1
    <2>8. \A i \in spi.offset + 1 .. spi.offset + 1 : i = k
      BY <1>1, <1>2
    <2> QED BY <2>4, <2>5, <2>6, <2>7, <2>8
  <1>8. t.offset = spi.offset + 1 /\ t.offset <= spi.total
    BY <1>1, <1>2, <1>5
  <1> QED BY <1>4, <1>6, <1>7, <1>8, RoundKeeps

LEMMA SpiStepKeeps ==
    ASSUME SpiInv(spi), SpiStep
    PROVE  SpiInv(spi')
PROOF
  <1>1. spi' = EspRound \/ spi' = WordRound
    BY DEF SpiStep, Esp32C6Spi, Esp32C3Spi, Esp32S3Spi, Esp32S2Spi, Esp32Spi, Stm32F4Spi, Gd32VfSpi, Lpc17Spi
  <1>2. spi.offset < spi.total
    BY DEF SpiStep
  <1> QED BY <1>1, <1>2, EspKeeps, WordKeeps

-----------------------------------------------------------------------------
(* UART *)

Arrived(n) == {100 + k : k \in 1 .. n}
InOrder(q) == \A j, k \in DOMAIN q : j < k => q[j] < q[k]
Taken(q, n, lost) == {q[k] : k \in DOMAIN q} = Arrived(n) \ lost /\ InOrder(q)

UartInv(u) ==
    /\ DOMAIN u = {"chip", "op", "len", "count", "given", "txfifo", "line", "arrived", "rxfifo", "got", "lost"}
    /\ u.given \in Nat /\ u.arrived \in Nat /\ u.lost \subseteq Arrived(u.arrived)
    /\ u.line \in Seq(Nat) /\ u.txfifo \in Seq(Nat) /\ u.line \o u.txfifo = Payload(u.given)
    /\ u.got \in Seq(Nat) /\ u.rxfifo \in Seq(Nat) /\ Taken(u.got \o u.rxfifo, u.arrived, u.lost)

LEMMA UartHonestOf ==
    ASSUME UartInv(uart)
    PROVE  UartHonest
  BY DEF UartInv, UartHonest, Taken, InOrder, Arrived

LEMMA UartIdleInv ==
    ASSUME NEW c
    PROVE  UartInv(UartIdle(c))
PROOF
  <1>1. <<>> \o <<>> = <<>> /\ <<>> \in Seq(Nat) /\ Payload(0) = <<>>
    BY PayloadIs, ConcatEmptySeq
  <1>2. Taken(<<>>, 0, {})
    BY DEF Taken, InOrder, Arrived
  <1> QED BY <1>1, <1>2 DEF UartInv, UartIdle

\* The steps that change no more than the call, its counter and one of the two streams.
LEMMA UartCallKeeps ==
    ASSUME UartInv(uart), NEW t, DOMAIN t = DOMAIN uart,
           t.given = uart.given, t.arrived = uart.arrived, t.lost = uart.lost,
           t.line = uart.line, t.txfifo = uart.txfifo, t.got = uart.got, t.rxfifo = uart.rxfifo
    PROVE  UartInv(t)
  BY DEF UartInv

LEMMA UartPutKeeps ==
    ASSUME UartInv(uart), UartPut, NEW t, t = uart'
    PROVE  UartInv(t)
PROOF
  <1>1. Len(uart.txfifo) < TxSize(uart.chip)
    BY HalSizes DEF UartPut, Room, TxSize, Esp32C6Room, Esp32C3Room, Esp32S3Room, Esp32S2Room, Esp32Room,
                    Stm32F4Room, Gd32VfRoom, Lpc17Room
  <1>2. PICK g, x, l : g = uart.given /\ x = uart.txfifo /\ l = uart.line
    OBVIOUS
  <1>3. g \in Nat /\ g + 1 \in Nat /\ x \in Seq(Nat) /\ l \in Seq(Nat) /\ l \o x = Payload(g)
    BY <1>2 DEF UartInv
  <1>4. DOMAIN t = DOMAIN uart /\ t.arrived = uart.arrived /\ t.lost = uart.lost
        /\ t.line = uart.line /\ t.got = uart.got /\ t.rxfifo = uart.rxfifo
    BY DEF UartPut
  <1>5. t.given = g + 1 /\ t.txfifo = Append(x, g + 1)
    BY <1>1, <1>2 DEF UartPut, UartInv
  <1>6. l \o Append(x, g + 1) = Payload(g + 1)
    <2>1. \A e \in Nat : l \o Append(x, e) = Append(l \o x, e)
      BY <1>3, AppendMoves
    <2> QED BY <1>3, <2>1, PayloadGrows
  <1>7. Append(x, g + 1) \in Seq(Nat)
    BY <1>3, AppendProperties
  <1> QED BY <1>2, <1>3, <1>4, <1>5, <1>6, <1>7 DEF UartInv

LEMMA UartGetKeeps ==
    ASSUME UartInv(uart), UartGet, NEW t, t = uart'
    PROVE  UartInv(t)
PROOF
  <1>1. PICK g, x : g = uart.got /\ x = uart.rxfifo
    OBVIOUS
  <1>2. x # <<>> /\ g \in Seq(Nat) /\ x \in Seq(Nat)
    BY <1>1 DEF UartGet, UartInv
  <1>3. DOMAIN t = DOMAIN uart /\ t.arrived = uart.arrived /\ t.lost = uart.lost
        /\ t.line = uart.line /\ t.txfifo = uart.txfifo /\ t.given = uart.given
    BY DEF UartGet
  <1>4. t.got = Append(g, Head(x)) /\ t.rxfifo = Tail(x)
    BY <1>1 DEF UartGet, UartInv
  <1>5. Append(g, Head(x)) \o Tail(x) = g \o x
    BY <1>2, HeadMoves
  <1>6. Append(g, Head(x)) \in Seq(Nat) /\ Tail(x) \in Seq(Nat)
    BY <1>2, HeadTailProperties, AppendProperties
  <1> QED BY <1>1, <1>3, <1>4, <1>5, <1>6 DEF UartInv

LEMMA UartOutKeeps ==
    ASSUME UartInv(uart), uart.txfifo # <<>>, NEW t,
           t = [uart EXCEPT !.txfifo = Tail(@), !.line = Append(@, Head(uart.txfifo))]
    PROVE  UartInv(t)
PROOF
  <1>1. PICK l, x : l = uart.line /\ x = uart.txfifo
    OBVIOUS
  <1>2. x # <<>> /\ l \in Seq(Nat) /\ x \in Seq(Nat)
    BY <1>1 DEF UartInv
  <1>3. DOMAIN t = DOMAIN uart /\ t.arrived = uart.arrived /\ t.lost = uart.lost
        /\ t.got = uart.got /\ t.rxfifo = uart.rxfifo /\ t.given = uart.given
    OBVIOUS
  <1>4. t.line = Append(l, Head(x)) /\ t.txfifo = Tail(x)
    BY <1>1 DEF UartInv
  <1>5. Append(l, Head(x)) \o Tail(x) = l \o x
    BY <1>2, HeadMoves
  <1>6. Append(l, Head(x)) \in Seq(Nat) /\ Tail(x) \in Seq(Nat)
    BY <1>2, HeadTailProperties, AppendProperties
  <1> QED BY <1>1, <1>3, <1>4, <1>5, <1>6 DEF UartInv

LEMMA ArrivedGrows ==
    ASSUME NEW n \in Nat
    PROVE  /\ Arrived(n + 1) = Arrived(n) \cup {100 + n + 1} /\ 100 + n + 1 \notin Arrived(n)
           /\ \A b \in Arrived(n) : b \in Nat /\ b < 100 + n + 1
PROOF
  <1>1. 1 .. n + 1 = (1 .. n) \cup {n + 1}
    OBVIOUS
  <1>2. Arrived(n + 1) = Arrived(n) \cup {100 + (n + 1)} /\ 100 + (n + 1) = 100 + n + 1
    BY <1>1 DEF Arrived
  <1>3. \A b \in Arrived(n) : b \in Nat /\ b < 100 + n + 1
    BY DEF Arrived
  <1>4. 100 + n + 1 \notin Arrived(n)
    BY DEF Arrived
  <1> QED BY <1>2, <1>3, <1>4

LEMMA UartInKeeps ==
    ASSUME UartInv(uart), NEW b, b = 100 + uart.arrived + 1, NEW t,
           \/ t = [uart EXCEPT !.arrived = @ + 1, !.rxfifo = Append(@, b)]
           \/ t = [uart EXCEPT !.arrived = @ + 1, !.lost = @ \cup {b}]
    PROVE  UartInv(t)
PROOF
  <1>1. PICK n, lost, g, x, q : n = uart.arrived /\ lost = uart.lost /\ g = uart.got /\ x = uart.rxfifo /\ q = g \o x
    OBVIOUS
  <1>2. n \in Nat /\ n + 1 \in Nat /\ lost \subseteq Arrived(n) /\ g \in Seq(Nat) /\ x \in Seq(Nat) /\ Taken(q, n, lost)
    BY <1>1 DEF UartInv
  <1>3. q \in Seq(Nat) /\ b \in Nat
    BY <1>1, <1>2, ConcatProperties
  <1>4. /\ Arrived(n + 1) = Arrived(n) \cup {b} /\ b \notin Arrived(n)
        /\ \A c \in Arrived(n) : c \in Nat /\ c < b
    BY <1>1, <1>2, ArrivedGrows
  <1>5. DOMAIN t = DOMAIN uart /\ t.line = uart.line /\ t.txfifo = uart.txfifo /\ t.given = uart.given /\ t.got = g
    <2>1. CASE t = [uart EXCEPT !.arrived = @ + 1, !.rxfifo = Append(@, b)]
      BY <1>1, <2>1
    <2>2. CASE t = [uart EXCEPT !.arrived = @ + 1, !.lost = @ \cup {b}]
      BY <1>1, <2>2
    <2> QED BY <2>1, <2>2
  <1>6. t.arrived = n + 1
    BY <1>1 DEF UartInv
  <1>7. CASE t = [uart EXCEPT !.arrived = @ + 1, !.rxfifo = Append(@, b)]
    <2>1. t.rxfifo = Append(x, b) /\ t.lost = lost
      BY <1>1, <1>7 DEF UartInv
    <2>2. PICK r : r = Append(q, b)
      OBVIOUS
    <2>3. /\ r \in Seq(Nat) /\ Len(q) \in Nat /\ Len(r) = Len(q) + 1 /\ DOMAIN r = 1 .. Len(r) /\ DOMAIN q = 1 .. Len(q)
          /\ \A i \in 1 .. Len(q) : r[i] = q[i]
          /\ r[Len(q) + 1] = b
      BY <1>3, <2>2, AppendProperties
    <2>4. \A i \in DOMAIN r : (i \in DOMAIN q /\ r[i] = q[i]) \/ (i = Len(q) + 1 /\ r[i] = b)
      BY <2>3
    <2>5. Len(q) + 1 \in DOMAIN r /\ \A i \in DOMAIN q : i \in DOMAIN r /\ i < Len(q) + 1 /\ i \in Int
      BY <2>3
    <2>6. \A i \in DOMAIN q : q[i] \in Arrived(n)
      BY <1>2 DEF Taken
    <2>7. {r[k] : k \in DOMAIN r} = {q[k] : k \in DOMAIN q} \cup {b}
      BY <2>3, <2>4, <2>5
    <2>8. {r[k] : k \in DOMAIN r} = Arrived(n + 1) \ lost
      BY <1>2, <1>4, <2>7 DEF Taken
    <2>9. ASSUME NEW j \in DOMAIN r, NEW k \in DOMAIN r, j < k PROVE r[j] < r[k]
      <3>1. j \in DOMAIN q /\ r[j] = q[j]
        BY <2>3, <2>4, <2>9
      <3>2. CASE k \in DOMAIN q /\ r[k] = q[k]
        BY <1>2, <2>9, <3>1, <3>2 DEF Taken, InOrder
      <3>3. CASE r[k] = b
        BY <1>4, <2>6, <3>1, <3>3
      <3> QED BY <2>4, <3>2, <3>3
    <2>10. Taken(r, n + 1, lost)
      BY <2>8, <2>9 DEF Taken, InOrder
    <2>11. g \o Append(x, b) = r
      <3>1. g \o Append(x, b) = Append(g \o x, b)
        BY <1>2, <1>3, AppendMoves
      <3> QED BY <1>1, <2>2, <3>1
    <2>12. Append(x, b) \in Seq(Nat) /\ lost \subseteq Arrived(n + 1)
      BY <1>2, <1>3, <1>4, AppendProperties
    <2> QED BY <1>1, <1>2, <1>5, <1>6, <2>1, <2>10, <2>11, <2>12 DEF UartInv
  <1>8. CASE t = [uart EXCEPT !.arrived = @ + 1, !.lost = @ \cup {b}]
    <2>1. t.rxfifo = x /\ t.lost = lost \cup {b}
      BY <1>1, <1>8 DEF UartInv
    <2>2. Taken(q, n + 1, lost \cup {b})
      BY <1>2, <1>4 DEF Taken
    <2>3. lost \cup {b} \subseteq Arrived(n + 1)
      BY <1>2, <1>4
    <2> QED BY <1>1, <1>2, <1>5, <1>6, <2>1, <2>2, <2>3 DEF UartInv
  <1> QED BY <1>7, <1>8

LEMMA UartStepKeeps ==
    ASSUME UartInv(uart), UartStep
    PROVE  UartInv(uart')
PROOF
  <1>1. PICK t : t = uart'
    OBVIOUS
  <1>2. CASE UartPut
    BY <1>1, <1>2, UartPutKeeps
  <1>3. CASE UartGet
    BY <1>1, <1>3, UartGetKeeps
  <1>4. CASE UartDone
    <2>1. t = [uart EXCEPT !.op = "none"]
      BY <1>1, <1>4 DEF UartDone
    <2>2. /\ DOMAIN t = DOMAIN uart
          /\ t.given = uart.given /\ t.arrived = uart.arrived /\ t.lost = uart.lost
          /\ t.line = uart.line /\ t.txfifo = uart.txfifo /\ t.got = uart.got /\ t.rxfifo = uart.rxfifo
      BY <2>1
    <2> QED BY <1>1, <2>2, UartCallKeeps
  <1>5. CASE UartShift
    <2>1. PICK b : b = 100 + uart.arrived + 1
      OBVIOUS
    <2>2. \/ /\ uart.txfifo # <<>>
             /\ t = [uart EXCEPT !.txfifo = Tail(@), !.line = Append(@, Head(uart.txfifo))]
          \/ t = [uart EXCEPT !.arrived = @ + 1, !.rxfifo = Append(@, b)]
          \/ t = [uart EXCEPT !.arrived = @ + 1, !.lost = @ \cup {b}]
      BY <1>1, <1>5, <2>1 DEF UartShift
    <2> QED BY <1>1, <2>1, <2>2, UartOutKeeps, UartInKeeps
  <1> QED BY <1>2, <1>3, <1>4, <1>5 DEF UartStep

-----------------------------------------------------------------------------
(* I2C.  c is the master, its flags and its device.                         *)

Segment == [dir : {"W", "R"}, len : Nat]
Cur(c) == c.segs[c.seg]
Here(c) == <<c.no, c.seg>>

\* A call has one or two segments.
Shape(c) ==
    /\ c.segs \in Seq(Segment) /\ Len(c.segs) \in {1, 2} /\ c.seg \in 1 .. Len(c.segs)
    /\ c.i \in Nat /\ c.i <= Cur(c).len
    /\ c.call \in {"read", "write_read"} => c.segs[Len(c.segs)].dir = "R"

\* What the device and the caller have from the segment before, and the caller at any time.
Prior(c) == IF c.seg = 1 THEN <<>> ELSE SentBy(c, 1)
GotBefore(c) == IF c.seg = 1 THEN <<>> ELSE GotBy(c, 1)
Fetched(c) == IF Cur(c).dir = "R" THEN GotBefore(c) \o Read(Here(c), c.i) ELSE GotBefore(c)

\* START and the address are asked for and awaited in turn.  A second segment finds nothing
\* on its way to the device.
Opening(c) ==
    /\ c.phase \in {"start", "started", "addr", "addressed"} =>
         /\ c.i = 0
         /\ c.seg = 2 => c.device = Prior(c) /\ (c.bus = "W" => c.flight = <<>>)
    /\ c.phase \in {"start", "started"} /\ c.seg = 2 => c.bus # "addr"
    /\ c.phase = "addr" => c.bus \in {"started", "idle", "dead"}
    /\ c.phase = "addressed" => /\ c.bus \notin {"W", "R"} /\ c.flight = <<>> /\ c.rx = <<>>
                                /\ c.bus = "answered" => /\ c.device = Prior(c)
                                                         /\ c.sent = 0 /\ c.from = Here(c)

\* What waits in the registers are the next bytes of the segment.
Waiting(of, i, n) == [j \in 1..n |-> <<of, i + j>>]

\* The bus is free or about to be.
Released(c) == c.bus = "idle" \/ c.stop

\* The bytes of a write are with the device or on their way, those of a read with the caller
\* or in the registers.  Data moves only when no START is pending, and a read that announced
\* its last byte has freed the bus, unless it is part of a transaction.
Moving(c) ==
    /\ c.phase \in {"data", "last"} =>
         /\ c.bus # "addr"
         /\ c.bus \in {"W", "R"} => ~c.start
         /\ c.bus = "R" => c.flight = <<>>
         /\ Cur(c).dir = "W" => c.phase = "data" /\ c.device \o c.flight = Prior(c) \o Payload(c.i)
         /\ Cur(c).dir = "R" => /\ c.bus # "W" /\ c.flight = <<>>
                                /\ c.device = Prior(c) /\ c.from = Here(c)
                                /\ c.sent \in Nat /\ c.i <= c.sent
                                /\ c.rx = Waiting(Here(c), c.i, c.sent - c.i)
                                /\ c.sent > 0 => ~c.start
    /\ c.phase = "last" => c.i < Cur(c).len
    /\ (c.phase = "last" \/ (c.phase = "data" /\ Cur(c).dir = "R" /\ c.i = Cur(c).len /\ c.i > 0))
          /\ c.call # "transaction" /\ (c.bus = "R" \/ c.sent > 0) => Released(c)

InCall(c) == Shape(c) /\ c.got = Fetched(c) /\ c.result # "Ok" /\ Opening(c) /\ Moving(c)

Served(c) ==
    /\ c.phase = "none" /\ c.bus # "addr" /\ (c.bus = "W" => c.flight = <<>>)
    /\ c.device = SentBy(c, 1) \o SentBy(c, 2)
    /\ c.got = GotBy(c, 1) \o GotBy(c, 2)
    /\ ~EndsEmpty(c) => ~c.start /\ Released(c)

I2cFields ==
    {"chip", "call", "no", "segs", "seg", "phase", "i", "result", "start", "stop", "bus", "errs", "flight",
     "rx", "ack", "acked", "from", "sent", "device", "got"}

I2cInv(c) ==
    /\ DOMAIN c = I2cFields
    /\ c.phase \in {"none", "start", "started", "addr", "addressed", "data", "last"}
    /\ c.flight \in Seq(Nat) /\ c.device \in Seq(Nat)
    /\ c.phase # "none" => InCall(c)
    /\ c.result = "Ok" => Served(c)

LEMMA ReadIs ==
    ASSUME NEW B, NEW of, NEW n \in Nat, \A k \in Nat : <<of, k>> \in B
    PROVE  /\ Read(of, n) \in Seq(B) /\ Append(Read(of, n), <<of, n + 1>>) = Read(of, n + 1)
           /\ Read(of, 0) = <<>>
  BY DEF Read

LEMMA WaitingIs ==
    ASSUME NEW of, NEW i \in Nat, NEW n \in Nat
    PROVE  /\ Waiting(of, i, 0) = <<>> /\ (Waiting(of, i, n) = <<>> => n = 0)
           /\ Append(Waiting(of, i, n), <<of, i + n + 1>>) = Waiting(of, i, n + 1)
PROOF
  <1>1. PICK s : s = Waiting(of, i, n)
    OBVIOUS
  <1>2. s = [j \in 1..n |-> <<of, i + j>>] /\ Len(s) = n
    BY <1>1 DEF Waiting
  <1>3. Waiting(of, i, 0) = <<>> /\ (s = <<>> => n = 0)
    BY <1>2 DEF Waiting
  <1>4. Append(s, <<of, i + n + 1>>) = Waiting(of, i, n + 1)
    BY <1>2 DEF Waiting
  <1> QED BY <1>1, <1>3, <1>4

LEMMA WaitingTaken ==
    ASSUME NEW of, NEW i \in Nat, NEW n \in Nat, n > 0
    PROVE  /\ Head(Waiting(of, i, n)) = <<of, i + 1>>
           /\ Tail(Waiting(of, i, n)) = Waiting(of, i + 1, n - 1)
PROOF
  <1>1. PICK s : s = Waiting(of, i, n)
    OBVIOUS
  <1>2. s = [j \in 1..n |-> <<of, i + j>>] /\ Len(s) = n
    BY <1>1 DEF Waiting
  <1>3. Head(s) = <<of, i + 1>> /\ Tail(s) = Waiting(of, i + 1, n - 1)
    BY <1>2 DEF Waiting
  <1> QED BY <1>1, <1>3

LEMMA AppendMovesIn ==
    ASSUME NEW B, NEW a \in Seq(B), NEW b \in Seq(B), NEW e \in B
    PROVE  a \o Append(b, e) = Append(a \o b, e)
  OBVIOUS

LEMMA I2cHonestOf ==
    ASSUME I2cInv(i2c)
    PROVE  I2cHonest
  BY DEF I2cInv, I2cHonest, Served, Released

LEMMA I2cIdleInv ==
    ASSUME NEW c
    PROVE  I2cInv(I2cIdle(c))
  BY DEF I2cInv, I2cIdle, I2cFields

\* The segment a call is at.
LEMMA SegmentOf ==
    ASSUME NEW c, Shape(c)
    PROVE  /\ c.seg \in {1, 2} /\ c.i \in Nat /\ c.segs \in Seq(Segment) /\ c.seg \in DOMAIN c.segs
           /\ DOMAIN c.segs = 1 .. Len(c.segs) /\ 1 \in DOMAIN c.segs
           /\ Cur(c).dir \in {"W", "R"} /\ Cur(c).len \in Nat /\ c.i <= Cur(c).len
           /\ \A k \in DOMAIN c.segs : c.segs[k] \in Segment
PROOF
  <1>1. c.segs \in Seq(Segment) /\ Len(c.segs) \in {1, 2} /\ c.seg \in 1 .. Len(c.segs) /\ c.i \in Nat
        /\ c.i <= Cur(c).len
    BY DEF Shape
  <1>6. DOMAIN c.segs = 1 .. Len(c.segs)
    BY <1>1, LenProperties
  <1>7. PICK n : n = Len(c.segs)
    OBVIOUS
  <1>8. n \in {1, 2} /\ c.seg \in 1 .. n
    BY <1>1, <1>7
  <1>9. c.seg \in {1, 2} /\ 1 \in 1 .. n
    BY <1>8
  <1>2. DOMAIN c.segs = 1 .. Len(c.segs) /\ c.seg \in {1, 2} /\ 1 \in DOMAIN c.segs
    BY <1>6, <1>7, <1>9
  <1>3. \A k \in DOMAIN c.segs : c.segs[k] \in Segment
    BY <1>1, <1>2
  <1>4. Cur(c) \in Segment
    BY <1>1, <1>2, <1>3 DEF Cur
  <1>5. Cur(c).dir \in {"W", "R"} /\ Cur(c).len \in Nat
    BY <1>4 DEF Segment
  <1> QED BY <1>1, <1>2, <1>3, <1>5

\* The bytes of a call.
Bytes(c) == {<<<<c.no, s>>, k>> : s \in {1, 2}, k \in Nat}

LEMMA SentBySeq ==
    ASSUME NEW c, Shape(c), NEW k \in {1, 2}
    PROVE  /\ SentBy(c, k) \in Seq(Nat) /\ Prior(c) \in Seq(Nat)
           /\ GotBy(c, k) \in Seq(Bytes(c)) /\ GotBefore(c) \in Seq(Bytes(c))
           /\ \A n \in Nat : Read(<<c.no, k>>, n) \in Seq(Bytes(c)) /\ Read(Here(c), n) \in Seq(Bytes(c))
PROOF
  <1>1. ASSUME NEW j \in {1, 2}, NEW n \in Nat PROVE Read(<<c.no, j>>, n) \in Seq(Bytes(c))
    <2>1. \A m \in Nat : <<<<c.no, j>>, m>> \in Bytes(c)
      BY DEF Bytes
    <2> QED BY <2>1, ReadIs
  <1>2. ASSUME NEW j \in {1, 2} PROVE SentBy(c, j) \in Seq(Nat) /\ GotBy(c, j) \in Seq(Bytes(c))
    <2>1. CASE j \in DOMAIN c.segs
      <3>1. c.segs[j].len \in Nat
        BY <2>1, SegmentOf DEF Segment
      <3>2. Payload(c.segs[j].len) \in Seq(Nat) /\ Read(<<c.no, j>>, c.segs[j].len) \in Seq(Bytes(c))
        BY <1>1, <3>1, PayloadIs
      <3>3. <<>> \in Seq(Nat) /\ <<>> \in Seq(Bytes(c))
        BY EmptySeq
      <3> QED BY <3>2, <3>3 DEF SentBy, GotBy
    <2>2. CASE j \notin DOMAIN c.segs
      BY <2>2 DEF SentBy, GotBy
    <2> QED BY <2>1, <2>2
  <1>3. c.seg \in {1, 2}
    BY SegmentOf
  <1>4. Prior(c) \in Seq(Nat) /\ GotBefore(c) \in Seq(Bytes(c))
    <2>1. <<>> \in Seq(Nat) /\ <<>> \in Seq(Bytes(c)) /\ 1 \in {1, 2}
      BY EmptySeq
    <2>2. SentBy(c, 1) \in Seq(Nat) /\ GotBy(c, 1) \in Seq(Bytes(c))
      BY <1>2, <2>1
    <2> QED BY <2>1, <2>2 DEF Prior, GotBefore
  <1>5. \A n \in Nat : Read(<<c.no, k>>, n) \in Seq(Bytes(c)) /\ Read(Here(c), n) \in Seq(Bytes(c))
    BY <1>1, <1>3 DEF Here
  <1> QED BY <1>2, <1>4, <1>5

\* The fields that say where a call stands.
Place(c, t) == t.segs = c.segs /\ t.seg = c.seg /\ t.call = c.call /\ t.no = c.no

LEMMA SamePlace ==
    ASSUME NEW c, NEW t, Place(c, t)
    PROVE  /\ Cur(t) = Cur(c) /\ Prior(t) = Prior(c) /\ GotBefore(t) = GotBefore(c) /\ Here(t) = Here(c)
           /\ SentBy(t, 1) = SentBy(c, 1) /\ SentBy(t, 2) = SentBy(c, 2)
           /\ GotBy(t, 1) = GotBy(c, 1) /\ GotBy(t, 2) = GotBy(c, 2)
           /\ EndsEmpty(t) = EndsEmpty(c)
           /\ (t.i = c.i => (Shape(t) <=> Shape(c)) /\ Fetched(t) = Fetched(c))
           /\ (Shape(c) /\ t.i \in Nat /\ t.i <= Cur(c).len => Shape(t))
           /\ (Cur(c).dir # "R" => Fetched(t) = Fetched(c))
PROOF
  <1>1. /\ Cur(t) = Cur(c) /\ Here(t) = Here(c) /\ EndsEmpty(t) = EndsEmpty(c)
        /\ SentBy(t, 1) = SentBy(c, 1) /\ SentBy(t, 2) = SentBy(c, 2)
        /\ GotBy(t, 1) = GotBy(c, 1) /\ GotBy(t, 2) = GotBy(c, 2)
    BY DEF Place, Cur, Here, SentBy, GotBy, EndsEmpty
  <1>2. Prior(t) = Prior(c) /\ GotBefore(t) = GotBefore(c)
    BY <1>1 DEF Place, Prior, GotBefore
  <1>3. t.i = c.i => (Shape(t) <=> Shape(c)) /\ Fetched(t) = Fetched(c)
    BY <1>1, <1>2 DEF Place, Shape, Fetched
  <1>4. Shape(c) /\ t.i \in Nat /\ t.i <= Cur(c).len => Shape(t)
    BY <1>1 DEF Place, Shape
  <1>5. Cur(c).dir # "R" => Fetched(t) = Fetched(c)
    BY <1>1, <1>2 DEF Place, Fetched
  <1> QED BY <1>1, <1>2, <1>3, <1>4, <1>5

\* A step that leaves the call where it is.
Still(c, t) == Place(c, t) /\ t.i = c.i /\ t.got = c.got /\ t.result = c.result

LEMMA StaysPlaced ==
    ASSUME NEW c, NEW t, InCall(c), Still(c, t)
    PROVE  /\ Shape(t) /\ t.got = Fetched(t) /\ t.result # "Ok" /\ Prior(t) = Prior(c) /\ Cur(t) = Cur(c)
           /\ Here(t) = Here(c)
PROOF
  <1>1. Shape(c) /\ c.got = Fetched(c) /\ c.result # "Ok" /\ Place(c, t) /\ t.i = c.i /\ t.got = c.got
        /\ t.result = c.result
    BY DEF InCall, Still
  <1>2. Prior(t) = Prior(c) /\ Cur(t) = Cur(c) /\ Shape(t) /\ Fetched(t) = Fetched(c) /\ Here(t) = Here(c)
    BY <1>1, SamePlace
  <1> QED BY <1>1, <1>2

\* A driver's step within a call, and a step of the bus.
LEMMA DriverKeeps ==
    ASSUME I2cInv(i2c), i2c.phase # "none", NEW t, DOMAIN t = I2cFields, Still(i2c, t),
           t.phase \in {"start", "started", "addr", "addressed", "data", "last"},
           t.flight \in Seq(Nat), t.device \in Seq(Nat), Opening(t), Moving(t)
    PROVE  I2cInv(t)
PROOF
  <1>1. InCall(i2c)
    BY DEF I2cInv
  <1>2. Shape(t) /\ t.got = Fetched(t) /\ t.result # "Ok"
    BY <1>1, StaysPlaced
  <1> QED BY <1>2 DEF I2cInv, InCall

LEMMA BusKeeps ==
    ASSUME I2cInv(i2c), NEW t, DOMAIN t = I2cFields, Still(i2c, t), t.phase = i2c.phase,
           t.flight \in Seq(Nat), t.device \in Seq(Nat),
           i2c.phase # "none" => Opening(t) /\ Moving(t),
           i2c.result = "Ok" => /\ t.device = i2c.device /\ t.bus # "addr" /\ (t.bus = "W" => t.flight = <<>>)
                                /\ ~EndsEmpty(i2c) => ~t.start /\ Released(t)
    PROVE  I2cInv(t)
PROOF
  <1>1. t.phase \in {"none", "start", "started", "addr", "addressed", "data", "last"}
    BY DEF I2cInv
  <1>2. CASE i2c.phase # "none"
    BY <1>1, <1>2, DriverKeeps
  <1>3. CASE i2c.phase = "none"
    <2>1. ASSUME i2c.result = "Ok" PROVE Served(t)
      <3>1. Served(i2c) /\ Place(i2c, t) /\ t.got = i2c.got
        BY <2>1 DEF I2cInv, Still
      <3>2. /\ SentBy(t, 1) = SentBy(i2c, 1) /\ SentBy(t, 2) = SentBy(i2c, 2)
            /\ GotBy(t, 1) = GotBy(i2c, 1) /\ GotBy(t, 2) = GotBy(i2c, 2)
            /\ EndsEmpty(t) = EndsEmpty(i2c)
        BY <3>1, SamePlace
      <3>3. t.device = SentBy(t, 1) \o SentBy(t, 2) /\ t.got = GotBy(t, 1) \o GotBy(t, 2)
        BY <2>1, <3>1, <3>2 DEF Served
      <3>4. ~EndsEmpty(t) => ~t.start /\ Released(t)
        BY <2>1, <3>2
      <3> QED BY <1>3, <2>1, <3>3, <3>4 DEF Served
    <2>2. t.result = i2c.result
      BY DEF Still
    <2> QED BY <1>1, <1>3, <2>1, <2>2 DEF I2cInv
  <1> QED BY <1>2, <1>3

\* A wait that finds an error flag ends the call.
LEMMA ErrorKeeps ==
    ASSUME I2cInv(i2c), NEW t, t = [i2c EXCEPT !.phase = "none", !.result = check_errors]
    PROVE  I2cInv(t)
PROOF
  <1>1. DOMAIN i2c = I2cFields /\ check_errors \in {"HardwareError", "Busy"}
    BY DEF I2cInv, check_errors
  <1>2. DOMAIN t = I2cFields /\ t.flight = i2c.flight /\ t.device = i2c.device
    BY <1>1
  <1>3. t.phase = "none" /\ t.result # "Ok"
    BY <1>1 DEF I2cFields
  <1> QED BY <1>2, <1>3 DEF I2cInv

LEMMA CallKeeps ==
    ASSUME I2cInv(i2c), NEW call, NEW segs \in Seq(Segment), Len(segs) \in {1, 2},
           call \in {"read", "write_read"} => segs[Len(segs)].dir = "R",
           I2cCall(call, segs), NEW t, t = i2c'
    PROVE  I2cInv(t)
PROOF
  <1>1. DOMAIN i2c = I2cFields
    BY DEF I2cInv
  <1>2. DOMAIN t = I2cFields /\ t.flight = i2c.flight /\ t.device = i2c.device
    BY <1>1 DEF I2cCall
  <1>3. /\ t.call = call /\ t.segs = segs /\ t.seg = 1 /\ t.i = 0 /\ t.result = "none" /\ t.phase = "start"
        /\ t.got = <<>>
    BY <1>1 DEF I2cCall, I2cFields
  <1>9. 1 \in 1 .. Len(segs)
    <2>1. PICK n : n = Len(segs) /\ n \in {1, 2}
      OBVIOUS
    <2>2. 1 \in 1 .. n
      BY <2>1
    <2> QED BY <2>1, <2>2
  <1>4. 1 \in 1 .. Len(segs) /\ segs[1] \in Segment
    BY <1>9, ElementOfSeq
  <1>5. Cur(t) = segs[1] /\ 0 <= Cur(t).len
    BY <1>3, <1>4 DEF Cur, Segment
  <1>6. Shape(t)
    BY <1>3, <1>4, <1>5 DEF Shape
  <1>7. t.got = Fetched(t)
    <2>1. Read(Here(t), 0) = <<>>
      BY DEF Read
    <2>2. <<>> \o <<>> = <<>>
      BY EmptySeq, ConcatEmptySeq
    <2> QED BY <1>3, <2>1, <2>2 DEF Fetched, GotBefore
  <1>8. Opening(t) /\ Moving(t)
    BY <1>3 DEF Opening, Moving
  <1> QED BY <1>2, <1>3, <1>6, <1>7, <1>8 DEF I2cInv, InCall

\* START and the address: what is asked for, and what is awaited.
LEMMA StartKeeps ==
    ASSUME I2cInv(i2c), i2c.phase = "start", NEW t, t = [i2c EXCEPT !.phase = "started", !.start = TRUE]
    PROVE  I2cInv(t)
PROOF
  <1>1. DOMAIN i2c = I2cFields /\ InCall(i2c) /\ i2c.flight \in Seq(Nat) /\ i2c.device \in Seq(Nat)
    BY DEF I2cInv
  <1>2. /\ DOMAIN t = I2cFields /\ Still(i2c, t) /\ t.bus = i2c.bus
        /\ t.flight = i2c.flight /\ t.device = i2c.device
    BY <1>1 DEF Still, Place
  <1>3. t.phase = "started"
    BY <1>1 DEF I2cFields
  <1>4. Prior(t) = Prior(i2c) /\ t.seg = i2c.seg /\ t.i = i2c.i
    BY <1>1, <1>2, StaysPlaced DEF Still, Place
  <1>5. Opening(t)
    BY <1>1, <1>2, <1>3, <1>4 DEF InCall, Opening
  <1>6. Moving(t)
    BY <1>3 DEF Moving
  <1> QED BY <1>1, <1>2, <1>3, <1>5, <1>6, DriverKeeps

LEMMA StartedKeeps ==
    ASSUME I2cInv(i2c), i2c.phase = "started", i2c.bus = "started", NEW t, t = [i2c EXCEPT !.phase = "addr"]
    PROVE  I2cInv(t)
PROOF
  <1>1. DOMAIN i2c = I2cFields /\ InCall(i2c) /\ i2c.flight \in Seq(Nat) /\ i2c.device \in Seq(Nat)
    BY DEF I2cInv
  <1>2. /\ DOMAIN t = I2cFields /\ Still(i2c, t) /\ t.bus = i2c.bus
        /\ t.flight = i2c.flight /\ t.device = i2c.device
    BY <1>1 DEF Still, Place
  <1>3. t.phase = "addr"
    BY <1>1 DEF I2cFields
  <1>4. Prior(t) = Prior(i2c) /\ t.seg = i2c.seg /\ t.i = i2c.i
    BY <1>1, <1>2, StaysPlaced DEF Still, Place
  <1>5. Opening(t)
    BY <1>1, <1>2, <1>3, <1>4 DEF InCall, Opening
  <1>6. Moving(t)
    BY <1>3 DEF Moving
  <1> QED BY <1>1, <1>2, <1>3, <1>5, <1>6, DriverKeeps

LEMMA AddrKeeps ==
    ASSUME I2cInv(i2c), i2c.phase = "addr", NEW t,
           t = [i2c EXCEPT !.phase = "addressed", !.flight = <<>>, !.rx = <<>>,
                           !.bus = IF @ = "started" THEN "addr" ELSE @]
    PROVE  I2cInv(t)
PROOF
  <1>1. DOMAIN i2c = I2cFields /\ InCall(i2c) /\ i2c.device \in Seq(Nat)
    BY DEF I2cInv
  <1>2. DOMAIN t = I2cFields /\ Still(i2c, t) /\ t.device = i2c.device
    BY <1>1 DEF Still, Place
  <1>3. /\ t.phase = "addressed" /\ t.flight = <<>> /\ t.rx = <<>>
        /\ t.bus = IF i2c.bus = "started" THEN "addr" ELSE i2c.bus
    BY <1>1 DEF I2cFields
  <1>4. Prior(t) = Prior(i2c) /\ t.seg = i2c.seg /\ t.i = i2c.i
    BY <1>1, <1>2, StaysPlaced DEF Still, Place
  <1>5. t.bus \in {"addr", "idle", "dead"} /\ i2c.i = 0 /\ (i2c.seg = 2 => i2c.device = Prior(i2c))
    BY <1>1, <1>3 DEF InCall, Opening
  <1>6. Opening(t)
    BY <1>2, <1>3, <1>4, <1>5 DEF Opening
  <1>7. Moving(t)
    BY <1>3 DEF Moving
  <1>8. t.flight \in Seq(Nat)
    BY <1>3
  <1> QED BY <1>1, <1>2, <1>3, <1>6, <1>7, <1>8, DriverKeeps

\* The data of a segment begins with everything before it at the device, and nothing of an
\* earlier one in the registers.
LEMMA AddressedKeeps ==
    ASSUME I2cInv(i2c), i2c.phase = "addressed", i2c.bus = "answered", NEW t,
           t = [i2c EXCEPT !.phase = "data", !.bus = IF i2c.start THEN @ ELSE Cur(i2c).dir]
    PROVE  I2cInv(t)
PROOF
  <1>1. DOMAIN i2c = I2cFields /\ InCall(i2c) /\ i2c.flight \in Seq(Nat) /\ i2c.device \in Seq(Nat)
    BY DEF I2cInv
  <1>2. /\ DOMAIN t = I2cFields /\ Still(i2c, t) /\ t.flight = i2c.flight /\ t.device = i2c.device
        /\ t.start = i2c.start /\ t.rx = i2c.rx /\ t.sent = i2c.sent /\ t.from = i2c.from
    BY <1>1 DEF Still, Place
  <1>3. t.phase = "data" /\ t.bus = (IF i2c.start THEN "answered" ELSE Cur(i2c).dir)
    BY <1>1 DEF I2cFields
  <1>4. /\ Prior(t) = Prior(i2c) /\ Cur(t) = Cur(i2c) /\ Here(t) = Here(i2c) /\ t.i = i2c.i
        /\ Cur(i2c).dir \in {"W", "R"} /\ Shape(i2c)
    BY <1>1, <1>2, StaysPlaced, SegmentOf DEF Still, InCall
  <1>5. /\ i2c.i = 0 /\ i2c.flight = <<>> /\ i2c.rx = <<>> /\ i2c.device = Prior(i2c)
        /\ i2c.sent = 0 /\ i2c.from = Here(i2c)
    BY <1>1 DEF InCall, Opening
  <1>6. Opening(t)
    BY <1>3 DEF Opening
  <1>7. t.device \o t.flight = Prior(t) \o Payload(t.i)
    <2>1. Payload(t.i) = <<>> /\ t.flight = <<>> /\ t.device = Prior(t)
      BY <1>2, <1>4, <1>5, PayloadIs
    <2> QED BY <2>1
  <1>8. t.rx = Waiting(Here(t), t.i, t.sent - t.i) /\ t.sent \in Nat /\ t.i <= t.sent /\ ~(t.sent > 0)
    <2>1. Waiting(Here(t), 0, 0) = <<>>
      BY WaitingIs
    <2>2. t.sent = 0 /\ t.i = 0 /\ t.sent - t.i = 0 /\ t.rx = <<>>
      BY <1>2, <1>4, <1>5
    <2> QED BY <2>1, <2>2
  <1>9. t.bus # "addr" /\ (t.bus \in {"W", "R"} => ~t.start /\ t.bus = Cur(t).dir)
    BY <1>2, <1>3, <1>4
  <1>10. t.i = 0 /\ t.device = Prior(t) /\ t.from = Here(t) /\ t.flight = <<>>
    BY <1>2, <1>4, <1>5
  <1>11. Moving(t)
    <2>1. CASE Cur(t).dir = "W"
      <3>1. t.bus # "R" /\ Cur(t).dir # "R"
        BY <1>9, <2>1
      <3> QED BY <1>3, <1>7, <1>9, <2>1, <3>1 DEF Moving
    <2>2. CASE Cur(t).dir = "R"
      <3>1. t.bus # "W" /\ Cur(t).dir # "W"
        BY <1>9, <2>2
      <3>2. ~(t.i > 0)
        BY <1>10
      <3> QED BY <1>3, <1>8, <1>9, <1>10, <2>2, <3>1, <3>2 DEF Moving
    <2> QED BY <1>4, <2>1, <2>2
  <1> QED BY <1>1, <1>2, <1>3, <1>6, <1>11, DriverKeeps

\* A byte of a write joins what is on its way.
LEMMA PutKeeps ==
    ASSUME I2cInv(i2c), i2c.phase = "data", Cur(i2c).dir = "W", i2c.i < Cur(i2c).len, i2c.bus = "W", NEW t,
           t = [i2c EXCEPT !.i = @ + 1, !.flight = Append(@, i2c.i + 1)]
    PROVE  I2cInv(t)
PROOF
  <1>1. /\ DOMAIN i2c = I2cFields /\ InCall(i2c) /\ i2c.flight \in Seq(Nat) /\ i2c.device \in Seq(Nat)
        /\ Shape(i2c)
    BY DEF I2cInv, InCall
  <1>2. /\ DOMAIN t = I2cFields /\ Place(i2c, t) /\ t.got = i2c.got /\ t.result = i2c.result
        /\ t.device = i2c.device /\ t.bus = "W" /\ t.start = i2c.start /\ t.phase = "data"
    BY <1>1 DEF Place
  <1>3. PICK f, d, n, p, b : /\ f = i2c.flight /\ d = i2c.device /\ n = i2c.i /\ p = Payload(n)
                             /\ b = Prior(i2c)
    OBVIOUS
  <1>4. f \in Seq(Nat) /\ d \in Seq(Nat) /\ n \in Nat /\ p \in Seq(Nat) /\ b \in Seq(Nat)
    <2>1. n \in Nat /\ 1 \in {1, 2}
      BY <1>1, <1>3, SegmentOf
    <2> QED BY <1>1, <1>3, <2>1, PayloadIs, SentBySeq
  <1>5. t.i = n + 1 /\ t.flight = Append(f, n + 1)
    BY <1>1, <1>3 DEF I2cFields
  <1>6. n + 1 \in Nat /\ n < Cur(i2c).len /\ Cur(i2c).len \in Nat
    BY <1>1, <1>3, <1>4, SegmentOf
  <1>7. t.i \in Nat /\ t.i <= Cur(i2c).len
    BY <1>4, <1>5, <1>6
  <1>8. Shape(t) /\ t.got = Fetched(t) /\ t.result # "Ok" /\ Prior(t) = b /\ Cur(t) = Cur(i2c)
    <2>1. Prior(t) = Prior(i2c) /\ Cur(t) = Cur(i2c) /\ Fetched(t) = Fetched(i2c)
      BY <1>2, SamePlace
    <2>2. Shape(i2c) /\ t.i \in Nat /\ t.i <= Cur(i2c).len => Shape(t)
      BY <1>2, SamePlace
    <2> QED BY <1>1, <1>2, <1>3, <1>7, <2>1, <2>2 DEF InCall
  <1>9. ~t.start /\ d \o f = b \o p
    BY <1>1, <1>2, <1>3 DEF InCall, Moving
  <1>10. d \o Append(f, n + 1) = b \o Payload(n + 1)
    <2>1. d \o Append(f, n + 1) = Append(d \o f, n + 1)
      BY <1>4, <1>6, AppendMoves
    <2>2. b \o Append(p, n + 1) = Append(b \o p, n + 1)
      BY <1>4, <1>6, AppendMoves
    <2>3. Append(p, n + 1) = Payload(n + 1)
      BY <1>3, <1>4, PayloadGrows
    <2> QED BY <1>9, <2>1, <2>2, <2>3
  <1>11. t.device \o t.flight = Prior(t) \o Payload(t.i)
    BY <1>2, <1>3, <1>5, <1>8, <1>10
  <1>12. Moving(t)
    BY <1>2, <1>8, <1>9, <1>11 DEF Moving
  <1>13. Opening(t)
    BY <1>2 DEF Opening
  <1>14. t.flight \in Seq(Nat)
    <2>1. PICK m \in Nat : m = n + 1
      BY <1>6
    <2>2. Append(f, m) \in Seq(Nat)
      BY <1>4, <2>1, AppendProperties
    <2> QED BY <1>5, <2>1, <2>2
  <1> QED BY <1>1, <1>2, <1>8, <1>12, <1>13, <1>14 DEF I2cInv, InCall

\* A read announces its last byte, and takes a byte.
LEMMA LastKeeps ==
    ASSUME I2cInv(i2c), i2c.phase = "data", Cur(i2c).dir = "R", i2c.i < Cur(i2c).len, NEW t,
           \/ i2c.call = "transaction" /\ t = [i2c EXCEPT !.phase = "last", !.ack = FALSE]
           \/ t = [i2c EXCEPT !.phase = "last", !.ack = FALSE, !.stop = TRUE]
    PROVE  I2cInv(t)
PROOF
  <1>1. DOMAIN i2c = I2cFields /\ InCall(i2c) /\ i2c.flight \in Seq(Nat) /\ i2c.device \in Seq(Nat)
    BY DEF I2cInv
  <1>2. /\ DOMAIN t = I2cFields /\ Still(i2c, t) /\ t.flight = i2c.flight /\ t.device = i2c.device
        /\ t.start = i2c.start /\ t.rx = i2c.rx /\ t.sent = i2c.sent /\ t.from = i2c.from /\ t.bus = i2c.bus
    <2>1. CASE t = [i2c EXCEPT !.phase = "last", !.ack = FALSE]
      BY <1>1, <2>1 DEF Still, Place
    <2>2. CASE t = [i2c EXCEPT !.phase = "last", !.ack = FALSE, !.stop = TRUE]
      BY <1>1, <2>2 DEF Still, Place
    <2> QED BY <2>1, <2>2
  <1>3. t.phase = "last" /\ (t.call # "transaction" => t.stop)
    BY <1>1 DEF I2cFields
  <1>4. /\ Prior(t) = Prior(i2c) /\ Cur(t) = Cur(i2c) /\ Here(t) = Here(i2c) /\ t.i = i2c.i
    BY <1>1, <1>2, StaysPlaced DEF Still
  <1>5. Moving(i2c)
    BY <1>1 DEF InCall
  <1>6. Moving(t)
    BY <1>2, <1>3, <1>4, <1>5 DEF Moving, Released
  <1>7. Opening(t)
    BY <1>3 DEF Opening
  <1> QED BY <1>1, <1>2, <1>3, <1>6, <1>7, DriverKeeps

LEMMA GetKeeps ==
    ASSUME I2cInv(i2c), i2c.phase \in {"data", "last"}, Cur(i2c).dir = "R", i2c.i < Cur(i2c).len,
           i2c.i = Cur(i2c).len - 1 => i2c.phase = "last", i2c.rx # <<>>, NEW t,
           t = [i2c EXCEPT !.phase = "data", !.i = @ + 1, !.rx = Tail(@),
                           !.got = Append(@, Head(i2c.rx))]
    PROVE  I2cInv(t)
PROOF
  <1>1. /\ DOMAIN i2c = I2cFields /\ InCall(i2c) /\ i2c.flight \in Seq(Nat) /\ i2c.device \in Seq(Nat)
        /\ Shape(i2c) /\ Moving(i2c)
    BY DEF I2cInv, InCall
  <1>2. /\ DOMAIN t = I2cFields /\ Place(i2c, t) /\ t.result = i2c.result /\ t.flight = i2c.flight
        /\ t.device = i2c.device /\ t.bus = i2c.bus /\ t.start = i2c.start /\ t.stop = i2c.stop
        /\ t.sent = i2c.sent /\ t.from = i2c.from
    BY <1>1 DEF Place
  <1>3. /\ t.phase = "data" /\ t.i = i2c.i + 1 /\ t.got = Append(i2c.got, Head(i2c.rx))
        /\ t.rx = Tail(i2c.rx)
    BY <1>1 DEF I2cFields
  <1>4. PICK n, m, k, h : /\ n = i2c.i /\ m = Cur(i2c).len /\ k = i2c.sent /\ h = Here(i2c)
                          /\ n \in Nat /\ m \in Nat /\ n < m
    BY <1>1, SegmentOf
  <1>5. t.i \in Nat /\ t.i <= Cur(i2c).len /\ t.i = n + 1 /\ (t.i = Cur(i2c).len => i2c.phase = "last")
    BY <1>3, <1>4
  <1>6. /\ Shape(t) /\ Prior(t) = Prior(i2c) /\ Cur(t) = Cur(i2c) /\ Here(t) = h
        /\ GotBefore(t) = GotBefore(i2c)
    <2>1. /\ Prior(t) = Prior(i2c) /\ Cur(t) = Cur(i2c) /\ Here(t) = Here(i2c)
          /\ GotBefore(t) = GotBefore(i2c)
      BY <1>2, SamePlace
    <2>2. Shape(i2c) /\ t.i \in Nat /\ t.i <= Cur(i2c).len => Shape(t)
      BY <1>2, SamePlace
    <2> QED BY <1>1, <1>4, <1>5, <2>1, <2>2
  <1>7. /\ i2c.got = GotBefore(i2c) \o Read(h, n) /\ i2c.result # "Ok"
        /\ k \in Nat /\ n <= k /\ i2c.rx = Waiting(h, n, k - n)
    BY <1>1, <1>4 DEF InCall, Fetched, Moving
  <1>8. n < k /\ Head(i2c.rx) = <<h, n + 1>> /\ t.rx = Waiting(h, n + 1, k - (n + 1))
    <2>1. PICK w \in Nat : w = k - n
      BY <1>4, <1>7
    <2>2. i2c.rx = Waiting(h, n, w) /\ w # 0
      BY <1>4, <1>7, <2>1, WaitingIs
    <2>3. w > 0
      BY <2>2
    <2>4. Head(i2c.rx) = <<h, n + 1>> /\ Tail(i2c.rx) = Waiting(h, n + 1, w - 1)
      <3>1. /\ Head(Waiting(h, n, w)) = <<h, n + 1>>
            /\ Tail(Waiting(h, n, w)) = Waiting(h, n + 1, w - 1)
        BY <1>4, <2>1, <2>3, WaitingTaken
      <3> QED BY <2>2, <3>1
    <2>5. w - 1 = k - (n + 1) /\ n < k
      BY <1>4, <1>7, <2>1, <2>3
    <2> QED BY <1>3, <2>4, <2>5
  <1>9. t.got = GotBefore(i2c) \o Read(h, n + 1)
    <2>1. PICK B : B = Bytes(i2c)
      OBVIOUS
    <2>2. \A j \in Nat : <<h, j>> \in B
      BY <1>1, <1>4, <2>1, SegmentOf DEF Bytes, Here
    <2>3. GotBefore(i2c) \in Seq(B) /\ 1 \in {1, 2}
      BY <1>1, <2>1, SentBySeq
    <2>4. Read(h, n) \in Seq(B) /\ Append(Read(h, n), <<h, n + 1>>) = Read(h, n + 1)
      BY <1>4, <2>2, ReadIs
    <2>8. PICK j \in Nat : j = n + 1
      BY <1>4
    <2>9. <<h, j>> \in B
      BY <2>2, <2>8
    <2>5. PICK e \in B : e = <<h, n + 1>>
      BY <2>8, <2>9
    <2>6. PICK a \in Seq(B), b \in Seq(B) : a = GotBefore(i2c) /\ b = Read(h, n)
      BY <2>3, <2>4
    <2>7. a \o Append(b, e) = Append(a \o b, e)
      BY AppendMovesIn
    <2> QED BY <1>3, <1>7, <1>8, <2>4, <2>5, <2>6, <2>7
  <1>10. t.got = Fetched(t)
    BY <1>5, <1>6, <1>9 DEF Fetched
  <1>11. t.i <= t.sent /\ t.sent \in Nat /\ t.rx = Waiting(Here(t), t.i, t.sent - t.i)
    BY <1>2, <1>4, <1>5, <1>6, <1>7, <1>8
  <1>12. Cur(t).dir = "R" /\ t.call = i2c.call /\ Released(t) = Released(i2c)
    BY <1>2, <1>6 DEF Place, Released
  <1>13. Moving(t)
    BY <1>1, <1>2, <1>3, <1>4, <1>5, <1>6, <1>11, <1>12 DEF Moving
  <1>14. Opening(t)
    BY <1>3 DEF Opening
  <1> QED BY <1>1, <1>2, <1>3, <1>6, <1>7, <1>10, <1>13, <1>14 DEF I2cInv, InCall

\* What the device and the caller have when the data of a segment is over.
LEMMA SegmentSent ==
    ASSUME I2cInv(i2c), i2c.phase = "data", i2c.i = Cur(i2c).len,
           Cur(i2c).dir = "W" => i2c.bus \in {"W", "R"} /\ (i2c.bus = "W" => i2c.flight = <<>>)
    PROVE  /\ InCall(i2c) /\ Shape(i2c) /\ i2c.bus # "addr" /\ (i2c.bus = "W" => i2c.flight = <<>>)
           /\ i2c.bus \in {"W", "R"} => ~i2c.start
           /\ i2c.bus = "R" => i2c.flight = <<>>
           /\ Cur(i2c).dir = "W" => /\ i2c.device = Prior(i2c) \o Payload(Cur(i2c).len) /\ i2c.flight = <<>>
                                    /\ i2c.got = GotBefore(i2c) /\ ~i2c.start
           /\ Cur(i2c).dir = "R" => /\ i2c.device = Prior(i2c) /\ i2c.flight = <<>>
                                    /\ i2c.got = GotBefore(i2c) \o Read(Here(i2c), Cur(i2c).len)
                                    /\ Cur(i2c).len > 0 => ~i2c.start
                                    /\ Cur(i2c).len > 0 /\ i2c.call # "transaction" => Released(i2c)
PROOF
  <1>1. InCall(i2c) /\ Shape(i2c) /\ i2c.device \in Seq(Nat) /\ Moving(i2c) /\ i2c.got = Fetched(i2c)
    BY DEF I2cInv, InCall
  <1>2. /\ i2c.bus # "addr" /\ (i2c.bus \in {"W", "R"} => ~i2c.start)
        /\ (i2c.bus = "R" => i2c.flight = <<>>)
        /\ Cur(i2c).dir \in {"W", "R"} /\ Cur(i2c).len \in Nat
    BY <1>1, SegmentOf DEF Moving
  <1>3. CASE Cur(i2c).dir = "W"
    <2>1. i2c.flight = <<>> /\ i2c.device \o i2c.flight = Prior(i2c) \o Payload(i2c.i)
      BY <1>1, <1>2, <1>3 DEF Moving
    <2>2. i2c.device \o i2c.flight = i2c.device
      BY <1>1, <2>1
    <2>3. i2c.got = GotBefore(i2c) /\ ~i2c.start
      BY <1>1, <1>2, <1>3 DEF Fetched
    <2> QED BY <1>1, <1>2, <1>3, <2>1, <2>2, <2>3
  <1>4. CASE Cur(i2c).dir = "R"
    <2>1. /\ i2c.device = Prior(i2c) /\ i2c.flight = <<>> /\ i2c.bus # "W" /\ i2c.sent \in Nat /\ i2c.i <= i2c.sent
          /\ i2c.sent > 0 => ~i2c.start
          /\ i2c.i > 0 /\ i2c.call # "transaction" /\ i2c.sent > 0 => Released(i2c)
      BY <1>1, <1>4 DEF Moving
    <2>2. Cur(i2c).len > 0 => i2c.sent > 0
      BY <1>2, <2>1
    <2>3. i2c.got = GotBefore(i2c) \o Read(Here(i2c), Cur(i2c).len)
      BY <1>1, <1>4 DEF Fetched
    <2> QED BY <1>1, <1>2, <1>4, <2>1, <2>2, <2>3
  <1> QED BY <1>2, <1>3, <1>4

\* The first of two segments ends.
LEMMA NextKeeps ==
    ASSUME I2cInv(i2c), i2c.phase = "data", i2c.i = Cur(i2c).len, i2c.seg < Len(i2c.segs),
           Cur(i2c).dir = "W" => i2c.bus \in {"W", "R"} /\ (i2c.bus = "W" => i2c.flight = <<>>), NEW t,
           DOMAIN t = I2cFields, t.segs = i2c.segs, t.call = i2c.call, t.no = i2c.no,
           t.seg = i2c.seg + 1, t.i = 0,
           t.phase = IF i2c.segs[i2c.seg + 1].dir = "R" THEN "start" ELSE "data",
           t.got = i2c.got, t.result = i2c.result, t.flight = i2c.flight, t.device = i2c.device,
           t.bus = i2c.bus, t.start = i2c.start
    PROVE  I2cInv(t)
PROOF
  <1>1. /\ InCall(i2c) /\ Shape(i2c) /\ i2c.bus # "addr" /\ (i2c.bus = "W" => i2c.flight = <<>>)
        /\ i2c.bus \in {"W", "R"} => ~i2c.start
        /\ i2c.bus = "R" => i2c.flight = <<>>
        /\ Cur(i2c).dir = "W" => /\ i2c.device = Prior(i2c) \o Payload(Cur(i2c).len) /\ i2c.flight = <<>>
                                 /\ i2c.got = GotBefore(i2c)
        /\ Cur(i2c).dir = "R" => /\ i2c.device = Prior(i2c) /\ i2c.flight = <<>>
                                 /\ i2c.got = GotBefore(i2c) \o Read(Here(i2c), Cur(i2c).len)
    BY SegmentSent
  <1>2. i2c.seg = 1 /\ Len(i2c.segs) = 2 /\ t.seg = 2 /\ i2c.seg + 1 = 2
    <2>1. PICK n, k : n = Len(i2c.segs) /\ k = i2c.seg
      OBVIOUS
    <2>2. n \in {1, 2} /\ k \in {1, 2} /\ k < n
      BY <1>1, <2>1, SegmentOf DEF Shape
    <2>3. n = 2 /\ k = 1 /\ k + 1 = 2
      BY <2>2
    <2> QED BY <2>1, <2>3
  <1>3. i2c.segs \in Seq(Segment) /\ DOMAIN i2c.segs = 1 .. 2 /\ \A k \in DOMAIN i2c.segs : i2c.segs[k] \in Segment
    BY <1>1, <1>2, SegmentOf
  <1>4. PICK one, two : one = i2c.segs[1] /\ two = i2c.segs[2]
    OBVIOUS
  <1>5. one \in Segment /\ two \in Segment /\ Cur(i2c) = one /\ Cur(t) = two
    BY <1>2, <1>3, <1>4 DEF Cur
  <1>6. one.dir \in {"W", "R"} /\ two.dir \in {"W", "R"} /\ one.len \in Nat /\ two.len \in Nat
    BY <1>5 DEF Segment
  <1>7. Shape(t)
    <2>1. 2 \in 1 .. 2 /\ 0 <= two.len
      BY <1>6
    <2> QED BY <1>1, <1>2, <1>5, <2>1 DEF Shape
  <1>8. /\ Prior(t) = (IF one.dir = "W" THEN Payload(one.len) ELSE <<>>) /\ Prior(i2c) = <<>>
        /\ GotBefore(t) = (IF one.dir = "R" THEN Read(<<i2c.no, 1>>, one.len) ELSE <<>>)
        /\ GotBefore(i2c) = <<>> /\ Here(i2c) = <<i2c.no, 1>>
    BY <1>2, <1>3, <1>4 DEF Prior, SentBy, GotBefore, GotBy, Here
  <1>9. t.device = Prior(t) /\ t.got = GotBefore(t)
    <2>1. CASE one.dir = "W"
      <3>1. i2c.device = <<>> \o Payload(one.len) /\ Payload(one.len) \in Seq(Nat)
        BY <1>1, <1>5, <1>6, <1>8, <2>1, PayloadIs
      <3>2. i2c.device = Payload(one.len)
        BY <3>1
      <3> QED BY <1>1, <1>5, <1>8, <2>1, <3>2
    <2>2. CASE one.dir = "R"
      <3>1. PICK g : g = Read(<<i2c.no, 1>>, one.len) /\ g \in Seq(Bytes(i2c))
        BY <1>1, <1>6, SentBySeq
      <3>2. <<>> \o g = g
        BY <3>1
      <3>3. i2c.got = <<>> \o g
        BY <1>1, <1>5, <1>8, <2>2, <3>1
      <3> QED BY <1>1, <1>5, <1>8, <2>2, <3>1, <3>2, <3>3
    <2> QED BY <1>6, <2>1, <2>2
  <1>10. t.got = Fetched(t)
    <2>1. PICK g : g = GotBefore(t) /\ g \in Seq(Bytes(t))
      BY <1>7, SentBySeq
    <2>2. Read(Here(t), 0) = <<>> /\ g \o <<>> = g
      BY <2>1 DEF Read
    <2> QED BY <1>9, <2>1, <2>2 DEF Fetched
  <1>11. t.phase = (IF two.dir = "R" THEN "start" ELSE "data")
    BY <1>2, <1>4
  <1>12. Opening(t)
    BY <1>1, <1>9, <1>11 DEF Opening
  <1>13. two.dir = "W" => t.device \o t.flight = Prior(t) \o Payload(t.i)
    <2>1. Payload(t.i) = <<>> /\ t.device = Prior(t)
      BY <1>9, PayloadIs
    <2>2. t.flight = <<>>
      BY <1>1, <1>5, <1>6
    <2> QED BY <2>1, <2>2
  <1>14. Moving(t)
    BY <1>1, <1>5, <1>11, <1>13 DEF Moving
  <1>15. i2c.result # "Ok" /\ i2c.device \in Seq(Nat) /\ i2c.flight \in Seq(Nat)
    BY DEF I2cInv, InCall
  <1> QED BY <1>7, <1>10, <1>11, <1>12, <1>14, <1>15 DEF I2cInv, InCall

\* The last segment ends the call.
LEMMA EndKeeps ==
    ASSUME I2cInv(i2c), i2c.phase = "data", i2c.i = Cur(i2c).len, ~(i2c.seg < Len(i2c.segs)),
           Cur(i2c).dir = "W" => i2c.bus \in {"W", "R"} /\ (i2c.bus = "W" => i2c.flight = <<>>), NEW t,
           DOMAIN t = I2cFields, Place(i2c, t), t.phase = "none",
           t.got = i2c.got, t.flight = i2c.flight, t.device = i2c.device, t.bus = i2c.bus,
           t.start = i2c.start, i2c.call \notin {"read", "write_read"} => t.stop, i2c.stop => t.stop
    PROVE  I2cInv(t)
PROOF
  <1>1. /\ InCall(i2c) /\ Shape(i2c) /\ i2c.bus # "addr" /\ (i2c.bus = "W" => i2c.flight = <<>>)
        /\ Cur(i2c).dir = "W" => /\ i2c.device = Prior(i2c) \o Payload(Cur(i2c).len)
                                 /\ i2c.got = GotBefore(i2c) /\ ~i2c.start
        /\ Cur(i2c).dir = "R" => /\ i2c.device = Prior(i2c)
                                 /\ i2c.got = GotBefore(i2c) \o Read(Here(i2c), Cur(i2c).len)
                                 /\ Cur(i2c).len > 0 => ~i2c.start
                                 /\ Cur(i2c).len > 0 /\ i2c.call # "transaction" => Released(i2c)
    BY SegmentSent
  <1>2. i2c.seg = Len(i2c.segs) /\ i2c.seg \in {1, 2}
    <2>1. PICK n, k : n = Len(i2c.segs) /\ k = i2c.seg
      OBVIOUS
    <2>2. n \in {1, 2} /\ k \in {1, 2} /\ k \in 1 .. n /\ ~(k < n)
      BY <1>1, <2>1, SegmentOf DEF Shape
    <2>3. n = k
      BY <2>2
    <2> QED BY <2>1, <2>2, <2>3
  <1>3. /\ DOMAIN i2c.segs = 1 .. Len(i2c.segs) /\ Cur(i2c) \in Segment
        /\ Cur(i2c).dir \in {"W", "R"} /\ Cur(i2c).len \in Nat /\ Cur(i2c) = i2c.segs[Len(i2c.segs)]
    BY <1>1, <1>2, SegmentOf DEF Cur
  <1>4. ~EndsEmpty(i2c) => ~t.start /\ Released(t)
    <2>1. CASE Cur(i2c).dir = "W"
      <3>1. i2c.call \notin {"read", "write_read"}
        BY <1>1, <1>3, <2>1 DEF Shape
      <3> QED BY <1>1, <2>1, <3>1 DEF Released
    <2>2. CASE Cur(i2c).dir = "R" /\ Cur(i2c).len = 0
      <3>1. Cur(i2c) = R(0)
        BY <1>3, <2>2 DEF Segment, R
      <3> QED BY <1>3, <3>1 DEF EndsEmpty
    <2>3. CASE Cur(i2c).dir = "R" /\ Cur(i2c).len > 0
      BY <1>1, <2>3 DEF Released
    <2> QED BY <1>3, <2>1, <2>2, <2>3
  <1>5. /\ SentBy(t, 1) = SentBy(i2c, 1) /\ SentBy(t, 2) = SentBy(i2c, 2)
        /\ GotBy(t, 1) = GotBy(i2c, 1) /\ GotBy(t, 2) = GotBy(i2c, 2) /\ EndsEmpty(t) = EndsEmpty(i2c)
    BY SamePlace
  <1>6. PICK p, q : /\ p = (IF Cur(i2c).dir = "W" THEN Payload(Cur(i2c).len) ELSE <<>>)
                    /\ q = (IF Cur(i2c).dir = "R" THEN Read(Here(i2c), Cur(i2c).len) ELSE <<>>)
    OBVIOUS
  <1>7. p \in Seq(Nat) /\ q \in Seq(Bytes(i2c)) /\ Prior(i2c) \in Seq(Nat) /\ GotBefore(i2c) \in Seq(Bytes(i2c))
    <2>1. Payload(Cur(i2c).len) \in Seq(Nat) /\ <<>> \in Seq(Nat) /\ <<>> \in Seq(Bytes(i2c))
      BY <1>3, PayloadIs, EmptySeq
    <2>2. /\ Read(Here(i2c), Cur(i2c).len) \in Seq(Bytes(i2c))
          /\ Prior(i2c) \in Seq(Nat) /\ GotBefore(i2c) \in Seq(Bytes(i2c))
      BY <1>1, <1>3, SentBySeq
    <2> QED BY <1>6, <2>1, <2>2
  <1>8. i2c.device = Prior(i2c) \o p /\ i2c.got = GotBefore(i2c) \o q
    <2>1. Prior(i2c) \o <<>> = Prior(i2c) /\ GotBefore(i2c) \o <<>> = GotBefore(i2c)
      BY <1>7
    <2>2. CASE Cur(i2c).dir = "W"
      BY <1>1, <1>6, <2>1, <2>2
    <2>3. CASE Cur(i2c).dir = "R"
      BY <1>1, <1>6, <2>1, <2>3
    <2> QED BY <1>3, <2>2, <2>3
  <1>9. i2c.device = SentBy(i2c, 1) \o SentBy(i2c, 2) /\ i2c.got = GotBy(i2c, 1) \o GotBy(i2c, 2)
    <2>1. CASE i2c.seg = 1
      <3>1. DOMAIN i2c.segs = 1 .. 1 /\ Cur(i2c) = i2c.segs[1] /\ Here(i2c) = <<i2c.no, 1>>
        BY <1>2, <1>3, <2>1 DEF Cur, Here
      <3>2. 1 \in 1 .. 1 /\ 2 \notin 1 .. 1
        OBVIOUS
      <3>3. /\ SentBy(i2c, 2) = <<>> /\ Prior(i2c) = <<>> /\ SentBy(i2c, 1) = p
            /\ GotBy(i2c, 2) = <<>> /\ GotBefore(i2c) = <<>> /\ GotBy(i2c, 1) = q
        BY <1>6, <2>1, <3>1, <3>2 DEF SentBy, GotBy, Prior, GotBefore
      <3>4. <<>> \o p = p \o <<>> /\ <<>> \o q = q \o <<>>
        BY <1>7
      <3> QED BY <1>8, <3>3, <3>4
    <2>2. CASE i2c.seg = 2
      <3>1. DOMAIN i2c.segs = 1 .. 2 /\ Cur(i2c) = i2c.segs[2] /\ Here(i2c) = <<i2c.no, 2>>
        BY <1>2, <1>3, <2>2 DEF Cur, Here
      <3>2. 1 \in 1 .. 2 /\ 2 \in 1 .. 2
        OBVIOUS
      <3>3. Prior(i2c) = SentBy(i2c, 1) /\ SentBy(i2c, 2) = p /\ GotBefore(i2c) = GotBy(i2c, 1) /\ GotBy(i2c, 2) = q
        BY <1>6, <2>2, <3>1, <3>2 DEF SentBy, GotBy, Prior, GotBefore
      <3> QED BY <1>8, <3>3
    <2> QED BY <1>2, <2>1, <2>2
  <1>10. t.device = SentBy(t, 1) \o SentBy(t, 2) /\ t.got = GotBy(t, 1) \o GotBy(t, 2)
    BY <1>5, <1>9
  <1>11. Served(t)
    BY <1>1, <1>4, <1>5, <1>10 DEF Served
  <1>12. t.device \in Seq(Nat) /\ t.flight \in Seq(Nat)
    BY DEF I2cInv
  <1> QED BY <1>11, <1>12 DEF I2cInv

\* The peripheral and the device take their steps.
LEMMA BusStartKeeps ==
    ASSUME I2cInv(i2c), i2c.start, i2c.bus # "addr", NEW t,
           t = [i2c EXCEPT !.start = FALSE, !.bus = "started"]
    PROVE  I2cInv(t)
PROOF
  <1>1. DOMAIN i2c = I2cFields /\ i2c.flight \in Seq(Nat) /\ i2c.device \in Seq(Nat)
    BY DEF I2cInv
  <1>2. /\ DOMAIN t = I2cFields /\ Still(i2c, t) /\ t.phase = i2c.phase /\ t.flight = i2c.flight
        /\ t.device = i2c.device /\ t.rx = i2c.rx /\ t.sent = i2c.sent /\ t.from = i2c.from
        /\ t.stop = i2c.stop
    BY <1>1 DEF Still, Place
  <1>3. t.bus = "started" /\ ~t.start
    BY <1>1 DEF I2cFields
  <1>4. ASSUME i2c.phase # "none" PROVE Opening(t) /\ Moving(t)
    <2>1. InCall(i2c) /\ Opening(i2c) /\ Moving(i2c)
      BY <1>4 DEF I2cInv, InCall
    <2>2. /\ Prior(t) = Prior(i2c) /\ Cur(t) = Cur(i2c) /\ Here(t) = Here(i2c) /\ t.i = i2c.i
          /\ t.seg = i2c.seg /\ t.call = i2c.call
      BY <1>2, <2>1, StaysPlaced DEF Still, Place
    <2>3. Opening(t)
      BY <1>2, <1>3, <2>1, <2>2 DEF Opening
    <2>4. Moving(t)
      <3>1. i2c.phase \in {"data", "last"} => i2c.bus \notin {"W", "R"} /\ (Cur(i2c).dir = "R" => ~(i2c.sent > 0))
        BY <2>1 DEF Moving
      <3>2. i2c.phase = "last" => Cur(i2c).dir = "R"
        BY <2>1, SegmentOf DEF Moving, InCall
      <3> QED BY <1>2, <1>3, <2>1, <2>2, <3>1, <3>2 DEF Moving
    <2> QED BY <2>3, <2>4
  <1>5. i2c.result = "Ok" => EndsEmpty(i2c)
    BY DEF I2cInv, Served
  <1> QED BY <1>1, <1>2, <1>3, <1>4, <1>5, BusKeeps

LEMMA BusAddrKeeps ==
    ASSUME I2cInv(i2c), i2c.bus = "addr", NEW t,
           t = [i2c EXCEPT !.bus = "answered", !.from = <<i2c.no, i2c.seg>>, !.sent = 0,
                           !.device = IF i2c.seg = 1 THEN <<>> ELSE @]
    PROVE  I2cInv(t)
PROOF
  <1>1. DOMAIN i2c = I2cFields /\ i2c.flight \in Seq(Nat) /\ i2c.device \in Seq(Nat)
    BY DEF I2cInv
  <1>2. /\ DOMAIN t = I2cFields /\ Still(i2c, t) /\ t.phase = i2c.phase /\ t.flight = i2c.flight
        /\ t.rx = i2c.rx
    BY <1>1 DEF Still, Place
  <1>3. /\ t.bus = "answered" /\ t.from = <<i2c.no, i2c.seg>> /\ t.sent = 0
        /\ t.device = (IF i2c.seg = 1 THEN <<>> ELSE i2c.device)
    BY <1>1 DEF I2cFields
  <1>4. t.flight \in Seq(Nat) /\ t.device \in Seq(Nat)
    BY <1>1, <1>2, <1>3
  <1>5. i2c.result # "Ok"
    BY DEF I2cInv, Served
  <1>6. ASSUME i2c.phase # "none" PROVE Opening(t) /\ Moving(t)
    <2>1. InCall(i2c) /\ Opening(i2c) /\ Moving(i2c) /\ i2c.seg \in {1, 2}
      BY <1>6, SegmentOf DEF I2cInv, InCall
    <2>2. i2c.phase \in {"start", "started", "addressed"} /\ (i2c.phase # "addressed" => i2c.seg = 1)
      BY <1>6, <2>1 DEF I2cInv, Opening, Moving
    <2>7. Prior(t) = Prior(i2c) /\ Here(t) = Here(i2c) /\ t.i = i2c.i /\ t.seg = i2c.seg
      BY <1>2, <2>1, StaysPlaced DEF Still, Place
    <2>3. Prior(t) = Prior(i2c) /\ Here(t) = <<i2c.no, i2c.seg>> /\ t.i = i2c.i /\ t.seg = i2c.seg
      BY <2>7 DEF Here
    <2>4. i2c.seg = 1 => Prior(i2c) = <<>>
      BY DEF Prior
    <2>5. Opening(t)
      BY <1>2, <1>3, <2>1, <2>2, <2>3, <2>4 DEF Opening
    <2>6. Moving(t)
      BY <1>2, <2>2 DEF Moving
    <2> QED BY <2>5, <2>6
  <1> QED BY <1>2, <1>4, <1>5, <1>6, BusKeeps

LEMMA BusTakeKeeps ==
    ASSUME I2cInv(i2c), i2c.bus = "W", i2c.flight # <<>>, NEW t,
           t = [i2c EXCEPT !.flight = Tail(@), !.device = Append(@, Head(i2c.flight))]
    PROVE  I2cInv(t)
PROOF
  <1>1. DOMAIN i2c = I2cFields /\ i2c.flight \in Seq(Nat) /\ i2c.device \in Seq(Nat)
    BY DEF I2cInv
  <1>2. /\ DOMAIN t = I2cFields /\ Still(i2c, t) /\ t.phase = i2c.phase /\ t.bus = "W"
        /\ t.start = i2c.start
    BY <1>1 DEF Still, Place
  <1>3. t.flight = Tail(i2c.flight) /\ t.device = Append(i2c.device, Head(i2c.flight))
    BY <1>1 DEF I2cFields
  <1>4. t.flight \in Seq(Nat) /\ t.device \in Seq(Nat) /\ t.device \o t.flight = i2c.device \o i2c.flight
    <2>1. PICK f, d : f = i2c.flight /\ d = i2c.device
      OBVIOUS
    <2>2. f \in Seq(Nat) /\ d \in Seq(Nat) /\ f # <<>>
      BY <1>1, <2>1
    <2>3. Head(f) \in Nat /\ Tail(f) \in Seq(Nat)
      BY <2>2, HeadTailProperties
    <2>4. Append(d, Head(f)) \in Seq(Nat) /\ Append(d, Head(f)) \o Tail(f) = d \o f
      BY <2>2, <2>3, HeadMoves, AppendProperties
    <2> QED BY <1>3, <2>1, <2>3, <2>4
  <1>5. i2c.result # "Ok"
    BY DEF I2cInv, Served
  <1>6. ASSUME i2c.phase # "none" PROVE Opening(t) /\ Moving(t)
    <2>1. InCall(i2c) /\ Opening(i2c) /\ Moving(i2c) /\ i2c.seg \in {1, 2} /\ Cur(i2c).dir \in {"W", "R"}
      BY <1>6, SegmentOf DEF I2cInv, InCall
    <2>2. /\ Prior(t) = Prior(i2c) /\ Cur(t) = Cur(i2c) /\ t.i = i2c.i /\ t.seg = i2c.seg
      BY <1>2, <2>1, StaysPlaced DEF Still, Place
    <2>3. /\ i2c.phase \in {"start", "started", "addr", "addressed"} =>
                 i2c.phase \in {"start", "started"} /\ i2c.seg = 1 /\ i2c.i = 0
          /\ i2c.phase \in {"data", "last"} => Cur(i2c).dir = "W" /\ i2c.phase = "data"
      BY <2>1 DEF Opening, Moving
    <2>4. Opening(t)
      BY <1>2, <2>2, <2>3 DEF Opening
    <2>5. Moving(t)
      BY <1>2, <1>4, <2>1, <2>2, <2>3 DEF Moving
    <2> QED BY <2>4, <2>5
  <1> QED BY <1>2, <1>4, <1>5, <1>6, BusKeeps

\* A byte arrives behind the ones that wait.
LEMMA BusArrivesKeeps ==
    ASSUME I2cInv(i2c), i2c.bus = "R", NEW t,
           t = [i2c EXCEPT !.rx = Append(@, <<i2c.from, i2c.sent + 1>>), !.sent = @ + 1,
                           !.acked = i2c.ack, !.bus = IF i2c.stop THEN "idle" ELSE @, !.stop = FALSE]
    PROVE  I2cInv(t)
PROOF
  <1>1. DOMAIN i2c = I2cFields /\ i2c.flight \in Seq(Nat) /\ i2c.device \in Seq(Nat)
    BY DEF I2cInv
  <1>2. /\ DOMAIN t = I2cFields /\ Still(i2c, t) /\ t.phase = i2c.phase /\ t.flight = i2c.flight
        /\ t.device = i2c.device /\ t.start = i2c.start /\ t.from = i2c.from
    BY <1>1 DEF Still, Place
  <1>3. /\ t.rx = Append(i2c.rx, <<i2c.from, i2c.sent + 1>>) /\ t.sent = i2c.sent + 1
        /\ t.bus = (IF i2c.stop THEN "idle" ELSE "R") /\ ~t.stop
    BY <1>1 DEF I2cFields
  <1>4. t.bus \in {"idle", "R"} /\ (Released(i2c) => Released(t))
    BY <1>3 DEF Released
  <1>5. ASSUME i2c.phase # "none" PROVE Opening(t) /\ Moving(t)
    <2>1. InCall(i2c) /\ Opening(i2c) /\ Moving(i2c) /\ i2c.i \in Nat /\ Cur(i2c).dir \in {"W", "R"}
      BY <1>5, SegmentOf DEF I2cInv, InCall
    <2>2. /\ Prior(t) = Prior(i2c) /\ Cur(t) = Cur(i2c) /\ Here(t) = Here(i2c) /\ t.i = i2c.i
          /\ t.seg = i2c.seg /\ t.call = i2c.call
      BY <1>2, <2>1, StaysPlaced DEF Still, Place
    <2>3. Opening(t)
      BY <1>2, <1>4, <2>1, <2>2 DEF Opening
    <2>4. ASSUME i2c.phase \in {"data", "last"}, Cur(i2c).dir = "R"
          PROVE  /\ t.sent \in Nat /\ t.i <= t.sent /\ t.rx = Waiting(Here(t), t.i, t.sent - t.i)
      <3>1. /\ i2c.sent \in Nat /\ i2c.i <= i2c.sent /\ i2c.from = Here(i2c)
            /\ i2c.rx = Waiting(Here(i2c), i2c.i, i2c.sent - i2c.i)
        BY <2>1, <2>4 DEF Moving
      <3>2. PICK n, k, h : n = i2c.i /\ k = i2c.sent /\ h = Here(i2c)
        OBVIOUS
      <3>3. PICK w \in Nat : w = k - n
        BY <2>1, <3>1, <3>2
      <3>4. n \in Nat /\ k \in Nat /\ n + w + 1 = k + 1 /\ w + 1 = (k + 1) - n /\ n <= k + 1
        BY <2>1, <3>1, <3>2, <3>3
      <3>5. Append(Waiting(h, n, w), <<h, n + w + 1>>) = Waiting(h, n, w + 1)
        BY <3>3, <3>4, WaitingIs
      <3>6. t.rx = Append(Waiting(h, n, w), <<h, k + 1>>) /\ t.sent = k + 1 /\ t.i = n /\ Here(t) = h
        BY <1>3, <2>2, <3>1, <3>2, <3>3
      <3>7. <<h, n + w + 1>> = <<h, k + 1>> /\ Waiting(h, n, w + 1) = Waiting(h, n, (k + 1) - n)
        BY <3>4
      <3>8. t.rx = Waiting(h, n, (k + 1) - n)
        BY <3>5, <3>6, <3>7
      <3>9. t.rx = Waiting(Here(t), t.i, t.sent - t.i)
        BY <3>6, <3>8
      <3> QED BY <3>4, <3>6, <3>9
    <2>5. Moving(t)
      <3>1. i2c.phase \in {"data", "last"} => ~i2c.start /\ i2c.flight = <<>>
        BY <2>1 DEF Moving
      <3>2. (i2c.phase = "last" \/ (i2c.phase = "data" /\ Cur(i2c).dir = "R" /\ i2c.i = Cur(i2c).len /\ i2c.i > 0))
                 /\ i2c.call # "transaction" => Released(t)
        BY <1>4, <2>1 DEF Moving
      <3>3. i2c.phase = "last" => i2c.i < Cur(i2c).len
        BY <2>1 DEF Moving
      <3>4. i2c.phase \in {"data", "last"} /\ Cur(i2c).dir = "R" => i2c.device = Prior(i2c) /\ i2c.from = Here(i2c)
        BY <2>1 DEF Moving
      <3>5. i2c.phase \in {"data", "last"} /\ Cur(i2c).dir = "W" =>
                i2c.phase = "data" /\ i2c.device \o i2c.flight = Prior(i2c) \o Payload(i2c.i)
        BY <2>1 DEF Moving
      <3> QED BY <1>2, <1>4, <2>2, <2>4, <3>1, <3>2, <3>3, <3>4, <3>5 DEF Moving
    <2> QED BY <2>3, <2>5
  <1>6. i2c.result = "Ok" /\ ~EndsEmpty(i2c) => ~t.start /\ Released(t)
    BY <1>2, <1>4 DEF I2cInv, Served
  <1> QED BY <1>1, <1>2, <1>4, <1>5, <1>6, BusKeeps

\* STOP is generated, or the bus is lost.
LEMMA BusEndsKeeps ==
    ASSUME I2cInv(i2c), NEW t, DOMAIN t = I2cFields, Still(i2c, t), t.phase = i2c.phase,
           t.flight = i2c.flight, t.device = i2c.device, t.start = i2c.start, t.from = i2c.from,
           t.rx = i2c.rx, t.sent = i2c.sent, t.bus \in {"idle", "dead"}, Released(i2c) => Released(t)
    PROVE  I2cInv(t)
PROOF
  <1>1. i2c.flight \in Seq(Nat) /\ i2c.device \in Seq(Nat)
    BY DEF I2cInv
  <1>2. ASSUME i2c.phase # "none" PROVE Opening(t) /\ Moving(t)
    <2>1. InCall(i2c) /\ Opening(i2c) /\ Moving(i2c)
      BY <1>2 DEF I2cInv, InCall
    <2>2. /\ Prior(t) = Prior(i2c) /\ Cur(t) = Cur(i2c) /\ Here(t) = Here(i2c) /\ t.i = i2c.i
          /\ t.seg = i2c.seg /\ t.call = i2c.call
      BY <2>1, StaysPlaced DEF Still, Place
    <2>3. Opening(t)
      BY <2>1, <2>2 DEF Opening
    <2>4. Moving(t)
      BY <2>1, <2>2 DEF Moving
    <2> QED BY <2>3, <2>4
  <1>3. i2c.result = "Ok" /\ ~EndsEmpty(i2c) => ~t.start /\ Released(t)
    BY DEF I2cInv, Served
  <1> QED BY <1>1, <1>2, <1>3, BusKeeps

\* Every step of the master, its bus and its device.
LEMMA I2cStepKeeps ==
    ASSUME I2cInv(i2c), I2cStep, NEW t, t = i2c'
    PROVE  I2cInv(t)
PROOF
  <1>1. DOMAIN i2c = I2cFields /\ Seg = Cur(i2c)
    BY DEF I2cInv, Seg, Cur
  <1>2. CASE i2c_start
    <2>1. \/ i2c.phase = "start" /\ t = [i2c EXCEPT !.phase = "started", !.start = TRUE]
          \/ i2c.phase = "started" /\ i2c.bus = "started" /\ t = [i2c EXCEPT !.phase = "addr"]
          \/ t = [i2c EXCEPT !.phase = "none", !.result = check_errors]
      BY <1>2 DEF i2c_start, I2cWait
    <2> QED BY <2>1, StartKeeps, StartedKeeps, ErrorKeeps
  <1>3. CASE send_addr
    <2>1. \/ /\ i2c.phase = "addr"
             /\ t = [i2c EXCEPT !.phase = "addressed", !.flight = <<>>, !.rx = <<>>,
                                !.bus = IF @ = "started" THEN "addr" ELSE @]
          \/ /\ i2c.phase = "addressed" /\ i2c.bus = "answered"
             /\ t = [i2c EXCEPT !.phase = "data", !.bus = IF i2c.start THEN @ ELSE Cur(i2c).dir]
          \/ t = [i2c EXCEPT !.phase = "none", !.result = check_errors]
      BY <1>1, <1>3 DEF send_addr, I2cWait
    <2> QED BY <2>1, AddrKeeps, AddressedKeeps, ErrorKeeps
  <1>4. CASE I2cPut
    <2>1. /\ i2c.phase = "data" /\ Cur(i2c).dir = "W" /\ i2c.i < Cur(i2c).len
          /\ \/ i2c.bus = "W" /\ t = [i2c EXCEPT !.i = @ + 1, !.flight = Append(@, i2c.i + 1)]
             \/ t = [i2c EXCEPT !.phase = "none", !.result = check_errors]
      BY <1>1, <1>4 DEF I2cPut, I2cWait
    <2> QED BY <2>1, PutKeeps, ErrorKeeps
  <1>5. CASE I2cGet
    <2>1. i2c.phase \in {"data", "last"} /\ Cur(i2c).dir = "R" /\ i2c.i < Cur(i2c).len
      BY <1>1, <1>5 DEF I2cGet
    <2>2. \/ /\ i2c.phase = "data"
             /\ LET quiet == [i2c EXCEPT !.phase = "last", !.ack = FALSE]
                IN  t = IF i2c.call = "transaction" THEN quiet ELSE i2c_stop(quiet)
          \/ /\ i2c.i = Cur(i2c).len - 1 => i2c.phase = "last"
             /\ i2c.rx # <<>>
             /\ t = [i2c EXCEPT !.phase = "data", !.i = @ + 1, !.rx = Tail(@),
                                !.got = Append(@, Head(i2c.rx))]
          \/ t = [i2c EXCEPT !.phase = "none", !.result = check_errors]
      BY <1>1, <1>5 DEF I2cGet, I2cWait
    <2>3. CASE /\ i2c.phase = "data"
               /\ LET quiet == [i2c EXCEPT !.phase = "last", !.ack = FALSE]
                  IN  t = IF i2c.call = "transaction" THEN quiet ELSE i2c_stop(quiet)
      <3>1. \/ i2c.call = "transaction" /\ t = [i2c EXCEPT !.phase = "last", !.ack = FALSE]
            \/ t = [i2c EXCEPT !.phase = "last", !.ack = FALSE, !.stop = TRUE]
        BY <2>3 DEF i2c_stop
      <3> QED BY <2>1, <2>3, <3>1, LastKeeps
    <2> QED BY <2>1, <2>2, <2>3, GetKeeps, ErrorKeeps
  <1>6. CASE I2cEndSegment
    <2>1. i2c.phase = "data" /\ i2c.i = Cur(i2c).len
      BY <1>1, <1>6 DEF I2cEndSegment
    <2>2. Cur(i2c).dir \in {"W", "R"}
      BY <2>1, SegmentOf DEF I2cInv, InCall
    <2>3. ASSUME NEW g, EndOfData(g)
          PROVE  \/ t = [i2c EXCEPT !.phase = "none", !.result = check_errors]
                 \/ /\ Cur(i2c).dir = "W" => i2c.bus \in {"W", "R"} /\ (i2c.bus = "W" => i2c.flight = <<>>)
                    /\ t = g \/ t = [g EXCEPT !.ack = TRUE]
      BY <1>1, <2>2, <2>3 DEF EndOfData, I2cWait, BTF
    <2>4. CASE i2c.seg < Len(i2c.segs)
      <3>1. PICK g : g = [i2c EXCEPT !.seg = @ + 1, !.i = 0,
                                     !.phase = IF i2c.segs[i2c.seg + 1].dir = "R" THEN "start" ELSE "data"]
        OBVIOUS
      <3>2. EndOfData(g)
        BY <1>6, <2>4, <3>1 DEF I2cEndSegment
      <3>3. /\ DOMAIN g = I2cFields /\ g.segs = i2c.segs /\ g.call = i2c.call /\ g.no = i2c.no
            /\ g.got = i2c.got /\ g.result = i2c.result /\ g.flight = i2c.flight /\ g.device = i2c.device
            /\ g.bus = i2c.bus /\ g.start = i2c.start
        BY <1>1, <3>1
      <3>4. /\ g.seg = i2c.seg + 1 /\ g.i = 0
            /\ g.phase = IF i2c.segs[i2c.seg + 1].dir = "R" THEN "start" ELSE "data"
        BY <1>1, <3>1 DEF I2cFields
      <3>5. ASSUME t = g \/ t = [g EXCEPT !.ack = TRUE]
            PROVE  /\ DOMAIN t = DOMAIN g /\ t.segs = g.segs /\ t.call = g.call /\ t.no = g.no
                   /\ t.got = g.got /\ t.result = g.result /\ t.flight = g.flight /\ t.device = g.device
                   /\ t.bus = g.bus /\ t.start = g.start /\ t.seg = g.seg /\ t.i = g.i /\ t.phase = g.phase
        <4>1. CASE t = g
          BY <4>1
        <4>2. CASE t = [g EXCEPT !.ack = TRUE]
          BY <4>2
        <4> QED BY <3>5, <4>1, <4>2
      <3>6. ASSUME t = g \/ t = [g EXCEPT !.ack = TRUE],
                   Cur(i2c).dir = "W" => i2c.bus \in {"W", "R"} /\ (i2c.bus = "W" => i2c.flight = <<>>)
            PROVE  I2cInv(t)
        BY <2>1, <2>4, <3>3, <3>4, <3>5, <3>6, NextKeeps
      <3> QED BY <2>3, <3>2, <3>6, ErrorKeeps
    <2>5. CASE ~(i2c.seg < Len(i2c.segs))
      <3>1. PICK e : e = [i2c EXCEPT !.phase = "none", !.result = "Ok"]
        OBVIOUS
      <3>2. PICK g : g = IF i2c.call \in {"read", "write_read"} THEN e ELSE [e EXCEPT !.stop = TRUE]
        OBVIOUS
      <3>3. EndOfData(g)
        BY <1>6, <2>5, <3>1, <3>2 DEF I2cEndSegment, i2c_stop
      <3>4. /\ DOMAIN e = I2cFields /\ Place(i2c, e) /\ e.got = i2c.got /\ e.stop = i2c.stop
            /\ e.flight = i2c.flight /\ e.device = i2c.device /\ e.bus = i2c.bus /\ e.start = i2c.start
        BY <1>1, <3>1 DEF Place
      <3>5. e.phase = "none"
        BY <1>1, <3>1 DEF I2cFields
      <3>6. /\ DOMAIN g = I2cFields /\ Place(i2c, g) /\ g.got = i2c.got /\ g.phase = "none"
            /\ g.flight = i2c.flight /\ g.device = i2c.device /\ g.bus = i2c.bus /\ g.start = i2c.start
            /\ i2c.call \notin {"read", "write_read"} => g.stop
            /\ i2c.stop => g.stop
        <4>1. CASE i2c.call \in {"read", "write_read"}
          BY <3>2, <3>4, <3>5, <4>1
        <4>2. CASE i2c.call \notin {"read", "write_read"}
          <5>1. g = [e EXCEPT !.stop = TRUE]
            BY <3>2, <4>2
          <5>2. g.stop
            BY <3>4, <5>1 DEF I2cFields
          <5> QED BY <3>4, <3>5, <5>1, <5>2 DEF Place
        <4> QED BY <4>1, <4>2
      <3>7. ASSUME t = g \/ t = [g EXCEPT !.ack = TRUE]
            PROVE  /\ DOMAIN t = DOMAIN g /\ Place(g, t) /\ t.got = g.got /\ t.phase = g.phase
                   /\ t.flight = g.flight /\ t.device = g.device /\ t.bus = g.bus /\ t.start = g.start
                   /\ t.stop = g.stop
        <4>1. CASE t = g
          BY <4>1 DEF Place
        <4>2. CASE t = [g EXCEPT !.ack = TRUE]
          BY <4>2 DEF Place
        <4> QED BY <3>7, <4>1, <4>2
      <3>8. ASSUME t = g \/ t = [g EXCEPT !.ack = TRUE],
                   Cur(i2c).dir = "W" => i2c.bus \in {"W", "R"} /\ (i2c.bus = "W" => i2c.flight = <<>>)
            PROVE  I2cInv(t)
        <4>1. Place(i2c, t)
          BY <3>6, <3>7, <3>8 DEF Place
        <4> QED BY <2>1, <2>5, <3>6, <3>7, <3>8, <4>1, EndKeeps
      <3> QED BY <2>3, <3>3, <3>8, ErrorKeeps
    <2> QED BY <2>4, <2>5
  <1>7. CASE I2cBus
    <2>1. CASE i2c.start /\ i2c.bus # "addr" /\ t = [i2c EXCEPT !.start = FALSE, !.bus = "started"]
      BY <2>1, BusStartKeeps
    <2>2. CASE /\ i2c.bus = "addr"
               /\ t = [i2c EXCEPT !.bus = "answered", !.from = <<i2c.no, i2c.seg>>, !.sent = 0,
                                  !.device = IF i2c.seg = 1 THEN <<>> ELSE @]
      BY <2>2, BusAddrKeeps
    <2>3. CASE /\ i2c.bus = "W" /\ i2c.flight # <<>>
               /\ t = [i2c EXCEPT !.flight = Tail(@), !.device = Append(@, Head(i2c.flight))]
      BY <2>3, BusTakeKeeps
    <2>4. CASE /\ i2c.bus = "R"
               /\ t = [i2c EXCEPT !.rx = Append(@, <<i2c.from, i2c.sent + 1>>), !.sent = @ + 1,
                                  !.acked = i2c.ack,
                                  !.bus = IF i2c.stop THEN "idle" ELSE @, !.stop = FALSE]
      BY <2>4, BusArrivesKeeps
    <2>5. CASE t = [i2c EXCEPT !.stop = FALSE, !.bus = "idle"]
      <3>1. /\ DOMAIN t = I2cFields /\ Still(i2c, t) /\ t.phase = i2c.phase /\ t.flight = i2c.flight
            /\ t.device = i2c.device /\ t.start = i2c.start /\ t.from = i2c.from /\ t.rx = i2c.rx
            /\ t.sent = i2c.sent
        BY <1>1, <2>5 DEF Still, Place
      <3>2. t.bus = "idle"
        BY <1>1, <2>5 DEF I2cFields
      <3> QED BY <3>1, <3>2, BusEndsKeeps DEF Released
    <2> QED BY <1>7, <2>1, <2>2, <2>3, <2>4, <2>5 DEF I2cBus, Arriving
  <1>8. CASE I2cFault
    <2>1. PICK e : t = [i2c EXCEPT !.errs = @ \cup {e}, !.bus = "dead"] /\ i2c.bus # "idle"
      BY <1>8 DEF I2cFault
    <2>2. /\ DOMAIN t = I2cFields /\ Still(i2c, t) /\ t.phase = i2c.phase /\ t.flight = i2c.flight
          /\ t.device = i2c.device /\ t.start = i2c.start /\ t.from = i2c.from /\ t.rx = i2c.rx
          /\ t.sent = i2c.sent /\ t.stop = i2c.stop
      BY <1>1, <2>1 DEF Still, Place
    <2>3. t.bus = "dead"
      BY <1>1, <2>1 DEF I2cFields
    <2> QED BY <2>1, <2>2, <2>3, BusEndsKeeps DEF Released
  <1> QED BY <1>2, <1>3, <1>4, <1>5, <1>6, <1>7, <1>8 DEF I2cStep

-----------------------------------------------------------------------------
(* The board: any call of any driver, any step of any of them.              *)

HalInv == SpiInv(spi) /\ UartInv(uart) /\ I2cInv(i2c)

\* A call of one or two segments.
LEMMA I2cCallsKeep ==
    ASSUME I2cInv(i2c), NEW n \in Segments, NEW m \in Segments, NEW t, t = i2c',
           \/ i2c_write(n) \/ i2c_read(n) \/ i2c_write_read(n, m)
           \/ i2c_transaction(<<W(n), R(m)>>) \/ i2c_transaction(<<R(n), W(m)>>)
           \/ i2c_transaction(<<W(n), W(m)>>) \/ i2c_transaction(<<R(n), R(m)>>)
    PROVE  I2cInv(t)
PROOF
  <1>1. PICK wn, wm, rn, rm : /\ wn = W(n) /\ wm = W(m) /\ rn = R(n) /\ rm = R(m)
    OBVIOUS
  <1>2. /\ wn \in Segment /\ wm \in Segment /\ rn \in Segment /\ rm \in Segment
        /\ wn.dir = "W" /\ wm.dir = "W" /\ rn.dir = "R" /\ rm.dir = "R"
    BY <1>1, HalSizes DEF W, R, Segment
  <1>3. ASSUME NEW a \in Segment
        PROVE  <<a>> \in Seq(Segment) /\ Len(<<a>>) = 1 /\ <<a>>[1] = a
    OBVIOUS
  <1>4. ASSUME NEW a \in Segment, NEW b \in Segment
        PROVE  <<a, b>> \in Seq(Segment) /\ Len(<<a, b>>) = 2 /\ <<a, b>>[1] = a /\ <<a, b>>[2] = b
    OBVIOUS
  <1>5. CASE i2c_write(n)
    <2>1. I2cCall("write", <<wn>>)
      BY <1>1, <1>5 DEF i2c_write
    <2> QED BY <1>2, <1>3, <2>1, CallKeeps
  <1>6. CASE i2c_read(n)
    <2>1. I2cCall("read", <<rn>>)
      BY <1>1, <1>6 DEF i2c_read
    <2>2. PICK sg : sg = <<rn>> /\ sg \in Seq(Segment) /\ Len(sg) = 1 /\ sg[1] = rn
      BY <1>2, <1>3
    <2> QED BY <1>2, <2>1, <2>2, CallKeeps
  <1>7. CASE i2c_write_read(n, m)
    <2>1. I2cCall("write_read", <<wn, rm>>)
      BY <1>1, <1>7 DEF i2c_write_read
    <2> QED BY <1>2, <1>4, <2>1, CallKeeps
  <1>8. CASE i2c_transaction(<<W(n), R(m)>>)
    <2>1. I2cCall("transaction", <<wn, rm>>)
      BY <1>1, <1>8 DEF i2c_transaction
    <2> QED BY <1>2, <1>4, <2>1, CallKeeps
  <1>9. CASE i2c_transaction(<<R(n), W(m)>>)
    <2>1. I2cCall("transaction", <<rn, wm>>)
      BY <1>1, <1>9 DEF i2c_transaction
    <2> QED BY <1>2, <1>4, <2>1, CallKeeps
  <1>10. CASE i2c_transaction(<<W(n), W(m)>>)
    <2>1. I2cCall("transaction", <<wn, wm>>)
      BY <1>1, <1>10 DEF i2c_transaction
    <2> QED BY <1>2, <1>4, <2>1, CallKeeps
  <1>11. CASE i2c_transaction(<<R(n), R(m)>>)
    <2>1. I2cCall("transaction", <<rn, rm>>)
      BY <1>1, <1>11 DEF i2c_transaction
    <2> QED BY <1>2, <1>4, <2>1, CallKeeps
  <1> QED BY <1>5, <1>6, <1>7, <1>8, <1>9, <1>10, <1>11

LEMMA HalInvInit == HalInit => HalInv
PROOF
  <1> SUFFICES ASSUME HalInit PROVE HalInv
    OBVIOUS
  <1>1. (\E c : spi = SpiIdle(c)) /\ (\E c : uart = UartIdle(c)) /\ (\E c : i2c = I2cIdle(c))
    BY DEF HalInit
  <1> QED BY <1>1, SpiIdleInv, UartIdleInv, I2cIdleInv DEF HalInv

LEMMA HalInvNext == HalInv /\ [HalNext]_halVars => HalInv'
PROOF
  <1> SUFFICES ASSUME HalInv, [HalNext]_halVars PROVE HalInv'
    OBVIOUS
  <1>1. SpiInv(spi) /\ UartInv(uart) /\ I2cInv(i2c)
    BY DEF HalInv
  <1>2. ASSUME SpiInv(spi'), UartInv(uart'), I2cInv(i2c') PROVE HalInv'
    BY <1>2 DEF HalInv, SpiInv, UartInv, I2cInv
  <1>3. CASE UNCHANGED halVars
    <2>1. spi' = spi /\ uart' = uart /\ i2c' = i2c
      BY <1>3 DEF halVars
    <2> QED BY <1>1, <1>2, <2>1
  <1>4. CASE \E op \in {"write", "read", "transfer", "in_place"}, n, room \in Lengths : SpiCall(op, n, room)
    <2>1. PICK op \in {"write", "read", "transfer", "in_place"}, n \in Lengths, room \in Lengths :
            SpiCall(op, n, room)
      BY <1>4
    <2>2. n \in Nat /\ room \in Nat /\ uart' = uart /\ i2c' = i2c
      BY <2>1, HalSizes DEF SpiCall
    <2> QED BY <1>1, <1>2, <2>1, <2>2, SpiCallKeeps
  <1>5. CASE SpiStep
    <2>1. uart' = uart /\ i2c' = i2c
      BY <1>5 DEF SpiStep
    <2> QED BY <1>1, <1>2, <1>5, <2>1, SpiStepKeeps
  <1>6. CASE \E op \in {"write", "read", "flush"}, n \in Lengths : UartCall(op, n)
    <2>1. PICK op, n, t : /\ t = [uart EXCEPT !.op = op, !.len = n, !.count = 0]
                          /\ uart' = t /\ spi' = spi /\ i2c' = i2c
      BY <1>6 DEF UartCall
    <2>3. /\ DOMAIN t = DOMAIN uart
          /\ t.given = uart.given /\ t.arrived = uart.arrived /\ t.lost = uart.lost
          /\ t.line = uart.line /\ t.txfifo = uart.txfifo /\ t.got = uart.got /\ t.rxfifo = uart.rxfifo
      BY <2>1
    <2>2. UartInv(t)
      BY <1>1, <2>3, UartCallKeeps
    <2> QED BY <1>1, <1>2, <2>1, <2>2
  <1>7. CASE UartStep
    <2>1. spi' = spi /\ i2c' = i2c
      BY <1>7 DEF UartStep
    <2> QED BY <1>1, <1>2, <1>7, <2>1, UartStepKeeps
  <1>8. CASE \E n, m \in Segments :
                \/ i2c_write(n) \/ i2c_read(n) \/ i2c_write_read(n, m)
                \/ i2c_transaction(<<W(n), R(m)>>) \/ i2c_transaction(<<R(n), W(m)>>)
                \/ i2c_transaction(<<W(n), W(m)>>) \/ i2c_transaction(<<R(n), R(m)>>)
    <2>1. PICK t : t = i2c'
      OBVIOUS
    <2>2. spi' = spi /\ uart' = uart
      BY <1>8 DEF i2c_write, i2c_read, i2c_write_read, i2c_transaction, I2cCall
    <2>3. I2cInv(t)
      BY <1>1, <1>8, <2>1, I2cCallsKeep
    <2> QED BY <1>1, <1>2, <2>1, <2>2, <2>3
  <1>9. CASE I2cStep
    <2>1. PICK t : t = i2c'
      OBVIOUS
    <2>2. spi' = spi /\ uart' = uart
      BY <1>9 DEF I2cStep
    <2>3. I2cInv(t)
      BY <1>1, <1>9, <2>1, I2cStepKeeps
    <2> QED BY <1>1, <1>2, <2>1, <2>2, <2>3
  <1> QED BY <1>3, <1>4, <1>5, <1>6, <1>7, <1>8, <1>9 DEF HalNext

\* For every buffer length, the empty one included, every FIFO and register size, however many
\* calls are made and wherever the bus loses a byte: a call of the SPI, UART and I2C drivers
\* that returns Ok moved every byte once and in order.  An I2C call that ended in an error
\* leaves what it likes in the peripheral (a START that is still to come, SB, bytes in both
\* registers), and so does a read whose last byte was acknowledged; the calls after it that
\* end in Ok are still honest, and leave the bus free unless they end with a read of nothing.
THEOREM DriversHonest == HalSpec => []DriverHonest
PROOF
  <1>1. HalInv => DriverHonest
    BY SpiHonestOf, UartHonestOf, I2cHonestOf DEF HalInv, DriverHonest
  <1> QED BY <1>1, HalInvInit, HalInvNext, PTL DEF HalSpec

-----------------------------------------------------------------------------
(* The philosophers: forks on a ring. *)

Seats(n) == 0..(n - 1)
LeftOf(n, i) == (i + 1) % n
RightOf(n, i) == (i + n - 1) % n

LEMMA Wraps ==
    ASSUME NEW n \in Nat, NEW x \in Nat, n > 0
    PROVE  /\ x < n => x % n = x
           /\ x >= n /\ x < n + n => x % n = x - n
  OBVIOUS

LEMMA Ring ==
    ASSUME NEW n \in Nat, n >= 2, NEW i \in Seats(n)
    PROVE  /\ LeftOf(n, i) = IF i = n - 1 THEN 0 ELSE i + 1
           /\ RightOf(n, i) = IF i = 0 THEN n - 1 ELSE i - 1
           /\ LeftOf(n, i) \in Seats(n) /\ RightOf(n, i) \in Seats(n)
  <1>1. i \in Nat /\ i < n
    BY DEF Seats
  <1>2. LeftOf(n, i) = IF i = n - 1 THEN 0 ELSE i + 1
    <2>1. PICK x : x = i + 1
      OBVIOUS
    <2>2. x \in Nat /\ n > 0 /\ x <= n /\ x < n + n /\ LeftOf(n, i) = x % n
      BY <1>1, <2>1 DEF LeftOf
    <2>3. CASE i = n - 1
      <3>1. x >= n /\ x - n = 0
        BY <1>1, <2>1, <2>3
      <3> QED BY <2>2, <2>3, <3>1, Wraps
    <2>4. CASE i # n - 1
      <3>1. x < n
        BY <1>1, <2>1, <2>4
      <3> QED BY <2>1, <2>2, <2>4, <3>1, Wraps
    <2> QED BY <2>3, <2>4
  <1>3. RightOf(n, i) = IF i = 0 THEN n - 1 ELSE i - 1
    <2>1. PICK x : x = i + n - 1
      OBVIOUS
    <2>2. x \in Nat /\ n > 0 /\ x < n + n /\ RightOf(n, i) = x % n
      BY <1>1, <2>1 DEF RightOf
    <2>3. CASE i = 0
      <3>1. x < n /\ x = n - 1
        BY <1>1, <2>1, <2>3
      <3> QED BY <2>2, <2>3, <3>1, Wraps
    <2>4. CASE i # 0
      <3>1. x >= n /\ x - n = i - 1
        BY <1>1, <2>1, <2>4
      <3> QED BY <2>2, <2>4, <3>1, Wraps
    <2> QED BY <2>3, <2>4
  <1>4. LeftOf(n, i) \in Seats(n)
    BY <1>1, <1>2 DEF Seats
  <1>5. RightOf(n, i) \in Seats(n)
    BY <1>1, <1>3 DEF Seats
  <1> QED BY <1>2, <1>3, <1>4, <1>5

LEMMA Neighbours ==
    ASSUME NEW n \in Nat, n >= 2, NEW i \in Seats(n)
    PROVE  /\ LeftOf(n, i) \in Seats(n) /\ RightOf(n, i) \in Seats(n)
           /\ LeftOf(n, i) # i /\ RightOf(n, i) # i
           /\ RightOf(n, LeftOf(n, i)) = i /\ LeftOf(n, RightOf(n, i)) = i
           /\ \A j \in Seats(n) : LeftOf(n, j) = LeftOf(n, i) => j = i
  <1>1. i \in Nat /\ i < n
    BY DEF Seats
  <1>2. PICK l, r : l = LeftOf(n, i) /\ r = RightOf(n, i)
    OBVIOUS
  <1>3. /\ l = IF i = n - 1 THEN 0 ELSE i + 1
        /\ r = IF i = 0 THEN n - 1 ELSE i - 1
        /\ l \in Seats(n) /\ r \in Seats(n)
    BY <1>2, Ring
  <1>4. l # i /\ r # i
    BY <1>1, <1>3
  <1>5. RightOf(n, l) = i
    <2>1. RightOf(n, l) = IF l = 0 THEN n - 1 ELSE l - 1
      BY <1>3, Ring
    <2> QED BY <1>1, <1>3, <2>1
  <1>6. LeftOf(n, r) = i
    <2>1. LeftOf(n, r) = IF r = n - 1 THEN 0 ELSE r + 1
      BY <1>3, Ring
    <2> QED BY <1>1, <1>3, <2>1
  <1>7. ASSUME NEW j \in Seats(n), LeftOf(n, j) = l PROVE j = i
    <2>1. LeftOf(n, j) = IF j = n - 1 THEN 0 ELSE j + 1
      BY Ring
    <2>2. j \in Nat /\ j < n
      BY DEF Seats
    <2> QED BY <1>1, <1>3, <1>7, <2>1, <2>2
  <1> QED BY <1>2, <1>3, <1>4, <1>5, <1>6, <1>7

\* The philosophers in h hold their two forks, and no other fork is taken.
Forks(n, h, tk) ==
    /\ h \subseteq Seats(n) /\ tk \subseteq Seats(n)
    /\ \A i \in h : i \in tk /\ LeftOf(n, i) \in tk /\ LeftOf(n, i) \notin h
    /\ \A f \in tk : f \in h \/ RightOf(n, f) \in h

LEMMA ForksTaken ==
    ASSUME NEW n \in Nat, n >= 2, NEW h, NEW tk, Forks(n, h, tk),
           NEW i \in Seats(n), i \notin tk, LeftOf(n, i) \notin tk
    PROVE  Forks(n, h \cup {i}, tk \cup {i, LeftOf(n, i)}) /\ i \notin h
  <1>1. PICK g, t, l : g = h \cup {i} /\ t = tk \cup {i, l} /\ l = LeftOf(n, i)
    OBVIOUS
  <1>2. /\ l \in Seats(n) /\ l # i /\ RightOf(n, l) = i
        /\ \A j \in Seats(n) : RightOf(n, LeftOf(n, j)) = j
    BY <1>1, Neighbours
  <1>3. h \subseteq Seats(n) /\ tk \subseteq Seats(n) /\ i \notin h /\ l \notin h
    BY <1>1 DEF Forks
  <1>4. g \subseteq Seats(n) /\ t \subseteq Seats(n)
    BY <1>1, <1>2, <1>3
  <1>5. ASSUME NEW j \in g PROVE j \in t /\ LeftOf(n, j) \in t /\ LeftOf(n, j) \notin g
    <2>1. CASE j = i
      BY <1>1, <1>2, <1>3, <2>1
    <2>2. CASE j # i
      <3>1. j \in h
        BY <1>1, <2>2
      <3>2. j \in tk /\ LeftOf(n, j) \in tk /\ LeftOf(n, j) \notin h
        BY <3>1 DEF Forks
      <3> QED BY <1>1, <3>2
    <2> QED BY <2>1, <2>2
  <1>6. ASSUME NEW f \in t PROVE f \in g \/ RightOf(n, f) \in g
    <2>1. CASE f \in tk
      BY <1>1, <2>1 DEF Forks
    <2>2. CASE f = i
      BY <1>1, <2>2
    <2>3. CASE f = l
      BY <1>1, <1>2, <2>3
    <2> QED BY <1>1, <2>1, <2>2, <2>3
  <1> QED BY <1>1, <1>3, <1>4, <1>5, <1>6 DEF Forks

LEMMA ForksReleased ==
    ASSUME NEW n \in Nat, n >= 2, NEW h, NEW tk, Forks(n, h, tk), NEW i \in h
    PROVE  Forks(n, h \ {i}, tk \ {i, LeftOf(n, i)})
  <1>1. PICK g, t, l : g = h \ {i} /\ t = tk \ {i, l} /\ l = LeftOf(n, i)
    OBVIOUS
  <1>2. h \subseteq Seats(n) /\ tk \subseteq Seats(n) /\ i \in Seats(n) /\ l \notin h
    BY <1>1 DEF Forks
  <1>3. \A j \in Seats(n) : /\ RightOf(n, LeftOf(n, j)) = j /\ LeftOf(n, RightOf(n, j)) = j
                            /\ (LeftOf(n, j) = l => j = i)
    BY <1>1, <1>2, Neighbours
  <1>4. ASSUME NEW j \in g PROVE j \in t /\ LeftOf(n, j) \in t /\ LeftOf(n, j) \notin g
    <2>1. j \in h /\ j # i /\ j \in Seats(n)
      BY <1>1, <1>2
    <2>2. j \in tk /\ LeftOf(n, j) \in tk /\ LeftOf(n, j) \notin h
      BY <2>1 DEF Forks
    <2>3. LeftOf(n, j) # i /\ LeftOf(n, j) # l
      BY <1>3, <2>1, <2>2
    <2>4. j # l
      BY <1>2, <2>1
    <2> QED BY <1>1, <2>1, <2>2, <2>3, <2>4
  <1>5. ASSUME NEW f \in t PROVE f \in g \/ RightOf(n, f) \in g
    <2>1. f \in tk /\ f # i /\ f # l /\ f \in Seats(n)
      BY <1>1, <1>2
    <2>2. f \in h \/ RightOf(n, f) \in h
      BY <2>1 DEF Forks
    <2>3. RightOf(n, f) # i
      BY <1>1, <1>3, <2>1
    <2> QED BY <1>1, <2>1, <2>2, <2>3
  <1>6. g \subseteq Seats(n) /\ t \subseteq Seats(n)
    BY <1>1, <1>2
  <1> QED BY <1>1, <1>4, <1>5, <1>6 DEF Forks

-----------------------------------------------------------------------------
(* Queues, by the events in them. *)

Members(q) == {q[k] : k \in 1..Len(q)}
\* At most one event of the set a is in the queue.
Sparse(q, a) == \A k, m \in 1..Len(q) : q[k] \in a /\ q[m] \in a => k = m

LEMMA EventsAppend ==
    ASSUME NEW T, NEW q \in Seq(T), NEW x \in T, NEW a
    PROVE  /\ Append(q, x) \in Seq(T) /\ Members(Append(q, x)) = Members(q) \cup {x}
           /\ Sparse(q, a) /\ (x \notin a \/ \A y \in Members(q) : y \notin a) => Sparse(Append(q, x), a)
  <1>1. PICK p, n : p = Append(q, x) /\ n = Len(q)
    OBVIOUS
  <1>2. /\ n \in Nat /\ p \in Seq(T) /\ Len(p) = n + 1 /\ p[n + 1] = x
        /\ \A k \in 1..n : p[k] = q[k]
    BY <1>1, AppendProperties, LenProperties
  <1>3. Members(p) = Members(q) \cup {x}
    <2>1. ASSUME NEW y \in Members(p) PROVE y \in Members(q) \cup {x}
      <3>1. PICK k \in 1..(n + 1) : y = p[k]
        BY <1>2 DEF Members
      <3>2. CASE k = n + 1
        BY <1>2, <3>1, <3>2
      <3>3. CASE k # n + 1
        <4>1. k \in 1..n
          BY <1>2, <3>3
        <4> QED BY <1>1, <1>2, <3>1, <4>1 DEF Members
      <3> QED BY <3>2, <3>3
    <2>2. ASSUME NEW y \in Members(q) PROVE y \in Members(p)
      <3>1. PICK k \in 1..n : y = q[k]
        BY <1>1 DEF Members
      <3>2. k \in 1..(n + 1) /\ y = p[k]
        BY <1>2, <3>1
      <3> QED BY <1>2, <3>2 DEF Members
    <2>3. x \in Members(p)
      <3>1. n + 1 \in 1..(n + 1)
        BY <1>2
      <3> QED BY <1>2, <3>1 DEF Members
    <2> QED BY <2>1, <2>2, <2>3
  <1>4. ASSUME Sparse(q, a), x \notin a \/ \A y \in Members(q) : y \notin a
        PROVE  Sparse(p, a)
    <2>1. SUFFICES ASSUME NEW k \in 1..(n + 1), NEW m \in 1..(n + 1), p[k] \in a, p[m] \in a
                   PROVE  k = m
      BY <1>2 DEF Sparse
    <2>2. \A j \in 1..n : q[j] \in Members(q)
      BY <1>1 DEF Members
    <2>3. CASE k = n + 1 /\ m = n + 1
      BY <2>3
    <2>4. CASE k = n + 1 /\ m # n + 1
      <3>1. m \in 1..n
        BY <1>2, <2>4
      <3> QED BY <1>2, <1>4, <2>1, <2>2, <2>4, <3>1
    <2>5. CASE k # n + 1 /\ m = n + 1
      <3>1. k \in 1..n
        BY <1>2, <2>5
      <3> QED BY <1>2, <1>4, <2>1, <2>2, <2>5, <3>1
    <2>6. CASE k # n + 1 /\ m # n + 1
      <3>1. k \in 1..n /\ m \in 1..n
        BY <1>2, <2>6
      <3> QED BY <1>1, <1>2, <1>4, <2>1, <3>1 DEF Sparse
    <2> QED BY <2>3, <2>4, <2>5, <2>6
  <1> QED BY <1>1, <1>2, <1>3, <1>4

LEMMA EventsTail ==
    ASSUME NEW T, NEW q \in Seq(T), q # <<>>, NEW a
    PROVE  /\ Head(q) \in T /\ Tail(q) \in Seq(T) /\ Members(q) = {Head(q)} \cup Members(Tail(q))
           /\ Sparse(q, a) => /\ Sparse(Tail(q), a)
                              /\ Head(q) \in a => \A y \in Members(Tail(q)) : y \notin a
  <1>1. PICK p, n, x : p = Tail(q) /\ n = Len(q) /\ x = Head(q)
    OBVIOUS
  <1>2. /\ n \in Nat /\ n >= 1 /\ x = q[1] /\ x \in T /\ p \in Seq(T) /\ Len(p) = n - 1
        /\ \A k \in 1..(n - 1) : p[k] = q[k + 1]
    <2>1. n \in Nat /\ n # 0
      BY <1>1, LenProperties, EmptySeq
    <2>2. p \in Seq(T) /\ Len(p) = n - 1 /\ \A k \in 1..(n - 1) : p[k] = q[k + 1]
      BY <1>1, HeadTailProperties
    <2>3. x = q[1] /\ x \in T
      BY <1>1, HeadTailProperties
    <2> QED BY <2>1, <2>2, <2>3
  <1>3. Members(q) = {x} \cup Members(p)
    <2>1. ASSUME NEW y \in Members(q) PROVE y \in {x} \cup Members(p)
      <3>1. PICK k \in 1..n : y = q[k]
        BY <1>1 DEF Members
      <3>2. CASE k = 1
        BY <1>2, <3>1, <3>2
      <3>3. CASE k # 1
        <4>1. PICK j : j = k - 1
          OBVIOUS
        <4>2. j \in 1..(n - 1) /\ j + 1 = k
          BY <1>2, <3>3, <4>1
        <4>3. y = p[j]
          BY <1>2, <3>1, <4>2
        <4> QED BY <1>2, <4>2, <4>3 DEF Members
      <3> QED BY <3>2, <3>3
    <2>2. ASSUME NEW y \in Members(p) PROVE y \in Members(q)
      <3>1. PICK k \in 1..(n - 1) : y = p[k]
        BY <1>2 DEF Members
      <3>2. k + 1 \in 1..n /\ y = q[k + 1]
        BY <1>2, <3>1
      <3> QED BY <1>1, <3>2 DEF Members
    <2>3. x \in Members(q)
      <3>1. 1 \in 1..n
        BY <1>2
      <3> QED BY <1>1, <1>2, <3>1 DEF Members
    <2> QED BY <2>1, <2>2, <2>3
  <1>4. ASSUME Sparse(q, a) PROVE Sparse(p, a)
    <2>1. SUFFICES ASSUME NEW k \in 1..(n - 1), NEW m \in 1..(n - 1), p[k] \in a, p[m] \in a
                   PROVE  k = m
      BY <1>2 DEF Sparse
    <2>2. k + 1 \in 1..n /\ m + 1 \in 1..n /\ q[k + 1] \in a /\ q[m + 1] \in a
      BY <1>2, <2>1
    <2>3. k + 1 = m + 1
      BY <1>1, <1>4, <2>2 DEF Sparse
    <2> QED BY <2>3
  <1>5. ASSUME Sparse(q, a), x \in a, NEW y \in Members(p) PROVE y \notin a
    <2>1. PICK k \in 1..(n - 1) : y = p[k]
      BY <1>2 DEF Members
    <2>2. k + 1 \in 1..n /\ 1 \in 1..n /\ k + 1 # 1 /\ y = q[k + 1]
      BY <1>2, <2>1
    <2> QED BY <1>1, <1>2, <1>5, <2>2 DEF Sparse
  <1> QED BY <1>1, <1>2, <1>3, <1>4, <1>5

-----------------------------------------------------------------------------
(* The books of the table. *)

PhiloEvent(n) == [sig : {"HUNGRY", "DONE"}, philo : Seats(n)]
ButtonEvent == [sig : {"PAUSE", "SERVE"}]
TableEvent(n, b) == IF b = "host" THEN PhiloEvent(n) \cup ButtonEvent ELSE PhiloEvent(n)
PhiloState == {"thinking", "hungry", "eating"}
SeatEvent == [sig : {"EAT", "TIMEOUT"}]
Eat == [sig |-> "EAT"]

\* The philosophers with a request, or with forks to return, in the table's queue.
Asks(n, q) == {i \in Seats(n) : [sig |-> "HUNGRY", philo |-> i] \in Members(q)}
Returns(n, q) == {i \in Seats(n) : [sig |-> "DONE", philo |-> i] \in Members(q)}
SeatsServed(n, bx) == {i \in Seats(n) : Eat \in Members(bx[i])}
InState(n, ph, s) == {i \in Seats(n) : ph[i] = s}

\* A philosopher runs only when the table's queue is empty, so that at most
\* one of its events is of a philosopher.
Boxes(n, b, bx) ==
    /\ bx = [a \in 0..n |-> bx[a]]
    /\ bx[n] \in Seq(TableEvent(n, b)) /\ Sparse(bx[n], PhiloEvent(n))
    /\ \A i \in Seats(n) : bx[i] \in Seq(SeatEvent) /\ Sparse(bx[i], {Eat})

\* The host notes requests in a set, the ESP boards in a queue.
Notes(n, b, hg, wt) ==
    /\ b \in {"host", "esp"} /\ hg \subseteq Seats(n) /\ wt \in Seq(Seats(n))
    /\ \A i \in Seats(n) : Sparse(wt, {i})
    /\ b = "host" => wt = <<>>
    /\ b = "esp" => hg = {}

\* A hungry philosopher's request is asked, noted or served; those that eat,
\* are served or return their forks hold them.
Ledger(n, ph, tk, asking, noted, served, returning) ==
    /\ asking \cup noted \cup served = InState(n, ph, "hungry")
    /\ asking \cap noted = {} /\ asking \cap served = {} /\ noted \cap served = {}
    /\ returning \subseteq InState(n, ph, "thinking")
    /\ Forks(n, InState(n, ph, "eating") \cup served \cup returning, tk)

Books(n, b, ph, tk, hg, wt, bx) ==
    /\ Boxes(n, b, bx)
    /\ ph \in [Seats(n) -> PhiloState]
    /\ Notes(n, b, hg, wt)
    /\ Ledger(n, ph, tk, Asks(n, bx[n]), hg \cup Members(wt), SeatsServed(n, bx), Returns(n, bx[n]))

\* The tick goes through the time events of the philosophers.
Wheel(n) ==
    /\ wheel = [r \in 0..3 |-> IF r = 0 THEN [k \in 1..n |-> k - 1] ELSE <<>>]
    /\ cursor = [rate |-> 0, pos |-> cursor.pos] /\ cursor.pos \in 0..n

DppInv ==
    \E n \in Nat : n >= 2 /\ Wheel(n) /\ Books(n, build, philo, taken, hungry, waiting, inbox)

\* The table takes the requests a and the returns r, grants, and notes the rest.
Settles(n, ph, asking, noted, served, returning, a, r, granted, noted2, tk2) ==
    /\ a \subseteq asking /\ r \subseteq returning
    /\ noted2 \cup granted = noted \cup a /\ noted2 \cap granted = {}
    /\ Forks(n, ((InState(n, ph, "eating") \cup served \cup returning) \ r) \cup granted, tk2)

LEMMA LedgerTable ==
    ASSUME NEW n, NEW ph, NEW tk, NEW asking, NEW noted, NEW served, NEW returning,
           Ledger(n, ph, tk, asking, noted, served, returning),
           NEW a, NEW r, NEW granted, NEW noted2, NEW tk2,
           Settles(n, ph, asking, noted, served, returning, a, r, granted, noted2, tk2)
    PROVE  /\ Ledger(n, ph, tk2, asking \ a, noted2, served \cup granted, returning \ r)
           /\ granted \subseteq Seats(n) /\ granted \cap served = {}
  <1>0. /\ a \subseteq asking /\ r \subseteq returning
        /\ noted2 \cup granted = noted \cup a /\ noted2 \cap granted = {}
        /\ Forks(n, ((InState(n, ph, "eating") \cup served \cup returning) \ r) \cup granted, tk2)
    BY DEF Settles
  <1>1. PICK hu, ea, th : /\ hu = InState(n, ph, "hungry") /\ ea = InState(n, ph, "eating")
                          /\ th = InState(n, ph, "thinking")
    OBVIOUS
  <1>2. hu \cap ea = {} /\ hu \cap th = {} /\ ea \cap th = {} /\ hu \subseteq Seats(n)
    BY <1>1 DEF InState
  <1>3. /\ asking \cup noted \cup served = hu /\ returning \subseteq th
        /\ asking \cap noted = {} /\ asking \cap served = {} /\ noted \cap served = {}
    BY <1>1 DEF Ledger
  <1>4. ea \cup (served \cup granted) \cup (returning \ r) = ((ea \cup served \cup returning) \ r) \cup granted
    BY <1>0, <1>2, <1>3
  <1>5. Forks(n, ea \cup (served \cup granted) \cup (returning \ r), tk2)
    BY <1>0, <1>1, <1>4
  <1>6. granted \subseteq noted \cup a /\ noted2 \subseteq noted \cup a
    BY <1>0
  <1>7. /\ (asking \ a) \cup noted2 \cup (served \cup granted) = hu
        /\ (asking \ a) \cap noted2 = {} /\ (asking \ a) \cap (served \cup granted) = {}
        /\ noted2 \cap (served \cup granted) = {} /\ granted \cap served = {}
        /\ granted \subseteq Seats(n) /\ returning \ r \subseteq th
    BY <1>0, <1>2, <1>3, <1>6
  <1> QED BY <1>1, <1>5, <1>7 DEF Ledger

\* A philosopher asks: its request is on its way to the table.
LEMMA LedgerAsks ==
    ASSUME NEW n, NEW ph \in [Seats(n) -> PhiloState], NEW tk, NEW noted, NEW served,
           Ledger(n, ph, tk, {}, noted, served, {}), NEW i \in Seats(n), ph[i] = "thinking"
    PROVE  Ledger(n, [ph EXCEPT ![i] = "hungry"], tk, {i}, noted, served, {})
  <1>1. PICK g, t : g = [ph EXCEPT ![i] = t] /\ t = "hungry" /\ t \in PhiloState
    BY DEF PhiloState
  <1>2. /\ InState(n, g, "hungry") = InState(n, ph, "hungry") \cup {i}
        /\ InState(n, g, "eating") = InState(n, ph, "eating") \ {i}
    <2>1. \A s : InState(n, g, s) = IF s = t THEN InState(n, ph, s) \cup {i} ELSE InState(n, ph, s) \ {i}
      BY <1>1 DEF InState
    <2> QED BY <1>1, <2>1
  <1>3. i \notin InState(n, ph, "hungry") /\ i \notin InState(n, ph, "eating")
    BY DEF InState
  <1>4. InState(n, g, "eating") = InState(n, ph, "eating")
    BY <1>2, <1>3
  <1> QED BY <1>1, <1>2, <1>3, <1>4 DEF Ledger

\* A served philosopher eats.
LEMMA LedgerEats ==
    ASSUME NEW n, NEW ph \in [Seats(n) -> PhiloState], NEW tk, NEW asking, NEW noted, NEW served,
           NEW returning,
           Ledger(n, ph, tk, asking, noted, served, returning), NEW i \in served
    PROVE  Ledger(n, [ph EXCEPT ![i] = "eating"], tk, asking, noted, served \ {i}, returning)
  <1>1. PICK g, t : g = [ph EXCEPT ![i] = t] /\ t = "eating" /\ t \in PhiloState
    BY DEF PhiloState
  <1>2. i \in InState(n, ph, "hungry") /\ i \in Seats(n)
    BY DEF Ledger, InState
  <1>3. /\ InState(n, g, "hungry") = InState(n, ph, "hungry") \ {i}
        /\ InState(n, g, "eating") = InState(n, ph, "eating") \cup {i}
        /\ InState(n, g, "thinking") = InState(n, ph, "thinking") \ {i}
    <2>1. \A s : InState(n, g, s) = IF s = t THEN InState(n, ph, s) \cup {i} ELSE InState(n, ph, s) \ {i}
      BY <1>1, <1>2 DEF InState
    <2> QED BY <1>1, <2>1
  <1>4. i \notin InState(n, ph, "thinking")
    BY <1>2 DEF InState
  <1>5. InState(n, g, "eating") \cup (served \ {i}) \cup returning
            = InState(n, ph, "eating") \cup served \cup returning
    BY <1>3
  <1> QED BY <1>1, <1>3, <1>4, <1>5 DEF Ledger

\* A philosopher that has eaten returns its forks.
LEMMA LedgerReturns ==
    ASSUME NEW n, NEW ph \in [Seats(n) -> PhiloState], NEW tk, NEW noted, NEW served,
           Ledger(n, ph, tk, {}, noted, served, {}), NEW i \in Seats(n), ph[i] = "eating"
    PROVE  Ledger(n, [ph EXCEPT ![i] = "thinking"], tk, {}, noted, served, {i})
  <1>1. PICK g, t : g = [ph EXCEPT ![i] = t] /\ t = "thinking" /\ t \in PhiloState
    BY DEF PhiloState
  <1>2. /\ InState(n, g, "hungry") = InState(n, ph, "hungry") \ {i}
        /\ InState(n, g, "eating") = InState(n, ph, "eating") \ {i}
        /\ InState(n, g, "thinking") = InState(n, ph, "thinking") \cup {i}
    <2>1. \A s : InState(n, g, s) = IF s = t THEN InState(n, ph, s) \cup {i} ELSE InState(n, ph, s) \ {i}
      BY <1>1 DEF InState
    <2> QED BY <1>1, <2>1
  <1>3. i \notin InState(n, ph, "hungry") /\ i \in InState(n, ph, "eating")
    BY DEF InState
  <1>4. InState(n, g, "eating") \cup served \cup {i} = InState(n, ph, "eating") \cup served \cup {}
    BY <1>2, <1>3
  <1> QED BY <1>1, <1>2, <1>3, <1>4 DEF Ledger

\* What a step does to the queues: the table takes its next event and grants forks ...
HandsOut(n, bx, gr, bx2) ==
    /\ bx[n] # <<>> /\ gr \subseteq Seats(n) /\ gr \cap SeatsServed(n, bx) = {}
    /\ bx2 = Granted([bx EXCEPT ![n] = Tail(@)], gr)

LEMMA BoxesGranted ==
    ASSUME NEW n \in Nat, NEW b, NEW bx, Boxes(n, b, bx), NEW gr, NEW bx2, HandsOut(n, bx, gr, bx2)
    PROVE  Boxes(n, b, bx2) /\ SeatsServed(n, bx2) = SeatsServed(n, bx) \cup gr /\ bx2[n] = Tail(bx[n])
  <1>0. /\ bx[n] # <<>> /\ gr \subseteq Seats(n) /\ gr \cap SeatsServed(n, bx) = {}
        /\ bx2 = Granted([bx EXCEPT ![n] = Tail(@)], gr)
    BY DEF HandsOut
  <1>1. /\ n \in 0..n /\ Seats(n) \subseteq 0..n /\ n \notin Seats(n) /\ n \notin gr
    BY <1>0 DEF Seats
  <1>2. PICK bm : bm = [bx EXCEPT ![n] = Tail(@)]
    OBVIOUS
  <1>3. /\ DOMAIN bx = 0..n /\ DOMAIN bm = 0..n /\ bm[n] = Tail(bx[n])
        /\ \A a \in 0..n : a # n => bm[a] = bx[a]
    BY <1>1, <1>2 DEF Boxes
  <1>4. bx2 = [a \in 0..n |-> IF a \in gr THEN Append(bm[a], Eat) ELSE bm[a]]
    BY <1>0, <1>2, <1>3 DEF Granted, Eat
  <1>5. bx2[n] = Tail(bx[n])
    BY <1>1, <1>3, <1>4
  <1>6. \A i \in Seats(n) : bx2[i] = IF i \in gr THEN Append(bx[i], Eat) ELSE bx[i]
    BY <1>1, <1>3, <1>4
  <1>7. bx2 = [a \in 0..n |-> bx2[a]]
    BY <1>4
  <1>8. bx2[n] \in Seq(TableEvent(n, b)) /\ Sparse(bx2[n], PhiloEvent(n))
    <2>1. PICK T, a, q : T = TableEvent(n, b) /\ a = PhiloEvent(n) /\ q = bx[n]
      OBVIOUS
    <2>2. q \in Seq(T) /\ Sparse(q, a) /\ q # <<>>
      BY <1>0, <2>1 DEF Boxes
    <2>3. Tail(q) \in Seq(T) /\ Sparse(Tail(q), a)
      BY <2>2, EventsTail
    <2> QED BY <1>5, <2>1, <2>3
  <1>9. ASSUME NEW i \in Seats(n)
        PROVE  /\ bx2[i] \in Seq(SeatEvent) /\ Sparse(bx2[i], {Eat})
               /\ Eat \in Members(bx2[i]) <=> Eat \in Members(bx[i]) \/ i \in gr
    <2>1. PICK T, a, q, x : T = SeatEvent /\ a = {x} /\ q = bx[i] /\ x = Eat
      OBVIOUS
    <2>2. q \in Seq(T) /\ Sparse(q, a)
      BY <2>1 DEF Boxes
    <2>3. x \in T
      BY <2>1 DEF SeatEvent, Eat
    <2>4. CASE i \in gr
      <3>1. x \notin Members(q)
        BY <1>0, <2>1, <2>4 DEF SeatsServed
      <3>2. \A y \in Members(q) : y \notin a
        BY <2>1, <3>1
      <3>3. /\ Append(q, x) \in Seq(T) /\ Members(Append(q, x)) = Members(q) \cup {x}
            /\ Sparse(Append(q, x), a)
        BY <2>2, <2>3, <3>2, EventsAppend
      <3> QED BY <1>6, <2>1, <2>4, <3>3
    <2>5. CASE i \notin gr
      BY <1>6, <2>1, <2>2, <2>5
    <2> QED BY <2>4, <2>5
  <1>10. SeatsServed(n, bx2) = SeatsServed(n, bx) \cup gr
    BY <1>0, <1>9 DEF SeatsServed
  <1> QED BY <1>5, <1>7, <1>8, <1>9, <1>10 DEF Boxes

\* ... whose next event is a request, a return or a button;
NextIs(n, b, q, e, p) ==
    /\ q \in Seq(TableEvent(n, b)) /\ Sparse(q, PhiloEvent(n)) /\ q # <<>>
    /\ e = Head(q) /\ p = Tail(q)

LEMMA TableHead ==
    ASSUME NEW n \in Nat, NEW b, NEW q, NEW e, NEW p, NextIs(n, b, q, e, p)
    PROVE  \/ /\ b = "host" /\ e.sig \in {"PAUSE", "SERVE"}
              /\ Asks(n, p) = Asks(n, q) /\ Returns(n, p) = Returns(n, q)
           \/ /\ e.sig = "HUNGRY" /\ e.philo \in Asks(n, q)
              /\ Asks(n, p) = Asks(n, q) \ {e.philo} /\ Returns(n, p) = Returns(n, q)
           \/ /\ e.sig = "DONE" /\ e.philo \in Returns(n, q)
              /\ Asks(n, p) = Asks(n, q) /\ Returns(n, p) = Returns(n, q) \ {e.philo}
  <1>1. PICK T, a : T = TableEvent(n, b) /\ a = PhiloEvent(n)
    OBVIOUS
  <1>2. /\ e \in T /\ Members(q) = {e} \cup Members(p)
        /\ e \in a => \A y \in Members(p) : y \notin a
    <2>1. q \in Seq(T) /\ Sparse(q, a) /\ q # <<>> /\ e = Head(q) /\ p = Tail(q)
      BY <1>1 DEF NextIs
    <2> QED BY <2>1, EventsTail
  <1>3. CASE e \in a
    <2>1. e \in PhiloEvent(n)
      BY <1>1, <1>3
    <2>2. PICK s, i : e = [sig |-> s, philo |-> i] /\ s \in {"HUNGRY", "DONE"} /\ i \in Seats(n)
      BY <2>1 DEF PhiloEvent
    <2>3. e.sig = s /\ e.philo = i
      BY <2>2
    <2>4. ASSUME NEW j \in Seats(n)
          PROVE  [sig |-> "HUNGRY", philo |-> j] \notin Members(p) /\ [sig |-> "DONE", philo |-> j] \notin Members(p)
      <3>1. [sig |-> "HUNGRY", philo |-> j] \in a /\ [sig |-> "DONE", philo |-> j] \in a
        BY <1>1 DEF PhiloEvent
      <3> QED BY <1>2, <1>3, <3>1
    <2>5. Asks(n, p) = {} /\ Returns(n, p) = {}
      BY <2>4 DEF Asks, Returns
    <2>6. CASE s = "HUNGRY"
      <3>1. \A j \in Seats(n) : /\ ([sig |-> "HUNGRY", philo |-> j] = e <=> j = i)
                                /\ [sig |-> "DONE", philo |-> j] # e
        BY <2>2, <2>6
      <3>2. Asks(n, q) = {i} /\ Returns(n, q) = {}
        BY <1>2, <2>2, <2>4, <3>1 DEF Asks, Returns
      <3> QED BY <2>3, <2>5, <2>6, <3>2
    <2>7. CASE s = "DONE"
      <3>1. \A j \in Seats(n) : /\ ([sig |-> "DONE", philo |-> j] = e <=> j = i)
                                /\ [sig |-> "HUNGRY", philo |-> j] # e
        BY <2>2, <2>7
      <3>2. Asks(n, q) = {} /\ Returns(n, q) = {i}
        BY <1>2, <2>2, <2>4, <3>1 DEF Asks, Returns
      <3> QED BY <2>3, <2>5, <2>7, <3>2
    <2> QED BY <2>2, <2>6, <2>7
  <1>4. CASE e \notin a
    <2>1. b = "host" /\ e \in ButtonEvent
      BY <1>1, <1>2, <1>4 DEF TableEvent
    <2>2. e.sig \in {"PAUSE", "SERVE"}
      BY <2>1 DEF ButtonEvent
    <2>3. ASSUME NEW j \in Seats(n)
          PROVE  [sig |-> "HUNGRY", philo |-> j] # e /\ [sig |-> "DONE", philo |-> j] # e
      <3>1. [sig |-> "HUNGRY", philo |-> j] \in a /\ [sig |-> "DONE", philo |-> j] \in a
        BY <1>1 DEF PhiloEvent
      <3> QED BY <1>4, <3>1
    <2>4. Asks(n, p) = Asks(n, q) /\ Returns(n, p) = Returns(n, q)
      BY <1>2, <2>3 DEF Asks, Returns
    <2> QED BY <2>1, <2>2, <2>4
  <1> QED BY <1>3, <1>4

\* a philosopher takes its next event;
SeatTakes(n, bx, i, bx2) == i \in Seats(n) /\ bx[i] # <<>> /\ bx2 = [bx EXCEPT ![i] = Tail(@)]

SeatTook(n, bx, i, bx2) ==
    \/ /\ Head(bx[i]).sig = "EAT" /\ i \in SeatsServed(n, bx)
       /\ SeatsServed(n, bx2) = SeatsServed(n, bx) \ {i}
    \/ Head(bx[i]).sig = "TIMEOUT" /\ SeatsServed(n, bx2) = SeatsServed(n, bx)

LEMMA BoxesTaken ==
    ASSUME NEW n \in Nat, NEW b, NEW bx, Boxes(n, b, bx), NEW i, NEW bx2, SeatTakes(n, bx, i, bx2)
    PROVE  Boxes(n, b, bx2) /\ bx2[n] = bx[n] /\ SeatTook(n, bx, i, bx2)
  <1>0. i \in Seats(n) /\ bx[i] # <<>> /\ bx2 = [bx EXCEPT ![i] = Tail(@)]
    BY DEF SeatTakes
  <1>1. n \in 0..n /\ Seats(n) \subseteq 0..n /\ n \notin Seats(n) /\ i # n
    BY <1>0 DEF Seats
  <1>2. /\ bx2 = [a \in 0..n |-> bx2[a]] /\ bx2[n] = bx[n] /\ bx2[i] = Tail(bx[i])
        /\ \A j \in Seats(n) : j # i => bx2[j] = bx[j]
    BY <1>0, <1>1 DEF Boxes
  <1>3. PICK T, a, q, p, e, x :
            T = SeatEvent /\ a = {x} /\ q = bx[i] /\ p = Tail(q) /\ e = Head(q) /\ x = Eat
    OBVIOUS
  <1>4. q \in Seq(T) /\ Sparse(q, a) /\ q # <<>>
    BY <1>0, <1>3 DEF Boxes
  <1>5. /\ e \in T /\ p \in Seq(T) /\ Members(q) = {e} \cup Members(p) /\ Sparse(p, a)
        /\ e \in a => \A y \in Members(p) : y \notin a
    BY <1>3, <1>4, EventsTail
  <1>6. Boxes(n, b, bx2)
    <2>1. \A j \in Seats(n) : bx2[j] \in Seq(SeatEvent) /\ Sparse(bx2[j], {Eat})
      BY <1>0, <1>2, <1>3, <1>5 DEF Boxes
    <2> QED BY <1>2, <2>1 DEF Boxes
  <1>7. CASE e = x
    <2>1. x \in Members(q) /\ x \notin Members(p)
      BY <1>3, <1>5, <1>7
    <2>2. i \in SeatsServed(n, bx) /\ SeatsServed(n, bx2) = SeatsServed(n, bx) \ {i}
      BY <1>0, <1>2, <1>3, <2>1 DEF SeatsServed
    <2>3. e.sig = "EAT"
      BY <1>3, <1>7 DEF Eat
    <2> QED BY <1>2, <1>3, <1>6, <2>2, <2>3 DEF SeatTook
  <1>8. CASE e # x
    <2>1. e.sig = "TIMEOUT"
      BY <1>3, <1>5, <1>8 DEF Eat, SeatEvent
    <2>2. x \in Members(q) <=> x \in Members(p)
      BY <1>5, <1>8
    <2>3. SeatsServed(n, bx2) = SeatsServed(n, bx)
      BY <1>0, <1>2, <1>3, <2>2 DEF SeatsServed
    <2> QED BY <1>2, <1>3, <1>6, <2>1, <2>3 DEF SeatTook
  <1> QED BY <1>7, <1>8

\* its time event expires;
SeatTimesOut(n, bx, i, bx2) ==
    i \in Seats(n) /\ bx2 = [bx EXCEPT ![i] = Append(@, [sig |-> "TIMEOUT"])]

TimedOut(n, bx, bx2) == bx2[n] = bx[n] /\ SeatsServed(n, bx2) = SeatsServed(n, bx)

LEMMA BoxesTimeout ==
    ASSUME NEW n \in Nat, NEW b, NEW bx, Boxes(n, b, bx), NEW i, NEW bx2, SeatTimesOut(n, bx, i, bx2)
    PROVE  Boxes(n, b, bx2) /\ TimedOut(n, bx, bx2)
  <1>1. n \in 0..n /\ Seats(n) \subseteq 0..n /\ n \notin Seats(n) /\ i # n
    BY DEF Seats, SeatTimesOut
  <1>2. PICK T, a, q, e, x :
            T = SeatEvent /\ a = {x} /\ q = bx[i] /\ e = [sig |-> "TIMEOUT"] /\ x = Eat
    OBVIOUS
  <1>3. /\ bx2 = [k \in 0..n |-> bx2[k]] /\ bx2[n] = bx[n] /\ bx2[i] = Append(q, e)
        /\ \A j \in Seats(n) : j # i => bx2[j] = bx[j]
    BY <1>1, <1>2 DEF Boxes, SeatTimesOut
  <1>4. q \in Seq(T) /\ Sparse(q, a)
    BY <1>2 DEF Boxes, SeatTimesOut
  <1>5. e \in T /\ e # x
    BY <1>2 DEF SeatEvent, Eat
  <1>6. e \notin a
    BY <1>2, <1>5
  <1>7. /\ Append(q, e) \in Seq(T) /\ Members(Append(q, e)) = Members(q) \cup {e}
        /\ Sparse(Append(q, e), a)
    BY <1>4, <1>5, <1>6, EventsAppend
  <1>8. \A j \in Seats(n) : bx2[j] \in Seq(SeatEvent) /\ Sparse(bx2[j], {Eat})
    BY <1>2, <1>3, <1>7 DEF Boxes
  <1>9. \A j \in Seats(n) : Eat \in Members(bx2[j]) <=> Eat \in Members(bx[j])
    <2>1. ASSUME NEW j \in Seats(n), j # i PROVE bx2[j] = bx[j]
      BY <1>3, <2>1
    <2>2. x \in Members(bx2[i]) <=> x \in Members(bx[i])
      BY <1>2, <1>3, <1>5, <1>7
    <2> QED BY <1>2, <2>1, <2>2
  <1> QED BY <1>3, <1>8, <1>9 DEF Boxes, SeatsServed, TimedOut

\* or an event is posted to the table.
PostsTable(n, b, bx, x, bx2) ==
    /\ x \in TableEvent(n, b) /\ (x \notin PhiloEvent(n) \/ bx[n] = <<>>)
    /\ bx2 = [bx EXCEPT ![n] = Append(@, x)]

PostedTable(n, bx, x, bx2) ==
    SeatsServed(n, bx2) = SeatsServed(n, bx) /\ Members(bx2[n]) = Members(bx[n]) \cup {x}

LEMMA BoxesPosted ==
    ASSUME NEW n \in Nat, NEW b, NEW bx, Boxes(n, b, bx), NEW x, NEW bx2, PostsTable(n, b, bx, x, bx2)
    PROVE  Boxes(n, b, bx2) /\ PostedTable(n, bx, x, bx2)
  <1>1. n \in 0..n /\ Seats(n) \subseteq 0..n /\ n \notin Seats(n)
    BY DEF Seats
  <1>2. PICK T, a, q : T = TableEvent(n, b) /\ a = PhiloEvent(n) /\ q = bx[n]
    OBVIOUS
  <1>3. /\ bx2 = [k \in 0..n |-> bx2[k]] /\ bx2[n] = Append(q, x)
        /\ \A j \in Seats(n) : bx2[j] = bx[j]
    BY <1>1, <1>2 DEF Boxes, PostsTable
  <1>4. q \in Seq(T) /\ Sparse(q, a) /\ x \in T
    BY <1>2 DEF Boxes, PostsTable
  <1>5. x \notin a \/ \A y \in Members(q) : y \notin a
    <2>1. CASE bx[n] = <<>>
      <3>1. Members(q) = {}
        BY <1>2, <2>1 DEF Members
      <3> QED BY <3>1
    <2> QED BY <1>2, <2>1 DEF PostsTable
  <1>6. /\ Append(q, x) \in Seq(T) /\ Members(Append(q, x)) = Members(q) \cup {x}
        /\ Sparse(Append(q, x), a)
    BY <1>4, <1>5, EventsAppend
  <1>7. SeatsServed(n, bx2) = SeatsServed(n, bx)
    BY <1>3 DEF SeatsServed
  <1>8. \A j \in Seats(n) : bx2[j] \in Seq(SeatEvent) /\ Sparse(bx2[j], {Eat})
    BY <1>3 DEF Boxes
  <1>9. Boxes(n, b, bx2)
    BY <1>2, <1>3, <1>6, <1>8 DEF Boxes
  <1> QED BY <1>2, <1>3, <1>6, <1>7, <1>9 DEF PostedTable

LEMMA EmptyTable ==
    ASSUME NEW n
    PROVE  Members(<<>>) = {} /\ Asks(n, <<>>) = {} /\ Returns(n, <<>>) = {}
  BY DEF Members, Asks, Returns

LEMMA OneAsk ==
    ASSUME NEW n, NEW i \in Seats(n), NEW q, Members(q) = {[sig |-> "HUNGRY", philo |-> i]}
    PROVE  Asks(n, q) = {i} /\ Returns(n, q) = {}
  BY DEF Asks, Returns

LEMMA OneReturn ==
    ASSUME NEW n, NEW i \in Seats(n), NEW q, Members(q) = {[sig |-> "DONE", philo |-> i]}
    PROVE  Asks(n, q) = {} /\ Returns(n, q) = {i}
  BY DEF Asks, Returns

-----------------------------------------------------------------------------
(* The table hands out forks in a loop. *)

Below == {p \in Nat \X Nat : p[1] < p[2]}

LEMMA BelowWellFounded ==
    IsWellFoundedOn(Below, Nat)
PROOF
  <1>1. Below = OpToRel(<, Nat)
    BY DEF Below, OpToRel
  <1> QED BY <1>1, NatLessThanWellFounded

\* Induction up to n, for a set of numbers.
LEMMA UpTo ==
    ASSUME NEW n \in Nat, NEW S, S \subseteq 0..n, 0 \in S,
           \A k \in 1..n : k - 1 \in S => k \in S
    PROVE  S = 0..n
  <1> DEFINE D == (0..n) \ S
  <1>1. SUFFICES ASSUME D # {} PROVE FALSE
    BY <1>1
  <1>2. D \subseteq Nat
    OBVIOUS
  <1>3. PICK k \in D : \A m \in D : <<m, k>> \notin Below
    <2> HIDE DEF D
    <2> QED BY <1>1, <1>2, BelowWellFounded, WFMin
  <1>4. k \in 1..n /\ k - 1 \in Nat /\ k - 1 \in 0..n /\ k - 1 < k /\ k \in Nat
    BY <1>3
  <1>5. k - 1 \notin S
    BY <1>3, <1>4
  <1>6. <<k - 1, k>> \in Below
    BY <1>4 DEF Below
  <1> QED BY <1>3, <1>4, <1>5, <1>6

\* A loop that goes through a sequence with a function G has a result at every
\* place.
IsLoop(f, V, v0, G, b) ==
    /\ f \in [0..Len(b) -> V] /\ f[0] = v0
    /\ \A i \in 1..Len(b) : f[i] = G[<<f[i - 1], b[i]>>]

LEMMA LoopExists ==
    ASSUME NEW V, NEW B, NEW v0 \in V, NEW G \in [V \X B -> V], NEW b \in Seq(B)
    PROVE  \E f : IsLoop(f, V, v0, G, b)
  <1> DEFINE n == Len(b)
             Loop(f, k) == /\ f \in [0..k -> V] /\ f[0] = v0
                           /\ \A i \in 1..k : f[i] = G[<<f[i - 1], b[i]>>]
             S == {k \in 0..n : \E f : Loop(f, k)}
  <1>1. n \in Nat /\ \A i \in 1..n : b[i] \in B
    BY LenProperties, ElementOfSeq
  <1>2. 0 \in S
    <2>1. PICK f : f = [i \in 0..0 |-> v0]
      OBVIOUS
    <2>2. Loop(f, 0)
      BY <2>1
    <2>3. 0 \in 0..n
      BY <1>1
    <2> HIDE DEF Loop, n
    <2> QED BY <2>2, <2>3
  <1>3. ASSUME NEW k \in 1..n, k - 1 \in S PROVE k \in S
    <2>1. PICK f : Loop(f, k - 1)
      BY <1>3
    <2>2. k \in Nat /\ k \in 0..n /\ k - 1 \in 0..(k - 1) /\ b[k] \in B
      BY <1>1
    <2>3. PICK v : v = G[<<f[k - 1], b[k]>>]
      OBVIOUS
    <2>4. v \in V
      BY <2>1, <2>2, <2>3
    <2>5. PICK g : g = [i \in 0..k |-> IF i = k THEN v ELSE f[i]]
      OBVIOUS
    <2>6. g \in [0..k -> V]
      <3>1. ASSUME NEW i \in 0..k PROVE (IF i = k THEN v ELSE f[i]) \in V
        <4>1. CASE i = k
          BY <4>1, <2>4
        <4>2. CASE i # k
          <5>1. i \in 0..(k - 1)
            BY <4>2, <2>2
          <5> QED BY <4>2, <5>1, <2>1
        <4> QED BY <4>1, <4>2
      <3> QED BY <3>1, <2>5
    <2>7. \A i \in 0..(k - 1) : g[i] = f[i]
      BY <2>2, <2>5
    <2>8. g[0] = v0
      <3>1. 0 \in 0..(k - 1)
        BY <2>2
      <3> QED BY <3>1, <2>1, <2>7
    <2>9. ASSUME NEW i \in 1..k PROVE g[i] = G[<<g[i - 1], b[i]>>]
      <3>1. i - 1 \in 0..(k - 1) /\ i \in 0..k
        BY <2>2
      <3>2. CASE i = k
        BY <3>1, <3>2, <2>3, <2>5, <2>7
      <3>3. CASE i # k
        <4>1. i \in 1..(k - 1) /\ i \in 0..(k - 1)
          BY <2>2, <3>3
        <4> QED BY <3>1, <4>1, <2>1, <2>7
      <3> QED BY <3>2, <3>3
    <2>10. Loop(g, k)
      BY <2>6, <2>8, <2>9
    <2> QED BY <2>2, <2>10
  <1>4. S = 0..n
    <2> HIDE DEF S
    <2>1. S \subseteq 0..n
      BY DEF S
    <2> HIDE DEF n
    <2> QED BY <1>1, <1>2, <1>3, <2>1, UpTo
  <1>5. n \in S
    BY <1>1, <1>4
  <1> QED BY <1>5 DEF IsLoop

\* The host's table in the middle of an event: h hold their forks apart from
\* those that it granted, and what was requested is noted or granted.
TableState(n) == [taken : SUBSET Seats(n), hungry : SUBSET Seats(n), granted : SUBSET Seats(n)]

HostBook(n, h, requested, d) ==
    /\ d \in TableState(n) /\ Forks(n, h \cup d.granted, d.taken)
    /\ d.hungry \cup d.granted = requested /\ d.hungry \cap d.granted = {}

LEMMA HostRecord ==
    ASSUME NEW n, NEW t, NEW hg, NEW gr
    PROVE  LET d == [taken |-> t, hungry |-> hg, granted |-> gr]
           IN  /\ d.taken = t /\ d.hungry = hg /\ d.granted = gr
               /\ (t \subseteq Seats(n) /\ hg \subseteq Seats(n) /\ gr \subseteq Seats(n) => d \in TableState(n))
  BY DEF TableState

LEMMA HostGrants ==
    ASSUME NEW n \in Nat, n >= 2, N = n, NEW i \in Seats(n), NEW h, NEW requested, NEW d,
           HostBook(n, h, requested, d), can_eat(d.taken, i)
    PROVE  HostBook(n, h, requested \cup {i}, grant_forks(d, i))
  <1>1. PICK t, hg, gr, l : t = d.taken /\ hg = d.hungry /\ gr = d.granted /\ l = LeftOf(n, i)
    OBVIOUS
  <1>2. /\ i \notin t /\ l \notin t /\ Forks(n, h \cup gr, t) /\ hg \cup gr = requested
        /\ hg \cap gr = {} /\ t \subseteq Seats(n) /\ hg \subseteq Seats(n) /\ gr \subseteq Seats(n)
    BY <1>1 DEF can_eat, left, LeftOf, HostBook, TableState
  <1>3. PICK h1, t1, gr1, hg1 : /\ h1 = h \cup gr /\ t1 = t \cup {i, l} /\ gr1 = gr \cup {i}
                                /\ hg1 = hg \ {i}
    OBVIOUS
  <1>4. Forks(n, h1 \cup {i}, t1)
    BY <1>1, <1>2, <1>3, ForksTaken
  <1>5. h1 \cup {i} = h \cup gr1
    BY <1>3
  <1>6. t1 \subseteq Seats(n) /\ Forks(n, h \cup gr1, t1)
    BY <1>4, <1>5 DEF Forks
  <1>7. grant_forks(d, i) = [taken |-> t1, hungry |-> hg1, granted |-> gr1]
    BY <1>1, <1>3 DEF grant_forks, take_forks, left, LeftOf
  <1>8. PICK e : e = [taken |-> t1, hungry |-> hg1, granted |-> gr1]
    OBVIOUS
  <1>9. gr1 \subseteq Seats(n) /\ hg1 \subseteq Seats(n)
    BY <1>2, <1>3
  <1>10. e \in TableState(n) /\ e.taken = t1 /\ e.hungry = hg1 /\ e.granted = gr1
    BY <1>6, <1>8, <1>9, HostRecord
  <1>11. hg1 \cup gr1 = requested \cup {i} /\ hg1 \cap gr1 = {}
    BY <1>2, <1>3
  <1> QED BY <1>6, <1>7, <1>8, <1>10, <1>11 DEF HostBook

LEMMA ServeKeeps ==
    ASSUME NEW n \in Nat, n >= 2, N = n, NEW i \in Seats(n), NEW h, NEW requested, NEW d,
           HostBook(n, h, requested, d)
    PROVE  HostBook(n, h, requested, ServeHungry(d, i))
  <1>1. CASE i \in d.hungry /\ can_eat(d.taken, i)
    <2>1. HostBook(n, h, requested \cup {i}, grant_forks(d, i))
      BY <1>1, HostGrants
    <2>2. requested \cup {i} = requested
      BY <1>1 DEF HostBook
    <2> QED BY <1>1, <2>1, <2>2 DEF ServeHungry
  <1>2. CASE ~(i \in d.hungry /\ can_eat(d.taken, i))
    BY <1>2 DEF ServeHungry
  <1> QED BY <1>1, <1>2

LEMMA ServeState ==
    ASSUME NEW n \in Nat, n >= 2, N = n, NEW i \in Seats(n), NEW d \in TableState(n)
    PROVE  ServeHungry(d, i) \in TableState(n)
  <1>1. left(i) \in Seats(n)
    BY Neighbours DEF left, LeftOf
  <1>2. grant_forks(d, i) \in TableState(n)
    BY <1>1 DEF grant_forks, take_forks, TableState
  <1> QED BY <1>2 DEF ServeHungry

\* The states of the table in the loop of ServeInOrder.
ServeLoop(d, list) ==
    CHOOSE f : f = [k \in 0..Len(list) |-> IF k = 0 THEN d ELSE ServeHungry(f[k - 1], list[k])]

LEMMA ServeIsLoop ==
    ASSUME NEW d, NEW list
    PROVE  ServeInOrder(d, list) = ServeLoop(d, list)[Len(list)]
  BY DEF ServeInOrder, ServeLoop

LEMMA ServeSteps ==
    ASSUME NEW n \in Nat, n >= 2, N = n, NEW d \in TableState(n), NEW list \in Seq(Seats(n))
    PROVE  /\ ServeLoop(d, list)[0] = d
           /\ \A k \in 1..Len(list) :
                ServeLoop(d, list)[k] = ServeHungry(ServeLoop(d, list)[k - 1], list[k])
  <1> DEFINE Sol(f) == f = [k \in 0..Len(list) |->
                              IF k = 0 THEN d ELSE ServeHungry(f[k - 1], list[k])]
  <1>1. Len(list) \in Nat /\ \A k \in 1..Len(list) : list[k] \in Seats(n)
    BY LenProperties, ElementOfSeq
  <1>2. PICK V, B : V = TableState(n) /\ B = Seats(n)
    OBVIOUS
  <1>3. PICK G : G = [p \in V \X B |-> ServeHungry(p[1], p[2])]
    OBVIOUS
  <1>4. \A x \in V, y \in B : ServeHungry(x, y) \in V
    BY <1>2, ServeState
  <1>5. G \in [V \X B -> V] /\ \A x \in V, y \in B : G[<<x, y>>] = ServeHungry(x, y)
    BY <1>3, <1>4
  <1>6. d \in V /\ list \in Seq(B)
    BY <1>2
  <1>7. PICK f : IsLoop(f, V, d, G, list)
    BY <1>5, <1>6, LoopExists
  <1>8. f \in [0..Len(list) -> V] /\ f[0] = d
    BY <1>7 DEF IsLoop
  <1>9. ASSUME NEW k \in 1..Len(list) PROVE f[k] = ServeHungry(f[k - 1], list[k])
    <2>1. k - 1 \in 0..Len(list) /\ list[k] \in B
      BY <1>1, <1>2
    <2>2. f[k - 1] \in V
      BY <1>8, <2>1
    <2>3. f[k] = G[<<f[k - 1], list[k]>>]
      BY <1>7 DEF IsLoop
    <2> QED BY <1>5, <2>1, <2>2, <2>3
  <1>10. Sol(f)
    <2>1. ASSUME NEW k \in 0..Len(list)
          PROVE  f[k] = IF k = 0 THEN d ELSE ServeHungry(f[k - 1], list[k])
      <3>1. CASE k = 0
        BY <3>1, <1>8
      <3>2. CASE k # 0
        <4>1. k \in 1..Len(list)
          BY <3>2
        <4> QED BY <3>2, <4>1, <1>9
      <3> QED BY <3>1, <3>2
    <2> QED BY <2>1, <1>8
  <1>11. Sol(ServeLoop(d, list))
    <2>1. ServeLoop(d, list) = CHOOSE g : Sol(g)
      BY DEF ServeLoop
    <2> HIDE DEF Sol
    <2> QED BY <1>10, <2>1
  <1>12. PICK g : g = ServeLoop(d, list)
    OBVIOUS
  <1>13. \A k \in 0..Len(list) : g[k] = IF k = 0 THEN d ELSE ServeHungry(g[k - 1], list[k])
    BY <1>11, <1>12
  <1>14. g[0] = d
    <2>1. 0 \in 0..Len(list)
      BY <1>1
    <2> QED BY <1>13, <2>1
  <1>15. ASSUME NEW k \in 1..Len(list) PROVE g[k] = ServeHungry(g[k - 1], list[k])
    <2>1. k \in 0..Len(list) /\ k # 0
      BY <1>1
    <2> QED BY <1>13, <2>1
  <1> QED BY <1>12, <1>14, <1>15

LEMMA ServeInOrderKeeps ==
    ASSUME NEW n \in Nat, n >= 2, N = n, NEW list \in Seq(Seats(n)), NEW h, NEW requested, NEW d,
           HostBook(n, h, requested, d)
    PROVE  HostBook(n, h, requested, ServeInOrder(d, list))
  <1>1. PICK f, m : f = ServeLoop(d, list) /\ m = Len(list)
    OBVIOUS
  <1>2. m \in Nat /\ \A k \in 1..m : list[k] \in Seats(n)
    BY <1>1, LenProperties, ElementOfSeq
  <1>3. f[0] = d /\ \A k \in 1..m : f[k] = ServeHungry(f[k - 1], list[k])
    <2>1. d \in TableState(n)
      BY DEF HostBook
    <2> QED BY <1>1, <2>1, ServeSteps
  <1> DEFINE S == {k \in 0..m : HostBook(n, h, requested, f[k])}
  <1>4. 0 \in S
    BY <1>2, <1>3
  <1>5. ASSUME NEW k \in 1..m, k - 1 \in S PROVE k \in S
    <2>1. HostBook(n, h, requested, f[k - 1]) /\ list[k] \in Seats(n) /\ k \in 0..m
      BY <1>2, <1>5
    <2>2. PICK x, i : x = f[k - 1] /\ i = list[k]
      OBVIOUS
    <2>3. HostBook(n, h, requested, ServeHungry(x, i))
      BY <2>1, <2>2, ServeKeeps
    <2> QED BY <1>3, <2>1, <2>2, <2>3
  <1>6. S = 0..m
    <2>1. S \subseteq 0..m
      OBVIOUS
    <2> HIDE DEF S
    <2> QED BY <1>2, <1>4, <1>5, <2>1, UpTo
  <1>7. HostBook(n, h, requested, f[m])
    <2>1. m \in 0..m
      BY <1>2
    <2>2. m \in S
      BY <1>6, <2>1
    <2> QED BY <2>2
  <1> QED BY <1>1, <1>7, ServeIsLoop

\* The ESP boards' table in the middle of an event.
QueueState(n) == [taken : SUBSET Seats(n), waiting : Seq(Seats(n)), granted : SUBSET Seats(n)]

EspBook(n, h, requested, d) ==
    /\ d \in QueueState(n) /\ Forks(n, h \cup d.granted, d.taken)
    /\ \A i \in Seats(n) : Sparse(d.waiting, {i})
    /\ Members(d.waiting) \cup d.granted = requested /\ Members(d.waiting) \cap d.granted = {}

LEMMA TryFields ==
    ASSUME NEW n, NEW d \in QueueState(n), NEW i
    PROVE  /\ can_eat(d.taken, i) =>
                try_grant(d, i) = [taken |-> take_forks(d.taken, i), waiting |-> d.waiting,
                                   granted |-> d.granted \cup {i}]
           /\ ~can_eat(d.taken, i) =>
                try_grant(d, i) = [taken |-> d.taken, waiting |-> Append(d.waiting, i),
                                   granted |-> d.granted]
  <1>1. PICK c : c = can_eat(d.taken, i)
    OBVIOUS
  <1>2. PICK t, w, g : t = take_forks(d.taken, i) /\ w = Append(d.waiting, i) /\ g = d.granted \cup {i}
    OBVIOUS
  <1>3. ASSUME c PROVE try_grant(d, i) = [taken |-> t, waiting |-> d.waiting, granted |-> g]
    BY <1>1, <1>2, <1>3 DEF try_grant, QueueState
  <1>4. ASSUME ~c PROVE try_grant(d, i) = [taken |-> d.taken, waiting |-> w, granted |-> d.granted]
    BY <1>1, <1>2, <1>4 DEF try_grant, QueueState
  <1> QED BY <1>1, <1>2, <1>3, <1>4

LEMMA TryState ==
    ASSUME NEW n \in Nat, n >= 2, N = n, NEW i \in Seats(n), NEW d \in QueueState(n)
    PROVE  try_grant(d, i) \in QueueState(n)
  <1>1. left(i) \in Seats(n)
    BY Neighbours DEF left, LeftOf
  <1>2. /\ d.taken \subseteq Seats(n) /\ d.granted \subseteq Seats(n) /\ d.waiting \in Seq(Seats(n))
    BY DEF QueueState
  <1>3. take_forks(d.taken, i) \subseteq Seats(n) /\ d.granted \cup {i} \subseteq Seats(n)
    BY <1>1, <1>2 DEF take_forks
  <1>4. Append(d.waiting, i) \in Seq(Seats(n))
    <2>1. PICK T, w : T = Seats(n) /\ w = d.waiting
      OBVIOUS
    <2> QED BY <1>2, <2>1, AppendProperties
  <1>5. CASE can_eat(d.taken, i)
    BY <1>2, <1>3, <1>5, TryFields DEF QueueState
  <1>6. CASE ~can_eat(d.taken, i)
    BY <1>2, <1>4, <1>6, TryFields DEF QueueState
  <1> QED BY <1>5, <1>6

LEMMA TryKeeps ==
    ASSUME NEW n \in Nat, n >= 2, N = n, NEW i \in Seats(n), NEW h, NEW requested, NEW d,
           EspBook(n, h, requested, d), i \notin requested
    PROVE  EspBook(n, h, requested \cup {i}, try_grant(d, i))
  <1>1. PICK t, w, gr, l, e : /\ t = d.taken /\ w = d.waiting /\ gr = d.granted
                              /\ l = LeftOf(n, i) /\ e = try_grant(d, i)
    OBVIOUS
  <1>2. /\ Forks(n, h \cup gr, t) /\ Members(w) \cup gr = requested /\ Members(w) \cap gr = {}
        /\ t \subseteq Seats(n) /\ w \in Seq(Seats(n)) /\ gr \subseteq Seats(n)
        /\ d \in QueueState(n) /\ \A j \in Seats(n) : Sparse(w, {j})
    BY <1>1 DEF EspBook, QueueState
  <1>3. e \in QueueState(n)
    BY <1>1, <1>2, TryState
  <1>4. CASE can_eat(t, i)
    <2>1. i \notin t /\ l \notin t
      BY <1>1, <1>4 DEF can_eat, left, LeftOf
    <2>2. PICK h1, t1, gr1 : h1 = h \cup gr /\ t1 = t \cup {i, l} /\ gr1 = gr \cup {i}
      OBVIOUS
    <2>3. e.taken = t1 /\ e.waiting = w /\ e.granted = gr1
      BY <1>1, <1>2, <1>4, <2>2, TryFields DEF take_forks, left, LeftOf
    <2>4. Forks(n, h1 \cup {i}, t1)
      BY <1>1, <1>2, <2>1, <2>2, ForksTaken
    <2>5. h1 \cup {i} = h \cup gr1
      BY <2>2
    <2>6. Forks(n, h \cup gr1, t1)
      BY <2>4, <2>5
    <2>7. Members(w) \cup gr1 = requested \cup {i} /\ Members(w) \cap gr1 = {}
      BY <1>2, <2>2
    <2> QED BY <1>1, <1>2, <1>3, <2>3, <2>6, <2>7 DEF EspBook
  <1>5. CASE ~can_eat(t, i)
    <2>1. PICK w1, T : w1 = Append(w, i) /\ T = Seats(n)
      OBVIOUS
    <2>2. e.taken = t /\ e.waiting = w1 /\ e.granted = gr
      BY <1>1, <1>2, <1>5, <2>1, TryFields
    <2>3. w \in Seq(T) /\ i \in T
      BY <1>2, <2>1
    <2>4. ASSUME NEW j \in Seats(n) PROVE Members(w1) = Members(w) \cup {i} /\ Sparse(w1, {j})
      <3>1. PICK a : a = {j}
        OBVIOUS
      <3>2. i \notin a \/ \A y \in Members(w) : y \notin a
        BY <1>2, <3>1
      <3>3. Sparse(w, a)
        BY <1>2, <3>1
      <3> QED BY <2>1, <2>3, <3>1, <3>2, <3>3, EventsAppend
    <2>5. Members(w1) \cup gr = requested \cup {i} /\ Members(w1) \cap gr = {}
      BY <1>2, <2>4
    <2> QED BY <1>1, <1>2, <1>3, <2>2, <2>4, <2>5 DEF EspBook
  <1> QED BY <1>4, <1>5

\* The states of the table in the loop of TryInOrder.
TryLoop(d, list) ==
    CHOOSE f : f = [k \in 0..Len(list) |-> IF k = 0 THEN d ELSE try_grant(f[k - 1], list[k])]

LEMMA TryIsLoop ==
    ASSUME NEW d, NEW list
    PROVE  TryInOrder(d, list) = TryLoop(d, list)[Len(list)]
  BY DEF TryInOrder, TryLoop

LEMMA TrySteps ==
    ASSUME NEW n \in Nat, n >= 2, N = n, NEW d \in QueueState(n), NEW list \in Seq(Seats(n))
    PROVE  /\ TryLoop(d, list)[0] = d
           /\ \A k \in 1..Len(list) :
                TryLoop(d, list)[k] = try_grant(TryLoop(d, list)[k - 1], list[k])
  <1> DEFINE Sol(f) == f = [k \in 0..Len(list) |->
                              IF k = 0 THEN d ELSE try_grant(f[k - 1], list[k])]
  <1>1. Len(list) \in Nat /\ \A k \in 1..Len(list) : list[k] \in Seats(n)
    BY LenProperties, ElementOfSeq
  <1>2. PICK V, B : V = QueueState(n) /\ B = Seats(n)
    OBVIOUS
  <1>3. PICK G : G = [p \in V \X B |-> try_grant(p[1], p[2])]
    OBVIOUS
  <1>4. \A x \in V, y \in B : try_grant(x, y) \in V
    BY <1>2, TryState
  <1>5. G \in [V \X B -> V] /\ \A x \in V, y \in B : G[<<x, y>>] = try_grant(x, y)
    BY <1>3, <1>4
  <1>6. d \in V /\ list \in Seq(B)
    BY <1>2
  <1>7. PICK f : IsLoop(f, V, d, G, list)
    BY <1>5, <1>6, LoopExists
  <1>8. f \in [0..Len(list) -> V] /\ f[0] = d
    BY <1>7 DEF IsLoop
  <1>9. ASSUME NEW k \in 1..Len(list) PROVE f[k] = try_grant(f[k - 1], list[k])
    <2>1. k - 1 \in 0..Len(list) /\ list[k] \in B
      BY <1>1, <1>2
    <2>2. f[k - 1] \in V
      BY <1>8, <2>1
    <2>3. f[k] = G[<<f[k - 1], list[k]>>]
      BY <1>7 DEF IsLoop
    <2> QED BY <1>5, <2>1, <2>2, <2>3
  <1>10. Sol(f)
    <2>1. ASSUME NEW k \in 0..Len(list)
          PROVE  f[k] = IF k = 0 THEN d ELSE try_grant(f[k - 1], list[k])
      <3>1. CASE k = 0
        BY <3>1, <1>8
      <3>2. CASE k # 0
        <4>1. k \in 1..Len(list)
          BY <3>2
        <4> QED BY <3>2, <4>1, <1>9
      <3> QED BY <3>1, <3>2
    <2> QED BY <2>1, <1>8
  <1>11. Sol(TryLoop(d, list))
    <2>1. TryLoop(d, list) = CHOOSE g : Sol(g)
      BY DEF TryLoop
    <2> HIDE DEF Sol
    <2> QED BY <1>10, <2>1
  <1>12. PICK g : g = TryLoop(d, list)
    OBVIOUS
  <1>13. \A k \in 0..Len(list) : g[k] = IF k = 0 THEN d ELSE try_grant(g[k - 1], list[k])
    BY <1>11, <1>12
  <1>14. g[0] = d
    <2>1. 0 \in 0..Len(list)
      BY <1>1
    <2> QED BY <1>13, <2>1
  <1>15. ASSUME NEW k \in 1..Len(list) PROVE g[k] = try_grant(g[k - 1], list[k])
    <2>1. k \in 0..Len(list) /\ k # 0
      BY <1>1
    <2> QED BY <1>13, <2>1
  <1> QED BY <1>12, <1>14, <1>15

LEMMA TryInOrderKeeps ==
    ASSUME NEW n \in Nat, n >= 2, N = n, NEW list \in Seq(Seats(n)), NEW h, NEW d,
           EspBook(n, h, {}, d), \A i \in Seats(n) : Sparse(list, {i})
    PROVE  EspBook(n, h, Members(list), TryInOrder(d, list))
  <1>1. PICK f, m : f = TryLoop(d, list) /\ m = Len(list)
    OBVIOUS
  <1>2. m \in Nat /\ \A k \in 1..m : list[k] \in Seats(n)
    BY <1>1, LenProperties, ElementOfSeq
  <1>3. f[0] = d /\ \A k \in 1..m : f[k] = try_grant(f[k - 1], list[k])
    <2>1. d \in QueueState(n)
      BY DEF EspBook
    <2> QED BY <1>1, <2>1, TrySteps
  <1> DEFINE Tried(k) == {list[j] : j \in 1..k}
             S == {k \in 0..m : EspBook(n, h, Tried(k), f[k])}
  <1>4. 0 \in S
    <2>1. Tried(0) = {}
      OBVIOUS
    <2>2. 0 \in 0..m
      BY <1>2
    <2> HIDE DEF Tried
    <2> QED BY <1>3, <2>1, <2>2
  <1>5. ASSUME NEW k \in 1..m, k - 1 \in S PROVE k \in S
    <2>1. EspBook(n, h, Tried(k - 1), f[k - 1]) /\ list[k] \in Seats(n) /\ k \in 0..m /\ k \in Nat
      BY <1>2, <1>5
    <2>2. PICK x, i, r : x = f[k - 1] /\ i = list[k] /\ r = Tried(k - 1)
      OBVIOUS
    <2>3. i \notin r
      <3>1. SUFFICES ASSUME NEW j \in 1..(k - 1), list[j] = i PROVE FALSE
        BY <2>2
      <3>2. j \in 1..m /\ k \in 1..m /\ j # k
        BY <1>2, <2>1
      <3>3. Sparse(list, {i})
        BY <2>1, <2>2
      <3> QED BY <1>1, <2>2, <3>1, <3>2, <3>3 DEF Sparse
    <2>4. EspBook(n, h, r \cup {i}, try_grant(x, i))
      BY <2>1, <2>2, <2>3, TryKeeps
    <2>5. r \cup {i} = Tried(k)
      <3>1. 1..k = (1..(k - 1)) \cup {k}
        BY <2>1
      <3> QED BY <2>2, <3>1
    <2> HIDE DEF Tried
    <2> QED BY <1>3, <2>1, <2>2, <2>4, <2>5
  <1>6. S = 0..m
    <2>1. S \subseteq 0..m
      OBVIOUS
    <2> HIDE DEF S
    <2> QED BY <1>2, <1>4, <1>5, <2>1, UpTo
  <1>7. EspBook(n, h, Tried(m), f[m])
    <2>1. m \in 0..m
      BY <1>2
    <2>2. m \in S
      BY <1>6, <2>1
    <2> QED BY <2>2
  <1>8. Tried(m) = Members(list)
    BY <1>1 DEF Members
  <1> HIDE DEF Tried
  <1> QED BY <1>1, <1>7, <1>8, TryIsLoop

-----------------------------------------------------------------------------
(* The steps. *)

Holding(n, ph, bx) == InState(n, ph, "eating") \cup SeatsServed(n, bx) \cup Returns(n, bx[n])

\* What the table's next event takes from its queue.
Takes(n, q, a, r) ==
    /\ a \subseteq Asks(n, q) /\ r \subseteq Returns(n, q)
    /\ Asks(n, Tail(q)) = Asks(n, q) \ a /\ Returns(n, Tail(q)) = Returns(n, q) \ r

\* The table takes its next event, a request (a) or a return (r), and grants.
TableTurn(n, b, ph, hg, wt, bx, a, r, hg2, wt2, granted, tk2, bx2) ==
    /\ bx[n] # <<>> /\ Takes(n, bx[n], a, r) /\ Notes(n, b, hg2, wt2)
    /\ (hg2 \cup Members(wt2)) \cap granted = {}
    /\ (hg2 \cup Members(wt2)) \cup granted = (hg \cup Members(wt)) \cup a
    /\ Forks(n, (Holding(n, ph, bx) \ r) \cup granted, tk2)
    /\ bx2 = Granted([bx EXCEPT ![n] = Tail(@)], granted)

LEMMA TableStep ==
    ASSUME NEW n \in Nat, NEW b, NEW ph, NEW tk, NEW hg, NEW wt, NEW bx,
           Books(n, b, ph, tk, hg, wt, bx),
           NEW a, NEW r, NEW hg2, NEW wt2, NEW granted, NEW tk2, NEW bx2,
           TableTurn(n, b, ph, hg, wt, bx, a, r, hg2, wt2, granted, tk2, bx2)
    PROVE  Books(n, b, ph, tk2, hg2, wt2, bx2)
  <1>1. PICK asking, noted, served, returning, noted2 :
            /\ asking = Asks(n, bx[n]) /\ noted = hg \cup Members(wt)
            /\ served = SeatsServed(n, bx) /\ returning = Returns(n, bx[n])
            /\ noted2 = hg2 \cup Members(wt2)
    OBVIOUS
  <1>2. Ledger(n, ph, tk, asking, noted, served, returning) /\ Boxes(n, b, bx)
    BY <1>1 DEF Books
  <1>3. Settles(n, ph, asking, noted, served, returning, a, r, granted, noted2, tk2)
    BY <1>1 DEF TableTurn, Settles, Takes, Holding
  <1>4. /\ Ledger(n, ph, tk2, asking \ a, noted2, served \cup granted, returning \ r)
        /\ granted \subseteq Seats(n) /\ granted \cap served = {}
    BY <1>2, <1>3, LedgerTable
  <1>5. HandsOut(n, bx, granted, bx2)
    BY <1>1, <1>4 DEF HandsOut, TableTurn
  <1>6. /\ Boxes(n, b, bx2) /\ SeatsServed(n, bx2) = SeatsServed(n, bx) \cup granted
        /\ bx2[n] = Tail(bx[n])
    BY <1>2, <1>5, BoxesGranted
  <1>7. /\ Asks(n, bx2[n]) = asking \ a /\ Returns(n, bx2[n]) = returning \ r
        /\ SeatsServed(n, bx2) = served \cup granted
    BY <1>1, <1>6 DEF TableTurn, Takes
  <1>8. Ledger(n, ph, tk2, Asks(n, bx2[n]), hg2 \cup Members(wt2), SeatsServed(n, bx2), Returns(n, bx2[n]))
    BY <1>1, <1>4, <1>7
  <1>9. ph \in [Seats(n) -> PhiloState] /\ Notes(n, b, hg2, wt2)
    BY DEF Books, TableTurn
  <1> QED BY <1>6, <1>8, <1>9 DEF Books

LEMMA HostStep ==
    ASSUME NEW n \in Nat, NEW ph, NEW tk, NEW hg, NEW wt, NEW bx,
           Books(n, "host", ph, tk, hg, wt, bx), bx[n] # <<>>, NEW a, NEW r, Takes(n, bx[n], a, r),
           NEW d, HostBook(n, Holding(n, ph, bx) \ r, hg \cup a, d)
    PROVE  Books(n, "host", ph, d.taken, d.hungry, wt,
                 Granted([bx EXCEPT ![n] = Tail(@)], d.granted))
  <1>1. PICK hg2, gr, tk2, b, bx2 :
            /\ hg2 = d.hungry /\ gr = d.granted /\ tk2 = d.taken /\ b = "host"
            /\ bx2 = Granted([bx EXCEPT ![n] = Tail(@)], gr)
    OBVIOUS
  <1>2. Notes(n, b, hg, wt) /\ wt = <<>>
    BY <1>1 DEF Books, Notes
  <1>3. Members(wt) = {}
    BY <1>2, EmptyTable
  <1>4. /\ hg2 \subseteq Seats(n) /\ hg2 \cup gr = hg \cup a /\ hg2 \cap gr = {}
        /\ Forks(n, (Holding(n, ph, bx) \ r) \cup gr, tk2)
    BY <1>1 DEF HostBook, TableState
  <1>5. Notes(n, b, hg2, wt)
    BY <1>1, <1>2, <1>4 DEF Notes
  <1>6. /\ (hg2 \cup Members(wt)) \cap gr = {}
        /\ (hg2 \cup Members(wt)) \cup gr = (hg \cup Members(wt)) \cup a
    BY <1>3, <1>4
  <1>7. TableTurn(n, b, ph, hg, wt, bx, a, r, hg2, wt, gr, tk2, bx2)
    BY <1>1, <1>4, <1>5, <1>6 DEF TableTurn
  <1>8. Books(n, b, ph, tk2, hg2, wt, bx2)
    BY <1>1, <1>7, TableStep
  <1> QED BY <1>1, <1>8

LEMMA EspStep ==
    ASSUME NEW n \in Nat, NEW ph, NEW tk, NEW hg, NEW wt, NEW bx,
           Books(n, "esp", ph, tk, hg, wt, bx), bx[n] # <<>>, NEW a, NEW r, Takes(n, bx[n], a, r),
           NEW d, EspBook(n, Holding(n, ph, bx) \ r, Members(wt) \cup a, d)
    PROVE  Books(n, "esp", ph, d.taken, hg, d.waiting,
                 Granted([bx EXCEPT ![n] = Tail(@)], d.granted))
  <1>1. PICK wt2, gr, tk2, b, bx2 :
            /\ wt2 = d.waiting /\ gr = d.granted /\ tk2 = d.taken /\ b = "esp"
            /\ bx2 = Granted([bx EXCEPT ![n] = Tail(@)], gr)
    OBVIOUS
  <1>2. Notes(n, b, hg, wt) /\ hg = {}
    BY <1>1 DEF Books, Notes
  <1>3. /\ wt2 \in Seq(Seats(n)) /\ Members(wt2) \cup gr = Members(wt) \cup a /\ Members(wt2) \cap gr = {}
        /\ Forks(n, (Holding(n, ph, bx) \ r) \cup gr, tk2) /\ \A i \in Seats(n) : Sparse(wt2, {i})
    BY <1>1 DEF EspBook, QueueState
  <1>4. Notes(n, b, hg, wt2)
    BY <1>1, <1>2, <1>3 DEF Notes
  <1>5. /\ (hg \cup Members(wt2)) \cap gr = {}
        /\ (hg \cup Members(wt2)) \cup gr = (hg \cup Members(wt)) \cup a
    BY <1>2, <1>3
  <1>6. TableTurn(n, b, ph, hg, wt, bx, a, r, hg, wt2, gr, tk2, bx2)
    BY <1>1, <1>3, <1>4, <1>5 DEF TableTurn
  <1>7. Books(n, b, ph, tk2, hg, wt2, bx2)
    BY <1>1, <1>6, TableStep
  <1> QED BY <1>1, <1>7

TakesNext(n, b, q, e) ==
    \/ b = "host" /\ e.sig \in {"PAUSE", "SERVE"} /\ Takes(n, q, {}, {})
    \/ e.sig = "HUNGRY" /\ e.philo \in Asks(n, q) /\ Takes(n, q, {e.philo}, {})
    \/ e.sig = "DONE" /\ e.philo \in Returns(n, q) /\ Takes(n, q, {}, {e.philo})

LEMMA HeadTakes ==
    ASSUME NEW n \in Nat, NEW b, NEW bx, Boxes(n, b, bx), bx[n] # <<>>, NEW e, e = Head(bx[n])
    PROVE  TakesNext(n, b, bx[n], e)
  <1>1. PICK q, p : q = bx[n] /\ p = Tail(q)
    OBVIOUS
  <1>2. NextIs(n, b, q, e, p)
    BY <1>1 DEF Boxes, NextIs
  <1>3. \/ /\ b = "host" /\ e.sig \in {"PAUSE", "SERVE"}
           /\ Asks(n, p) = Asks(n, q) /\ Returns(n, p) = Returns(n, q)
        \/ /\ e.sig = "HUNGRY" /\ e.philo \in Asks(n, q)
           /\ Asks(n, p) = Asks(n, q) \ {e.philo} /\ Returns(n, p) = Returns(n, q)
        \/ /\ e.sig = "DONE" /\ e.philo \in Returns(n, q)
           /\ Asks(n, p) = Asks(n, q) /\ Returns(n, p) = Returns(n, q) \ {e.philo}
    BY <1>2, TableHead
  <1> QED BY <1>1, <1>3 DEF Takes, TakesNext

\* The kernel runs the ready active object with the highest index.
LEMMA HighestReady ==
    ASSUME NEW n \in Nat, DOMAIN inbox = 0..n, Ready # {}
    PROVE  /\ NextAo \in 0..n /\ inbox[NextAo] # <<>>
           /\ NextAo # n => inbox[n] = <<>>
  <1>1. Ready \subseteq 0..n
    BY DEF Ready
  <1>2. PICK D : D = {n - a : a \in Ready}
    OBVIOUS
  <1>3. D \subseteq Nat /\ D # {}
    <2>1. \A a \in Ready : n - a \in Nat
      BY <1>1
    <2>2. PICK a : a \in Ready
      OBVIOUS
    <2>3. n - a \in D
      BY <1>2, <2>2
    <2> QED BY <1>2, <2>1, <2>3
  <1>4. PICK x \in D : \A y \in D : <<y, x>> \notin Below
    BY <1>3, BelowWellFounded, WFMin
  <1>5. PICK a \in Ready : x = n - a
    BY <1>2, <1>4
  <1>6. ASSUME NEW c \in Ready PROVE c <= a
    <2>1. n - c \in D /\ n - c \in Nat /\ n - a \in Nat /\ c \in Nat /\ a \in Nat
      BY <1>1, <1>2
    <2>2. <<n - c, n - a>> \notin Below
      BY <1>4, <1>5, <2>1
    <2>3. ~(n - c < n - a)
      BY <2>1, <2>2 DEF Below
    <2> QED BY <2>1, <2>3
  <1>7. NextAo \in Ready /\ \A c \in Ready : c <= NextAo
    BY <1>6 DEF NextAo
  <1>8. ASSUME NextAo # n, inbox[n] # <<>> PROVE FALSE
    <2>1. n \in Ready
      BY <1>8 DEF Ready
    <2>2. n <= NextAo /\ NextAo \in 0..n
      BY <1>1, <1>7, <2>1
    <2> QED BY <1>8, <2>2
  <1> QED BY <1>1, <1>7, <1>8 DEF Ready

LEMMA SeatCount ==
    ASSUME NEW n \in Nat, n >= 2, DOMAIN philo = Seats(n)
    PROVE  N = n
  <1>1. Cardinality(0..(n - 1)) = IF 0 > n - 1 THEN 0 ELSE (n - 1) - 0 + 1
    BY FS_Interval
  <1> QED BY <1>1 DEF N, Philos, Seats

\* The table's books while it has granted nothing.
LEMMA HostStarts ==
    ASSUME NEW n \in Nat, build = "host", Books(n, build, philo, taken, hungry, waiting, inbox)
    PROVE  /\ HostBook(n, Holding(n, philo, inbox), hungry, TableData)
           /\ Forks(n, Holding(n, philo, inbox), taken) /\ hungry \subseteq Seats(n)
  <1>1. PICK h : h = Holding(n, philo, inbox)
    OBVIOUS
  <1>2. Forks(n, h, taken) /\ hungry \subseteq Seats(n)
    BY <1>1 DEF Books, Ledger, Notes, Holding
  <1>3. taken \subseteq Seats(n) /\ h \cup {} = h
    BY <1>2 DEF Forks
  <1>4. PICK d : d = [taken |-> taken, hungry |-> hungry, granted |-> {}]
    OBVIOUS
  <1>5. d \in TableState(n) /\ d.taken = taken /\ d.hungry = hungry /\ d.granted = {}
    BY <1>2, <1>3, <1>4 DEF TableState
  <1>6. HostBook(n, h, hungry, d)
    BY <1>2, <1>3, <1>5 DEF HostBook
  <1> QED BY <1>1, <1>2, <1>4, <1>6 DEF TableData

LEMMA HostNotes ==
    ASSUME NEW n \in Nat, n >= 2, N = n, build = "host",
           Books(n, build, philo, taken, hungry, waiting, inbox), NEW i \in Seats(n)
    PROVE  HostBook(n, Holding(n, philo, inbox), hungry \cup {i}, [TableData EXCEPT !.hungry = @ \cup {i}])
  <1>1. PICK h, hg, d : /\ h = Holding(n, philo, inbox) /\ hg = hungry \cup {i}
                        /\ d = [taken |-> taken, hungry |-> hg, granted |-> {}]
    OBVIOUS
  <1>2. [TableData EXCEPT !.hungry = @ \cup {i}] = d
    BY <1>1 DEF TableData
  <1>3. Forks(n, h, taken) /\ hungry \subseteq Seats(n)
    BY <1>1, HostStarts
  <1>4. taken \subseteq Seats(n) /\ hg \subseteq Seats(n) /\ h \cup {} = h
    BY <1>1, <1>3 DEF Forks
  <1>5. d \in TableState(n) /\ d.taken = taken /\ d.hungry = hg /\ d.granted = {}
    BY <1>1, <1>4 DEF TableState
  <1>6. HostBook(n, h, hg, d)
    BY <1>3, <1>4, <1>5 DEF HostBook
  <1> QED BY <1>1, <1>2, <1>6

LEMMA HostHungry ==
    ASSUME NEW n \in Nat, n >= 2, N = n, build = "host",
           Books(n, build, philo, taken, hungry, waiting, inbox), NEW i \in Seats(n)
    PROVE  HostBook(n, Holding(n, philo, inbox), hungry \cup {i}, handle_hungry(i))
  <1>1. PICK h : h = Holding(n, philo, inbox)
    OBVIOUS
  <1>2. HostBook(n, h, hungry, TableData) /\ TableData.taken = taken
    BY <1>1, HostStarts DEF TableData
  <1>3. CASE can_eat(taken, i)
    <2>1. PICK d : d = TableData
      OBVIOUS
    <2>2. HostBook(n, h, hungry \cup {i}, grant_forks(d, i))
      BY <1>2, <1>3, <2>1, HostGrants
    <2> QED BY <1>1, <1>3, <2>1, <2>2 DEF handle_hungry
  <1>4. CASE ~can_eat(taken, i)
    <2>1. handle_hungry(i) = [TableData EXCEPT !.hungry = @ \cup {i}]
      BY <1>4 DEF handle_hungry
    <2> QED BY <2>1, HostNotes
  <1> QED BY <1>3, <1>4

LEMMA HostReleases ==
    ASSUME NEW n \in Nat, n >= 2, N = n, build = "host",
           Books(n, build, philo, taken, hungry, waiting, inbox), NEW i \in Holding(n, philo, inbox)
    PROVE  HostBook(n, Holding(n, philo, inbox) \ {i}, hungry,
                    [TableData EXCEPT !.taken = release_forks(@, i)])
  <1>1. PICK h, t, d : /\ h = Holding(n, philo, inbox) /\ t = taken \ {i, LeftOf(n, i)}
                       /\ d = [taken |-> t, hungry |-> hungry, granted |-> {}]
    OBVIOUS
  <1>2. [TableData EXCEPT !.taken = release_forks(@, i)] = d
    <2>1. release_forks(taken, i) = t
      BY <1>1 DEF release_forks, left, LeftOf
    <2>2. [TableData EXCEPT !.taken = release_forks(@, i)]
            = [taken |-> release_forks(taken, i), hungry |-> hungry, granted |-> {}]
      BY DEF TableData
    <2> QED BY <1>1, <2>1, <2>2
  <1>3. Forks(n, h, taken) /\ hungry \subseteq Seats(n)
    BY <1>1, HostStarts
  <1>4. PICK h1 : h1 = h \ {i}
    OBVIOUS
  <1>5. Forks(n, h1, t)
    BY <1>1, <1>3, <1>4, ForksReleased
  <1>6. t \subseteq Seats(n) /\ h1 \cup {} = h1
    BY <1>5 DEF Forks
  <1>7. d \in TableState(n) /\ d.taken = t /\ d.hungry = hungry /\ d.granted = {}
    BY <1>1, <1>3, <1>6 DEF TableState
  <1>8. HostBook(n, h1, hungry, d)
    BY <1>5, <1>6, <1>7 DEF HostBook
  <1> QED BY <1>1, <1>2, <1>4, <1>8

LEMMA HostDone ==
    ASSUME NEW n \in Nat, n >= 2, N = n, build = "host",
           Books(n, build, philo, taken, hungry, waiting, inbox), NEW i \in Holding(n, philo, inbox)
    PROVE  /\ HostBook(n, Holding(n, philo, inbox) \ {i}, hungry, handle_paused_done(i))
           /\ HostBook(n, Holding(n, philo, inbox) \ {i}, hungry, handle_done(i))
  <1>1. PICK h, d : /\ h = Holding(n, philo, inbox) \ {i}
                    /\ d = [TableData EXCEPT !.taken = release_forks(@, i)]
    OBVIOUS
  <1>2. HostBook(n, h, hungry, d)
    BY <1>1, HostReleases
  <1>3. i \in Seats(n)
    BY HostStarts DEF Forks
  <1>4. PICK l, r : l = left(i) /\ r = right(i)
    OBVIOUS
  <1>5. l \in Seats(n) /\ r \in Seats(n)
    BY <1>3, <1>4, Neighbours DEF left, right, LeftOf, RightOf
  <1>6. <<r, l>> \in Seq(Seats(n))
    BY <1>5
  <1>7. PICK list : list = <<r, l>>
    OBVIOUS
  <1>8. HostBook(n, h, hungry, ServeInOrder(d, list))
    BY <1>2, <1>6, <1>7, ServeInOrderKeeps
  <1>9. handle_done(i) = ServeInOrder(d, list) /\ handle_paused_done(i) = d
    BY <1>1, <1>4, <1>7 DEF handle_done, handle_paused_done
  <1> QED BY <1>1, <1>2, <1>8, <1>9

LEMMA HostResumes ==
    ASSUME NEW n \in Nat, n >= 2, N = n, build = "host",
           Books(n, build, philo, taken, hungry, waiting, inbox)
    PROVE  HostBook(n, Holding(n, philo, inbox), hungry, serving_entry)
  <1>1. PICK h, d, list : /\ h = Holding(n, philo, inbox) /\ d = TableData
                          /\ list = [k \in 1..n |-> k - 1]
    OBVIOUS
  <1>2. \A k \in 1..n : k - 1 \in Seats(n)
    BY DEF Seats
  <1>3. list \in Seq(Seats(n))
    BY <1>1, <1>2, IsASeq
  <1>4. HostBook(n, h, hungry, d)
    BY <1>1, HostStarts
  <1>5. HostBook(n, h, hungry, ServeInOrder(d, list))
    BY <1>3, <1>4, ServeInOrderKeeps
  <1> QED BY <1>1, <1>5 DEF serving_entry

LEMMA EspServes ==
    ASSUME NEW n \in Nat, n >= 2, N = n, build = "esp",
           Books(n, build, philo, taken, hungry, waiting, inbox), NEW i \in Seats(n)
    PROVE  /\ i \notin Members(waiting) =>
                EspBook(n, Holding(n, philo, inbox), Members(waiting) \cup {i}, table_serving("HUNGRY", i))
           /\ i \in Holding(n, philo, inbox) =>
                EspBook(n, Holding(n, philo, inbox) \ {i}, Members(waiting), table_serving("DONE", i))
  <1>1. PICK h, w, t, l, d, req :
            /\ h = Holding(n, philo, inbox) /\ w = waiting /\ t = taken /\ l = LeftOf(n, i)
            /\ d = [taken |-> t, waiting |-> w, granted |-> {}] /\ req = Members(w)
    OBVIOUS
  <1>2. Forks(n, h, t) /\ w \in Seq(Seats(n)) /\ \A j \in Seats(n) : Sparse(w, {j})
    BY <1>1 DEF Books, Ledger, Notes, Holding
  <1>3. t \subseteq Seats(n) /\ h \cup {} = h
    BY <1>2 DEF Forks
  <1>4. ASSUME i \notin req PROVE EspBook(n, h, req \cup {i}, table_serving("HUNGRY", i))
    <2>1. d \in QueueState(n) /\ d.taken = t /\ d.waiting = w /\ d.granted = {}
      BY <1>1, <1>2, <1>3 DEF QueueState
    <2>2. EspBook(n, h, req, d)
      BY <1>1, <1>2, <1>3, <2>1 DEF EspBook
    <2>3. EspBook(n, h, req \cup {i}, try_grant(d, i))
      BY <1>4, <2>2, TryKeeps
    <2>4. table_serving("HUNGRY", i) = try_grant(d, i)
      BY <1>1 DEF table_serving
    <2> QED BY <2>3, <2>4
  <1>5. ASSUME i \in h PROVE EspBook(n, h \ {i}, req, table_serving("DONE", i))
    <2>1. PICK t1, h1, d1 : /\ t1 = t \ {i, l} /\ h1 = h \ {i}
                            /\ d1 = [taken |-> t1, waiting |-> <<>>, granted |-> {}]
      OBVIOUS
    <2>2. Forks(n, h1, t1)
      BY <1>1, <1>2, <1>5, <2>1, ForksReleased
    <2>3. t1 \subseteq Seats(n) /\ h1 \cup {} = h1 /\ <<>> \in Seq(Seats(n)) /\ Members(<<>>) = {}
      BY <1>3, <2>1, EmptyTable
    <2>4. d1 \in QueueState(n) /\ d1.taken = t1 /\ d1.waiting = <<>> /\ d1.granted = {}
      BY <2>1, <2>3 DEF QueueState
    <2>5. \A j \in Seats(n) : Sparse(<<>>, {j})
      BY DEF Sparse
    <2>6. EspBook(n, h1, {}, d1)
      BY <2>2, <2>3, <2>4, <2>5 DEF EspBook
    <2>7. EspBook(n, h1, req, TryInOrder(d1, w))
      BY <1>1, <1>2, <2>6, TryInOrderKeeps
    <2>8. release_forks(t, i) = t1
      BY <1>1, <2>1 DEF release_forks, left, LeftOf
    <2>9. table_serving("DONE", i) = TryInOrder(d1, w)
      BY <1>1, <2>1, <2>8 DEF table_serving
    <2> QED BY <2>1, <2>7, <2>9
  <1> QED BY <1>1, <1>4, <1>5

\* The host's table, at the books d: SetTable leaves them.
LEMMA HostSets ==
    ASSUME NEW n \in Nat, N = n, build = "host", inbox[n] # <<>>,
           Books(n, build, philo, taken, hungry, waiting, inbox),
           NEW a, NEW r, Takes(n, inbox[n], a, r),
           NEW d, HostBook(n, Holding(n, philo, inbox) \ r, hungry \cup a, d),
           NEW st, SetTable(d, Popped(TABLE), st)
    PROVE  Books(n, "host", philo, taken', hungry', waiting', inbox')
  <1>1. Books(n, "host", philo, taken, hungry, waiting, inbox)
    OBVIOUS
  <1>2. Books(n, "host", philo, d.taken, d.hungry, waiting,
              Granted([inbox EXCEPT ![n] = Tail(@)], d.granted))
    BY <1>1, HostStep
  <1>3. Popped(TABLE) = [inbox EXCEPT ![n] = Tail(@)]
    BY DEF Popped, TABLE
  <1> QED BY <1>2, <1>3 DEF SetTable

LEMMA HostKeeps ==
    ASSUME NEW n \in Nat, n >= 2, N = n, build = "host", inbox[n] # <<>>,
           Books(n, build, philo, taken, hungry, waiting, inbox), NEW e, e = Head(inbox[n]),
           serving(e, Popped(TABLE)) \/ paused(e, Popped(TABLE))
    PROVE  Books(n, "host", philo, taken', hungry', waiting', inbox')
  <1>1. PICK h, q, box : h = Holding(n, philo, inbox) /\ q = inbox[n] /\ box = Popped(TABLE)
    OBVIOUS
  <1>2. Boxes(n, build, inbox)
    BY DEF Books
  <1>3. \/ e.sig \in {"PAUSE", "SERVE"} /\ Takes(n, q, {}, {})
        \/ e.sig = "HUNGRY" /\ e.philo \in Asks(n, q) /\ Takes(n, q, {e.philo}, {})
        \/ e.sig = "DONE" /\ e.philo \in Returns(n, q) /\ Takes(n, q, {}, {e.philo})
    <2>1. TakesNext(n, build, q, e)
      BY <1>1, <1>2, HeadTakes
    <2> QED BY <2>1 DEF TakesNext
  <1>4. h \ {} = h /\ hungry \cup {} = hungry
    OBVIOUS
  <1>5. CASE e.sig \in {"PAUSE", "SERVE"} /\ Takes(n, q, {}, {})
    <2>1. PICK a : a = {}
      OBVIOUS
    <2>2. PICK d, st : d \in {TableData, serving_entry} /\ SetTable(d, box, st)
      <3>1. \/ SetTable(TableData, box, "paused") \/ SetTable(TableData, box, "serving")
            \/ SetTable(serving_entry, box, "serving")
        <4>1. CASE e.sig = "PAUSE"
          BY <1>1, <4>1 DEF serving, paused
        <4>2. CASE e.sig = "SERVE"
          BY <1>1, <4>2 DEF serving, paused
        <4> QED BY <1>5, <4>1, <4>2
      <3> QED BY <3>1
    <2>3. HostBook(n, h, hungry, d)
      BY <1>1, <2>2, HostStarts, HostResumes
    <2>4. HostBook(n, Holding(n, philo, inbox) \ a, hungry \cup a, d) /\ Takes(n, inbox[n], a, a)
      BY <1>1, <1>4, <1>5, <2>1, <2>3
    <2>5. SetTable(d, Popped(TABLE), st)
      BY <1>1, <2>2
    <2> QED BY <2>4, <2>5, HostSets
  <1>6. CASE e.sig = "HUNGRY" /\ e.philo \in Asks(n, q) /\ Takes(n, q, {e.philo}, {})
    <2>1. PICK i, a, r : i = e.philo /\ a = {i} /\ r = {}
      OBVIOUS
    <2>2. i \in Seats(n)
      BY <1>6, <2>1 DEF Asks
    <2>3. PICK d, st : /\ d \in {handle_hungry(i), [TableData EXCEPT !.hungry = @ \cup {i}]}
                       /\ SetTable(d, box, st)
      <3>1. \/ SetTable(handle_hungry(i), box, "serving")
            \/ SetTable([TableData EXCEPT !.hungry = @ \cup {i}], box, "paused")
        BY <1>1, <1>6, <2>1 DEF serving, paused
      <3> QED BY <3>1
    <2>4. HostBook(n, h, hungry \cup {i}, d)
      BY <1>1, <2>2, <2>3, HostHungry, HostNotes
    <2>5. HostBook(n, Holding(n, philo, inbox) \ r, hungry \cup a, d) /\ Takes(n, inbox[n], a, r)
      BY <1>1, <1>4, <1>6, <2>1, <2>4
    <2>6. SetTable(d, Popped(TABLE), st)
      BY <1>1, <2>3
    <2> QED BY <2>5, <2>6, HostSets
  <1>7. CASE e.sig = "DONE" /\ e.philo \in Returns(n, q) /\ Takes(n, q, {}, {e.philo})
    <2>1. PICK i, a, r : i = e.philo /\ a = {} /\ r = {i}
      OBVIOUS
    <2>2. i \in h
      BY <1>1, <1>7, <2>1 DEF Holding
    <2>3. PICK d, st : /\ d \in {handle_done(i), handle_paused_done(i)}
                       /\ SetTable(d, box, st)
      <3>1. SetTable(handle_done(i), box, "serving") \/ SetTable(handle_paused_done(i), box, "paused")
        BY <1>1, <1>7, <2>1 DEF serving, paused
      <3> QED BY <3>1
    <2>4. HostBook(n, h \ {i}, hungry, d)
      BY <1>1, <2>2, <2>3, HostDone
    <2>5. HostBook(n, Holding(n, philo, inbox) \ r, hungry \cup a, d) /\ Takes(n, inbox[n], a, r)
      BY <1>1, <1>4, <1>7, <2>1, <2>4
    <2>6. SetTable(d, Popped(TABLE), st)
      BY <1>1, <2>3
    <2> QED BY <2>5, <2>6, HostSets
  <1> QED BY <1>3, <1>5, <1>6, <1>7

LEMMA EspKeepsBooks ==
    ASSUME NEW n \in Nat, n >= 2, N = n, build = "esp", inbox[n] # <<>>,
           Books(n, build, philo, taken, hungry, waiting, inbox), NEW e, e = Head(inbox[n]),
           NEW d, d = table_serving(e.sig, e.philo)
    PROVE  Books(n, "esp", philo, d.taken, hungry, d.waiting, Granted(Popped(TABLE), d.granted))
  <1>1. PICK h, q : h = Holding(n, philo, inbox) /\ q = inbox[n]
    OBVIOUS
  <1>2. Boxes(n, build, inbox) /\ Books(n, "esp", philo, taken, hungry, waiting, inbox)
    BY DEF Books
  <1>3. \/ e.sig = "HUNGRY" /\ e.philo \in Asks(n, q) /\ Takes(n, q, {e.philo}, {})
        \/ e.sig = "DONE" /\ e.philo \in Returns(n, q) /\ Takes(n, q, {}, {e.philo})
    <2>1. TakesNext(n, build, q, e)
      BY <1>1, <1>2, HeadTakes
    <2> QED BY <2>1 DEF TakesNext
  <1>4. h \ {} = h /\ Members(waiting) \cup {} = Members(waiting)
    OBVIOUS
  <1>5. Popped(TABLE) = [inbox EXCEPT ![n] = Tail(@)]
    BY DEF Popped, TABLE
  <1>6. CASE e.sig = "HUNGRY" /\ e.philo \in Asks(n, q) /\ Takes(n, q, {e.philo}, {})
    <2>1. PICK i, a, r : i = e.philo /\ a = {i} /\ r = {}
      OBVIOUS
    <2>2. i \in Seats(n) /\ i \notin Members(waiting)
      BY <1>1, <1>6, <2>1 DEF Asks, Books, Ledger
    <2>3. EspBook(n, h, Members(waiting) \cup {i}, d)
      BY <1>1, <1>6, <2>1, <2>2, EspServes
    <2>4. EspBook(n, Holding(n, philo, inbox) \ r, Members(waiting) \cup a, d) /\ Takes(n, inbox[n], a, r)
      BY <1>1, <1>4, <1>6, <2>1, <2>3
    <2>5. Books(n, "esp", philo, d.taken, hungry, d.waiting,
                Granted([inbox EXCEPT ![n] = Tail(@)], d.granted))
      BY <1>2, <2>4, EspStep
    <2> QED BY <1>5, <2>5
  <1>7. CASE e.sig = "DONE" /\ e.philo \in Returns(n, q) /\ Takes(n, q, {}, {e.philo})
    <2>1. PICK i, a, r : i = e.philo /\ a = {} /\ r = {i}
      OBVIOUS
    <2>2. i \in h /\ i \in Seats(n)
      BY <1>1, <1>7, <2>1 DEF Holding, Returns
    <2>3. EspBook(n, h \ {i}, Members(waiting), d)
      BY <1>1, <1>7, <2>1, <2>2, EspServes
    <2>4. EspBook(n, Holding(n, philo, inbox) \ r, Members(waiting) \cup a, d) /\ Takes(n, inbox[n], a, r)
      BY <1>1, <1>4, <1>7, <2>1, <2>3
    <2>5. Books(n, "esp", philo, d.taken, hungry, d.waiting,
                Granted([inbox EXCEPT ![n] = Tail(@)], d.granted))
      BY <1>2, <2>4, EspStep
    <2> QED BY <1>5, <2>5
  <1> QED BY <1>3, <1>6, <1>7

\* A philosopher takes its next event while the table has none, ...
PhiloTurn(n, b, ph, tk, hg, wt, bx, i, bx1) ==
    /\ Books(n, b, ph, tk, hg, wt, bx) /\ bx[n] = <<>> /\ i \in Seats(n) /\ bx[i] # <<>>
    /\ bx1 = [bx EXCEPT ![i] = Tail(@)]

PhiloTook(n, b, ph, tk, hg, wt, bx, i, bx1) ==
    /\ Boxes(n, b, bx1) /\ bx1[n] = <<>> /\ i \in Seats(n) /\ ph \in [Seats(n) -> PhiloState]
    /\ Notes(n, b, hg, wt)
    /\ Ledger(n, ph, tk, {}, hg \cup Members(wt), SeatsServed(n, bx), {})
    /\ SeatTook(n, bx, i, bx1) /\ (i \in SeatsServed(n, bx) => ph[i] = "hungry")

LEMMA PhiloTakes ==
    ASSUME NEW n \in Nat, NEW b, NEW ph, NEW tk, NEW hg, NEW wt, NEW bx, NEW i, NEW bx1,
           PhiloTurn(n, b, ph, tk, hg, wt, bx, i, bx1)
    PROVE  PhiloTook(n, b, ph, tk, hg, wt, bx, i, bx1)
  <1>1. /\ Boxes(n, b, bx) /\ bx[n] = <<>> /\ i \in Seats(n) /\ bx[i] # <<>>
        /\ bx1 = [bx EXCEPT ![i] = Tail(@)] /\ ph \in [Seats(n) -> PhiloState] /\ Notes(n, b, hg, wt)
        /\ Ledger(n, ph, tk, Asks(n, bx[n]), hg \cup Members(wt), SeatsServed(n, bx), Returns(n, bx[n]))
    BY DEF PhiloTurn, Books
  <1>2. Ledger(n, ph, tk, {}, hg \cup Members(wt), SeatsServed(n, bx), {})
    <2>1. Asks(n, bx[n]) = {} /\ Returns(n, bx[n]) = {}
      BY <1>1, EmptyTable
    <2> QED BY <1>1, <2>1
  <1>3. Boxes(n, b, bx1) /\ bx1[n] = bx[n] /\ SeatTook(n, bx, i, bx1)
    <2>1. SeatTakes(n, bx, i, bx1)
      BY <1>1 DEF SeatTakes
    <2> QED BY <1>1, <2>1, BoxesTaken
  <1>4. i \in SeatsServed(n, bx) => ph[i] = "hungry"
    BY <1>2 DEF Ledger, InState
  <1> QED BY <1>1, <1>2, <1>3, <1>4 DEF PhiloTook

\* ... drops it, ...
LEMMA PhiloDrops ==
    ASSUME NEW n \in Nat, NEW b, NEW ph, NEW tk, NEW hg, NEW wt, NEW bx, NEW i, NEW bx1,
           PhiloTurn(n, b, ph, tk, hg, wt, bx, i, bx1),
           ~(ph[i] = "hungry" /\ Head(bx[i]).sig = "EAT")
    PROVE  Books(n, b, ph, tk, hg, wt, bx1)
  <1>1. /\ Boxes(n, b, bx1) /\ bx1[n] = <<>> /\ ph \in [Seats(n) -> PhiloState]
        /\ Notes(n, b, hg, wt) /\ SeatsServed(n, bx1) = SeatsServed(n, bx)
        /\ Ledger(n, ph, tk, {}, hg \cup Members(wt), SeatsServed(n, bx), {})
    <2>1. PhiloTook(n, b, ph, tk, hg, wt, bx, i, bx1)
      BY PhiloTakes
    <2> QED BY <2>1 DEF PhiloTook, SeatTook
  <1>2. Asks(n, bx1[n]) = {} /\ Returns(n, bx1[n]) = {}
    BY <1>1, EmptyTable
  <1> QED BY <1>1, <1>2 DEF Books

\* ... begins to eat, ...
LEMMA PhiloEats ==
    ASSUME NEW n \in Nat, NEW b, NEW ph, NEW tk, NEW hg, NEW wt, NEW bx, NEW i, NEW bx1,
           PhiloTurn(n, b, ph, tk, hg, wt, bx, i, bx1), Head(bx[i]).sig = "EAT",
           NEW ph1, ph1 = [ph EXCEPT ![i] = "eating"]
    PROVE  Books(n, b, ph1, tk, hg, wt, bx1)
  <1>1. /\ Boxes(n, b, bx1) /\ bx1[n] = <<>> /\ ph \in [Seats(n) -> PhiloState]
        /\ Notes(n, b, hg, wt) /\ SeatsServed(n, bx1) = SeatsServed(n, bx) \ {i} /\ i \in SeatsServed(n, bx)
        /\ Ledger(n, ph, tk, {}, hg \cup Members(wt), SeatsServed(n, bx), {})
    <2>1. PhiloTook(n, b, ph, tk, hg, wt, bx, i, bx1)
      BY PhiloTakes
    <2> QED BY <2>1 DEF PhiloTook, SeatTook
  <1>2. Asks(n, bx1[n]) = {} /\ Returns(n, bx1[n]) = {}
    BY <1>1, EmptyTable
  <1>3. ph1 \in [Seats(n) -> PhiloState]
    BY <1>1 DEF PhiloState
  <1>4. Ledger(n, ph1, tk, {}, hg \cup Members(wt), SeatsServed(n, bx1), {})
    <2>1. PICK noted, served, none : /\ noted = hg \cup Members(wt) /\ served = SeatsServed(n, bx)
                                     /\ none = {}
      OBVIOUS
    <2>2. Ledger(n, ph, tk, none, noted, served, none) /\ i \in served
      BY <1>1, <2>1
    <2>3. Ledger(n, ph1, tk, none, noted, served \ {i}, none)
      BY <1>1, <2>2, LedgerEats
    <2> QED BY <1>1, <2>1, <2>3
  <1> QED BY <1>1, <1>2, <1>3, <1>4 DEF Books

\* ... or tells the table that it is hungry or done.
LEMMA PhiloPosts ==
    ASSUME NEW n \in Nat, NEW b, NEW ph, NEW tk, NEW hg, NEW wt, NEW bx, NEW i, NEW bx1,
           PhiloTurn(n, b, ph, tk, hg, wt, bx, i, bx1), Head(bx[i]).sig = "TIMEOUT",
           NEW x, NEW ph1,
           \/ /\ ph[i] = "thinking" /\ x = [sig |-> "HUNGRY", philo |-> i]
              /\ ph1 = [ph EXCEPT ![i] = "hungry"]
           \/ /\ ph[i] = "eating" /\ x = [sig |-> "DONE", philo |-> i]
              /\ ph1 = [ph EXCEPT ![i] = "thinking"],
           NEW bx2, bx2 = [bx1 EXCEPT ![n] = Append(@, x)]
    PROVE  Books(n, b, ph1, tk, hg, wt, bx2)
  <1>1. /\ Boxes(n, b, bx1) /\ bx1[n] = <<>> /\ i \in Seats(n) /\ ph \in [Seats(n) -> PhiloState]
        /\ Notes(n, b, hg, wt) /\ SeatsServed(n, bx1) = SeatsServed(n, bx)
        /\ Ledger(n, ph, tk, {}, hg \cup Members(wt), SeatsServed(n, bx), {})
    <2>1. PhiloTook(n, b, ph, tk, hg, wt, bx, i, bx1)
      BY PhiloTakes
    <2> QED BY <2>1 DEF PhiloTook, SeatTook
  <1>2. x \in PhiloEvent(n)
    BY <1>1 DEF PhiloEvent
  <1>3. x \in TableEvent(n, b)
    BY <1>2 DEF TableEvent
  <1>4. /\ Boxes(n, b, bx2) /\ SeatsServed(n, bx2) = SeatsServed(n, bx1)
        /\ Members(bx2[n]) = Members(bx1[n]) \cup {x}
    <2>1. PostsTable(n, b, bx1, x, bx2)
      BY <1>1, <1>3 DEF PostsTable
    <2>2. Boxes(n, b, bx1)
      BY <1>1
    <2>3. Boxes(n, b, bx2) /\ PostedTable(n, bx1, x, bx2)
      BY <2>1, <2>2, BoxesPosted
    <2> QED BY <2>3 DEF PostedTable
  <1>5. Members(bx2[n]) = {x}
    BY <1>1, <1>4, EmptyTable
  <1>6. PICK noted, served, q : /\ noted = hg \cup Members(wt) /\ served = SeatsServed(n, bx) /\ q = bx2[n]
    OBVIOUS
  <1>7. Ledger(n, ph, tk, {}, noted, served, {}) /\ Members(q) = {x}
    BY <1>1, <1>5, <1>6
  <1>8. CASE /\ ph[i] = "thinking" /\ x = [sig |-> "HUNGRY", philo |-> i]
             /\ ph1 = [ph EXCEPT ![i] = "hungry"]
    <2>1. Asks(n, q) = {i} /\ Returns(n, q) = {}
      BY <1>1, <1>7, <1>8, OneAsk
    <2>2. Ledger(n, ph1, tk, {i}, noted, served, {})
      BY <1>1, <1>7, <1>8, LedgerAsks
    <2>3. ph1 \in [Seats(n) -> PhiloState]
      BY <1>1, <1>8 DEF PhiloState
    <2> QED BY <1>1, <1>4, <1>6, <2>1, <2>2, <2>3 DEF Books
  <1>9. CASE /\ ph[i] = "eating" /\ x = [sig |-> "DONE", philo |-> i]
             /\ ph1 = [ph EXCEPT ![i] = "thinking"]
    <2>1. Asks(n, q) = {} /\ Returns(n, q) = {i}
      BY <1>1, <1>7, <1>9, OneReturn
    <2>2. Ledger(n, ph1, tk, {}, noted, served, {i})
      BY <1>1, <1>7, <1>9, LedgerReturns
    <2>3. ph1 \in [Seats(n) -> PhiloState]
      BY <1>1, <1>9 DEF PhiloState
    <2> QED BY <1>1, <1>4, <1>6, <2>1, <2>2, <2>3 DEF Books
  <1> QED BY <1>8, <1>9

\* A time event of a philosopher expires, or a button is pressed.
LEMMA TimeoutKeeps ==
    ASSUME NEW n \in Nat, NEW b, NEW ph, NEW tk, NEW hg, NEW wt, NEW bx,
           Books(n, b, ph, tk, hg, wt, bx), NEW i \in Seats(n),
           NEW bx2, bx2 = [bx EXCEPT ![i] = Append(@, [sig |-> "TIMEOUT"])]
    PROVE  Books(n, b, ph, tk, hg, wt, bx2)
  <1>1. Boxes(n, b, bx)
    BY DEF Books
  <1>2. Boxes(n, b, bx2) /\ bx2[n] = bx[n] /\ SeatsServed(n, bx2) = SeatsServed(n, bx)
    <2>1. SeatTimesOut(n, bx, i, bx2)
      BY DEF SeatTimesOut
    <2>2. Boxes(n, b, bx2) /\ TimedOut(n, bx, bx2)
      BY <1>1, <2>1, BoxesTimeout
    <2> QED BY <2>2 DEF TimedOut
  <1> QED BY <1>2 DEF Books

LEMMA ButtonKeeps ==
    ASSUME NEW n \in Nat, NEW b, b = "host", NEW ph, NEW tk, NEW hg, NEW wt, NEW bx,
           Books(n, b, ph, tk, hg, wt, bx), NEW x, x \in ButtonEvent,
           NEW bx2, bx2 = [bx EXCEPT ![n] = Append(@, x)]
    PROVE  Books(n, b, ph, tk, hg, wt, bx2)
  <1>1. Boxes(n, b, bx) /\ x \in TableEvent(n, b)
    BY DEF Books, TableEvent
  <1>2. ASSUME NEW y \in PhiloEvent(n) PROVE y # x
    <2>1. y.sig \in {"HUNGRY", "DONE"}
      BY DEF PhiloEvent
    <2>2. x.sig \in {"PAUSE", "SERVE"}
      BY DEF ButtonEvent
    <2> QED BY <2>1, <2>2
  <1>3. PostsTable(n, b, bx, x, bx2)
    BY <1>1, <1>2 DEF PostsTable
  <1>4. /\ Boxes(n, b, bx2) /\ SeatsServed(n, bx2) = SeatsServed(n, bx)
        /\ Members(bx2[n]) = Members(bx[n]) \cup {x}
    <2>1. Boxes(n, b, bx2) /\ PostedTable(n, bx, x, bx2)
      BY <1>1, <1>3, BoxesPosted
    <2> QED BY <2>1 DEF PostedTable
  <1>5. \A i \in Seats(n) : /\ [sig |-> "HUNGRY", philo |-> i] # x
                            /\ [sig |-> "DONE", philo |-> i] # x
    <2>1. ASSUME NEW i \in Seats(n)
          PROVE  [sig |-> "HUNGRY", philo |-> i] \in PhiloEvent(n) /\ [sig |-> "DONE", philo |-> i] \in PhiloEvent(n)
      BY DEF PhiloEvent
    <2> QED BY <1>2, <2>1
  <1>6. Asks(n, bx2[n]) = Asks(n, bx[n]) /\ Returns(n, bx2[n]) = Returns(n, bx[n])
    BY <1>4, <1>5 DEF Asks, Returns
  <1> QED BY <1>4, <1>6 DEF Books

LEMMA EspPhilo ==
    ASSUME NEW i, NEW e, Handled(i, e), esp_philo(i, e)
    PROVE  \/ /\ philo[i] = "thinking" /\ e.sig = "TIMEOUT"
              /\ philo' = [philo EXCEPT ![i] = "hungry"]
              /\ inbox' = post_table(Popped(i), "HUNGRY", i)
           \/ /\ philo[i] = "hungry" /\ e.sig = "EAT"
              /\ philo' = [philo EXCEPT ![i] = "eating"]
              /\ inbox' = Popped(i)
           \/ /\ philo[i] = "eating" /\ e.sig = "TIMEOUT"
              /\ philo' = [philo EXCEPT ![i] = "thinking"]
              /\ inbox' = post_table(Popped(i), "DONE", i)
  <1>1. \/ philo[i] = "thinking" /\ e.sig = "TIMEOUT"
        \/ philo[i] = "hungry" /\ e.sig = "EAT"
        \/ philo[i] = "eating" /\ e.sig = "TIMEOUT"
    BY DEF Handled
  <1>2. CASE philo[i] = "thinking" /\ e.sig = "TIMEOUT"
    BY <1>2 DEF esp_philo, qm_tran, exit_action, entry_action
  <1>3. CASE philo[i] = "hungry" /\ e.sig = "EAT"
    BY <1>3 DEF esp_philo, qm_tran, exit_action, entry_action
  <1>4. CASE philo[i] = "eating" /\ e.sig = "TIMEOUT"
    BY <1>4 DEF esp_philo, qm_tran, exit_action, entry_action
  <1> QED BY <1>1, <1>2, <1>3, <1>4

LEMMA PhiloKeeps ==
    ASSUME NEW n \in Nat, n >= 2, N = n,
           Books(n, build, philo, taken, hungry, waiting, inbox), DispatchPhilo
    PROVE  Books(n, build', philo', taken', hungry', waiting', inbox')
  <1>1. PICK i, e : i = NextAo /\ e = Head(inbox[i])
    OBVIOUS
  <1>2. DOMAIN inbox = 0..n
    BY DEF Books, Boxes
  <1>3. Ready # {} /\ i # n
    BY <1>1 DEF DispatchPhilo, TABLE
  <1>4. i \in 0..n /\ inbox[i] # <<>> /\ inbox[n] = <<>>
    BY <1>1, <1>2, <1>3, HighestReady
  <1>5. i \in Seats(n)
    BY <1>3, <1>4 DEF Seats
  <1>6. PICK bx1 : bx1 = [inbox EXCEPT ![i] = Tail(@)]
    OBVIOUS
  <1>7. PhiloTurn(n, build, philo, taken, hungry, waiting, inbox, i, bx1) /\ Popped(i) = bx1
    BY <1>4, <1>5, <1>6 DEF PhiloTurn, Popped
  <1>8. /\ build' = build /\ taken' = taken /\ hungry' = hungry /\ waiting' = waiting
    BY DEF DispatchPhilo
  <1>9. SUFFICES Books(n, build, philo', taken, hungry, waiting, inbox')
    BY <1>8
  <1>10. \/ ~Handled(i, e) /\ philo' = philo /\ inbox' = bx1
         \/ /\ philo[i] = "thinking" /\ e.sig = "TIMEOUT"
            /\ philo' = [philo EXCEPT ![i] = "hungry"]
            /\ inbox' = post_table(bx1, "HUNGRY", i)
         \/ /\ philo[i] = "hungry" /\ e.sig = "EAT"
            /\ philo' = [philo EXCEPT ![i] = "eating"]
            /\ inbox' = bx1
         \/ /\ philo[i] = "eating" /\ e.sig = "TIMEOUT"
            /\ philo' = [philo EXCEPT ![i] = "thinking"]
            /\ inbox' = post_table(bx1, "DONE", i)
    <2>1. \/ Handled(i, e) /\ (thinking(i, e) \/ hungry_state(i, e) \/ eating(i, e) \/ esp_philo(i, e))
          \/ ~Handled(i, e) /\ dropped(i)
      BY <1>1 DEF DispatchPhilo
    <2>2. CASE ~Handled(i, e) /\ dropped(i)
      BY <1>7, <2>2 DEF dropped
    <2>3. CASE thinking(i, e)
      BY <1>7, <2>3 DEF thinking
    <2>4. CASE hungry_state(i, e)
      BY <1>7, <2>4 DEF hungry_state
    <2>5. CASE eating(i, e)
      BY <1>7, <2>5 DEF eating
    <2>6. CASE Handled(i, e) /\ esp_philo(i, e)
      BY <1>7, <2>6, EspPhilo
    <2> QED BY <2>1, <2>2, <2>3, <2>4, <2>5, <2>6
  <1>11. CASE ~Handled(i, e) /\ philo' = philo /\ inbox' = bx1
    <2>1. ~(philo[i] = "hungry" /\ Head(inbox[i]).sig = "EAT")
      BY <1>1, <1>11 DEF Handled
    <2> QED BY <1>7, <1>11, <2>1, PhiloDrops
  <1>12. CASE /\ philo[i] = "hungry" /\ e.sig = "EAT"
              /\ philo' = [philo EXCEPT ![i] = "eating"]
              /\ inbox' = bx1
    <2>1. PICK ph1 : ph1 = [philo EXCEPT ![i] = "eating"]
      OBVIOUS
    <2>2. Books(n, build, ph1, taken, hungry, waiting, bx1)
      BY <1>1, <1>7, <1>12, <2>1, PhiloEats
    <2> QED BY <1>12, <2>1, <2>2
  <1>13. CASE /\ philo[i] = "thinking" /\ e.sig = "TIMEOUT"
              /\ philo' = [philo EXCEPT ![i] = "hungry"]
              /\ inbox' = post_table(bx1, "HUNGRY", i)
    <2>1. PICK x, ph1, bx2 : /\ x = [sig |-> "HUNGRY", philo |-> i]
                             /\ ph1 = [philo EXCEPT ![i] = "hungry"]
                             /\ bx2 = [bx1 EXCEPT ![n] = Append(@, x)]
      OBVIOUS
    <2>2. Books(n, build, ph1, taken, hungry, waiting, bx2)
      BY <1>1, <1>7, <1>13, <2>1, PhiloPosts
    <2>3. inbox' = bx2
      BY <1>13, <2>1 DEF post_table, TABLE
    <2> QED BY <1>13, <2>1, <2>2, <2>3
  <1>14. CASE /\ philo[i] = "eating" /\ e.sig = "TIMEOUT"
              /\ philo' = [philo EXCEPT ![i] = "thinking"]
              /\ inbox' = post_table(bx1, "DONE", i)
    <2>1. PICK x, ph1, bx2 : /\ x = [sig |-> "DONE", philo |-> i]
                             /\ ph1 = [philo EXCEPT ![i] = "thinking"]
                             /\ bx2 = [bx1 EXCEPT ![n] = Append(@, x)]
      OBVIOUS
    <2>2. Books(n, build, ph1, taken, hungry, waiting, bx2)
      BY <1>1, <1>7, <1>14, <2>1, PhiloPosts
    <2>3. inbox' = bx2
      BY <1>14, <2>1 DEF post_table, TABLE
    <2> QED BY <1>14, <2>1, <2>2, <2>3
  <1> QED BY <1>10, <1>11, <1>12, <1>13, <1>14

LEMMA TableKeeps ==
    ASSUME NEW n \in Nat, n >= 2, N = n,
           Books(n, build, philo, taken, hungry, waiting, inbox), DispatchTable
    PROVE  Books(n, build', philo', taken', hungry', waiting', inbox')
  <1>1. PICK e : e = Head(inbox[n])
    OBVIOUS
  <1>2. DOMAIN inbox = 0..n /\ build \in {"host", "esp"}
    BY DEF Books, Boxes, Notes
  <1>3. Ready # {} /\ NextAo = n
    BY DEF DispatchTable, TABLE
  <1>4. inbox[n] # <<>>
    BY <1>2, <1>3, HighestReady
  <1>5. build' = build /\ philo' = philo
    BY DEF DispatchTable
  <1>6. CASE build = "host"
    <2>1. serving(e, Popped(TABLE)) \/ paused(e, Popped(TABLE))
      BY <1>1, <1>6 DEF DispatchTable, TABLE
    <2>2. Books(n, "host", philo, taken', hungry', waiting', inbox')
      BY <1>1, <1>4, <1>6, <2>1, HostKeeps
    <2> QED BY <1>5, <1>6, <2>2
  <1>7. CASE build = "esp"
    <2>1. PICK d : d = table_serving(e.sig, e.philo)
      OBVIOUS
    <2>2. /\ taken' = d.taken /\ waiting' = d.waiting /\ hungry' = hungry
          /\ inbox' = Granted(Popped(TABLE), d.granted)
      BY <1>1, <1>7, <2>1 DEF DispatchTable, TABLE
    <2>3. Books(n, "esp", philo, d.taken, hungry, d.waiting, Granted(Popped(TABLE), d.granted))
      BY <1>1, <1>4, <1>7, <2>1, EspKeepsBooks
    <2> QED BY <1>5, <1>7, <2>2, <2>3
  <1> QED BY <1>2, <1>6, <1>7

LEMMA WheelPolls ==
    ASSUME NEW n \in Nat, n >= 2, Wheel(n), InTick
    PROVE  Current \in Seats(n) /\ (Advance /\ wheel' = wheel => Wheel(n)')
  <1>1. PICK list, p : list = [k \in 1..n |-> k - 1] /\ p = cursor.pos
    OBVIOUS
  <1>2. /\ wheel = [r \in 0..3 |-> IF r = 0 THEN list ELSE <<>>]
        /\ cursor = [rate |-> 0, pos |-> p] /\ p \in 1..n
    BY <1>1 DEF Wheel, InTick
  <1>3. wheel[cursor.rate] = list /\ Len(list) = n
    BY <1>1, <1>2
  <1>4. Current = p - 1
    BY <1>1, <1>2, <1>3 DEF Current
  <1>5. ASSUME Advance, wheel' = wheel PROVE Wheel(n)'
    <2>1. CASE p = n
      <3>1. cursor' = [rate |-> 0, pos |-> 0]
        BY <1>2, <1>3, <1>5, <2>1 DEF Advance, Idle
      <3> QED BY <1>1, <1>2, <1>5, <3>1 DEF Wheel
    <2>2. CASE p # n
      <3>1. cursor' = [cursor EXCEPT !.pos = @ + 1]
        BY <1>2, <1>3, <1>5, <2>2 DEF Advance
      <3>2. cursor' = [rate |-> 0, pos |-> p + 1]
        BY <1>2, <3>1
      <3>3. p + 1 \in 0..n
        BY <1>2, <2>2
      <3> QED BY <1>1, <1>2, <1>5, <3>2, <3>3 DEF Wheel
    <2> QED BY <2>1, <2>2
  <1> QED BY <1>2, <1>4, <1>5 DEF Seats

LEMMA DppInvInit ==
    ASSUME NEW n \in Nat \ {0, 1}, DppInit("host", n) \/ DppInit("esp", n)
    PROVE  DppInv
  <1>1. n \in Nat /\ n >= 2
    OBVIOUS
  <1>2. PICK b : b \in {"host", "esp"} /\ DppInit(b, n)
    OBVIOUS
  <1>3. /\ build = b /\ philo = [i \in Seats(n) |-> "thinking"] /\ taken = {} /\ hungry = {}
        /\ waiting = <<>> /\ inbox = [a \in 0..n |-> <<>>]
    BY <1>2 DEF DppInit, Seats
  <1>4. Wheel(n)
    BY <1>1, <1>2 DEF DppInit, Wheel, Idle
  <1>5. \A a : Sparse(<<>>, a)
    BY DEF Sparse
  <1>6. n \in 0..n /\ Seats(n) \subseteq 0..n
    BY <1>1 DEF Seats
  <1>7. inbox[n] = <<>> /\ \A i \in Seats(n) : inbox[i] = <<>>
    BY <1>3, <1>6
  <1>8. Boxes(n, build, inbox)
    <2>1. inbox = [a \in 0..n |-> inbox[a]]
      BY <1>3
    <2>2. <<>> \in Seq(TableEvent(n, build)) /\ <<>> \in Seq(SeatEvent)
      OBVIOUS
    <2> QED BY <1>5, <1>7, <2>1, <2>2 DEF Boxes
  <1>9. Notes(n, build, hungry, waiting)
    <2>1. <<>> \in Seq(Seats(n))
      OBVIOUS
    <2> QED BY <1>2, <1>3, <1>5, <2>1 DEF Notes
  <1>10. philo \in [Seats(n) -> PhiloState]
    BY <1>3 DEF PhiloState
  <1>11. /\ Asks(n, inbox[n]) = {} /\ Returns(n, inbox[n]) = {} /\ SeatsServed(n, inbox) = {}
         /\ Members(waiting) = {}
    BY <1>3, <1>7, EmptyTable DEF SeatsServed
  <1>12. InState(n, philo, "hungry") = {} /\ InState(n, philo, "eating") = {}
    BY <1>3 DEF InState
  <1>13. Forks(n, {}, {})
    BY DEF Forks
  <1>14. Ledger(n, philo, taken, {}, {}, {}, {})
    <2>1. {} \cup {} \cup {} = {}
      OBVIOUS
    <2> QED BY <1>3, <1>12, <1>13, <2>1 DEF Ledger
  <1>15. hungry \cup Members(waiting) = {}
    BY <1>3, <1>11
  <1>16. Books(n, build, philo, taken, hungry, waiting, inbox)
    BY <1>8, <1>9, <1>10, <1>11, <1>14, <1>15 DEF Books
  <1> QED BY <1>1, <1>4, <1>16 DEF DppInv

LEMMA DppInvNext ==
    DppInv /\ [DppNext]_<<dppVars, timeVars>> => DppInv'
  <1> SUFFICES ASSUME DppInv, [DppNext]_<<dppVars, timeVars>> PROVE DppInv'
    OBVIOUS
  <1>1. PICK n \in Nat : n >= 2 /\ Wheel(n) /\ Books(n, build, philo, taken, hungry, waiting, inbox)
    BY DEF DppInv
  <1>2. N = n
    <2>1. DOMAIN philo = Seats(n)
      BY <1>1 DEF Books
    <2> QED BY <1>1, <2>1, SeatCount
  <1>3. SUFFICES Wheel(n)' /\ Books(n, build', philo', taken', hungry', waiting', inbox')
    BY <1>1, <1>3 DEF DppInv
  <1>4. ASSUME UNCHANGED <<wheel, cursor>> PROVE Wheel(n)'
    BY <1>1, <1>4 DEF Wheel
  <1>5. CASE tick
    <2>1. cursor' = [rate |-> 0, pos |-> 1] /\ wheel' = wheel /\ UNCHANGED dppVars
      BY <1>5 DEF tick, tick_rate
    <2>2. Wheel(n)'
      BY <1>1, <2>1 DEF Wheel
    <2> QED BY <1>1, <2>1, <2>2 DEF dppVars
  <1>6. CASE PollAndRun
    <2>1. Current \in Seats(n) /\ Wheel(n)'
      BY <1>1, <1>6, WheelPolls DEF PollAndRun
    <2>2. PICK i : i = Current
      OBVIOUS
    <2>3. Books(n, build, philo, taken, hungry, waiting, inbox')
      <3>1. PICK bx2 : bx2 = [inbox EXCEPT ![i] = Append(@, [sig |-> "TIMEOUT"])]
        OBVIOUS
      <3>2. Books(n, build, philo, taken, hungry, waiting, bx2)
        BY <1>1, <2>1, <2>2, <3>1, TimeoutKeeps
      <3>3. inbox' = bx2 \/ inbox' = inbox
        BY <1>6, <2>2, <3>1 DEF PollAndRun
      <3> QED BY <1>1, <3>2, <3>3
    <2>4. UNCHANGED <<build, philo, taken, hungry, waiting>>
      BY <1>6 DEF PollAndRun
    <2> QED BY <2>1, <2>3, <2>4
  <1>7. CASE DispatchTable
    <2>1. Wheel(n)'
      BY <1>4, <1>7 DEF DispatchTable
    <2> QED BY <1>1, <1>2, <1>7, <2>1, TableKeeps
  <1>8. CASE DispatchPhilo
    <2>1. Wheel(n)'
      BY <1>4, <1>8 DEF DispatchPhilo
    <2> QED BY <1>1, <1>2, <1>8, <2>1, PhiloKeeps
  <1>9. ASSUME NEW sig \in {"PAUSE", "SERVE"}, Button(sig)
        PROVE  Wheel(n)' /\ Books(n, build', philo', taken', hungry', waiting', inbox')
    <2>1. UNCHANGED <<build, philo, taken, hungry, waiting, wheel, cursor>> /\ build = "host"
      BY <1>9 DEF Button, timeVars
    <2>2. PICK x, bx2 : x = [sig |-> sig] /\ bx2 = [inbox EXCEPT ![n] = Append(@, x)]
      OBVIOUS
    <2>3. inbox' = bx2
      BY <1>2, <1>9, <2>2 DEF Button, TABLE
    <2>4. x \in ButtonEvent
      BY <2>2 DEF ButtonEvent
    <2>5. Books(n, build, philo, taken, hungry, waiting, bx2)
      BY <1>1, <2>1, <2>2, <2>4, ButtonKeeps
    <2>6. Wheel(n)'
      BY <1>4, <2>1
    <2> QED BY <2>1, <2>3, <2>5, <2>6
  <1>10. CASE UNCHANGED <<dppVars, timeVars>>
    <2>1. Wheel(n)'
      BY <1>4, <1>10 DEF timeVars
    <2> QED BY <1>1, <1>10, <2>1 DEF dppVars
  <1> QED BY <1>5, <1>6, <1>7, <1>8, <1>9, <1>10 DEF DppNext

-----------------------------------------------------------------------------
(* The numbers of TableAccounts. *)

\* An event that is at most once in a queue, counted by its places.
Counts(s, q, x) == Cardinality(s) = (IF x \in Members(q) THEN 1 ELSE 0) /\ (s # {} <=> x \in Members(q))

LEMMA CountOf ==
    ASSUME NEW q, NEW a, NEW x, x \in a, Sparse(q, a), NEW s, s = {k \in 1..Len(q) : q[k] = x}
    PROVE  Counts(s, q, x)
  <1>1. CASE x \in Members(q)
    <2>1. PICK k \in 1..Len(q) : q[k] = x
      BY <1>1 DEF Members
    <2>2. \A m \in s : m = k
      BY <2>1 DEF Sparse
    <2>3. s = {k}
      BY <2>1, <2>2
    <2>4. Cardinality({k}) = 1
      BY FS_Singleton
    <2> QED BY <1>1, <2>3, <2>4 DEF Counts
  <1>2. CASE x \notin Members(q)
    <2>1. s = {}
      BY <1>2 DEF Members
    <2> QED BY <1>2, <2>1, FS_EmptySet DEF Counts
  <1> QED BY <1>1, <1>2

LEMMA EatCount ==
    ASSUME NEW n \in Nat, NEW b, Boxes(n, b, inbox), NEW i \in Seats(n)
    PROVE  /\ Cardinality(Queued(i, LAMBDA e : e.sig = "EAT")) = IF i \in SeatsServed(n, inbox) THEN 1 ELSE 0
           /\ Queued(i, LAMBDA e : e.sig = "EAT") # {} <=> i \in SeatsServed(n, inbox)
  <1>1. PICK q, s, a : q = inbox[i] /\ s = {k \in 1..Len(q) : q[k] = Eat} /\ a = {Eat}
    OBVIOUS
  <1>2. q \in Seq(SeatEvent) /\ Sparse(q, a)
    BY <1>1 DEF Boxes
  <1>3. DOMAIN q = 1..Len(q) /\ \A k \in 1..Len(q) : q[k] \in SeatEvent
    BY <1>2, LenProperties, ElementOfSeq
  <1>4. \A e \in SeatEvent : e.sig = "EAT" <=> e = Eat
    BY DEF SeatEvent, Eat
  <1>5. Queued(i, LAMBDA e : e.sig = "EAT") = s
    BY <1>1, <1>3, <1>4 DEF Queued
  <1>6. Cardinality(s) = (IF Eat \in Members(q) THEN 1 ELSE 0) /\ (s # {} <=> Eat \in Members(q))
    <2>1. PICK x : x = Eat
      OBVIOUS
    <2>2. x \in a /\ s = {k \in 1..Len(q) : q[k] = x}
      BY <1>1, <2>1
    <2>3. Counts(s, q, x)
      BY <1>2, <2>2, CountOf
    <2> QED BY <2>1, <2>3 DEF Counts
  <1>7. Eat \in Members(q) <=> i \in SeatsServed(n, inbox)
    BY <1>1 DEF SeatsServed
  <1> QED BY <1>5, <1>6, <1>7

LEMMA TableCount ==
    ASSUME NEW n \in Nat, NEW b, Boxes(n, b, inbox), NEW i \in Seats(n),
           NEW sig \in {"HUNGRY", "DONE"}, NEW x, x = [sig |-> sig, philo |-> i],
           NEW s, s = {k \in DOMAIN inbox[n] : inbox[n][k].sig = sig /\ inbox[n][k].philo = i}
    PROVE  Counts(s, inbox[n], x)
  <1>1. PICK q, a : q = inbox[n] /\ a = PhiloEvent(n)
    OBVIOUS
  <1>2. q \in Seq(TableEvent(n, b)) /\ Sparse(q, a)
    BY <1>1 DEF Boxes
  <1>3. DOMAIN q = 1..Len(q) /\ \A k \in 1..Len(q) : q[k] \in TableEvent(n, b)
    <2>1. PICK T : T = TableEvent(n, b)
      OBVIOUS
    <2> QED BY <1>2, <2>1, LenProperties, ElementOfSeq
  <1>4. ASSUME NEW e \in TableEvent(n, b) PROVE e.sig = sig /\ e.philo = i <=> e = x
    <2>1. CASE e \in PhiloEvent(n)
      BY <2>1 DEF PhiloEvent
    <2>2. CASE e \in ButtonEvent
      <3>1. e.sig # sig
        BY <2>2 DEF ButtonEvent
      <3>2. x.sig = sig
        OBVIOUS
      <3> QED BY <3>1, <3>2
    <2> QED BY <2>1, <2>2 DEF TableEvent
  <1>5. s = {k \in 1..Len(q) : q[k] = x}
    BY <1>1, <1>3, <1>4
  <1>6. x \in a
    BY <1>1 DEF PhiloEvent
  <1>7. Counts(s, q, x)
    BY <1>2, <1>5, <1>6, CountOf
  <1> QED BY <1>1, <1>7

LEMMA WaitingCount ==
    ASSUME NEW n \in Nat, NEW b, Notes(n, b, hungry, waiting), NEW i \in Seats(n)
    PROVE  Cardinality({k \in DOMAIN waiting : waiting[k] = i}) = IF i \in Members(waiting) THEN 1 ELSE 0
  <1>1. PICK w, a, s : w = waiting /\ a = {i} /\ s = {k \in 1..Len(w) : w[k] = i}
    OBVIOUS
  <1>2. w \in Seq(Seats(n)) /\ Sparse(w, a)
    BY <1>1 DEF Notes
  <1>3. DOMAIN w = 1..Len(w)
    BY <1>2, LenProperties
  <1>4. Cardinality(s) = IF i \in Members(w) THEN 1 ELSE 0
    <2>1. i \in a
      BY <1>1
    <2>2. Counts(s, w, i)
      BY <1>1, <1>2, <2>1, CountOf
    <2> QED BY <2>2 DEF Counts
  <1> QED BY <1>1, <1>3, <1>4

LEMMA HoldsIs ==
    ASSUME NEW n \in Nat, N = n, Books(n, build, philo, taken, hungry, waiting, inbox), NEW i \in Seats(n)
    PROVE  Holds(i) <=> i \in Holding(n, philo, inbox)
  <1>1. Boxes(n, build, inbox)
    BY DEF Books
  <1>2. Queued(i, LAMBDA e : e.sig = "EAT") # {} <=> i \in SeatsServed(n, inbox)
    BY <1>1, EatCount
  <1>3. Queued(TABLE, LAMBDA e : e.sig = "DONE" /\ e.philo = i) # {} <=> i \in Returns(n, inbox[n])
    <2>1. PICK sig, x, s : /\ sig = "DONE" /\ x = [sig |-> sig, philo |-> i]
                           /\ s = {k \in DOMAIN inbox[n] : inbox[n][k].sig = sig /\ inbox[n][k].philo = i}
      OBVIOUS
    <2>2. s # {} <=> x \in Members(inbox[n])
      <3>1. Counts(s, inbox[n], x)
        BY <1>1, <2>1, TableCount
      <3> QED BY <3>1 DEF Counts
    <2>3. Queued(TABLE, LAMBDA e : e.sig = "DONE" /\ e.philo = i) = s
      BY <2>1 DEF Queued, TABLE
    <2>4. x \in Members(inbox[n]) <=> i \in Returns(n, inbox[n])
      BY <2>1 DEF Returns
    <2> QED BY <2>2, <2>3, <2>4
  <1>4. philo[i] = "eating" <=> i \in InState(n, philo, "eating")
    BY DEF InState
  <1> QED BY <1>2, <1>3, <1>4 DEF Holds, Holding

LEMMA ForksCounted ==
    ASSUME NEW n \in Nat, n >= 2, N = n, Books(n, build, philo, taken, hungry, waiting, inbox)
    PROVE  ForksAccounted
  <1>1. PICK h : h = Holding(n, philo, inbox)
    OBVIOUS
  <1>2. Forks(n, h, taken) /\ Philos = Seats(n)
    BY <1>1 DEF Books, Ledger, Holding, Philos
  <1>3. SUFFICES ASSUME NEW f \in Seats(n)
                 PROVE  Cardinality({i \in {f, right(f)} : Holds(i)}) = IF f \in taken THEN 1 ELSE 0
    BY <1>2 DEF ForksAccounted
  <1>4. PICK r, s : r = right(f) /\ s = {i \in {f, r} : Holds(i)}
    OBVIOUS
  <1>5. r = RightOf(n, f)
    BY <1>4 DEF right, RightOf
  <1>6. r \in Seats(n) /\ r # f /\ LeftOf(n, r) = f
    BY <1>5, Neighbours
  <1>7. (Holds(f) <=> f \in h) /\ (Holds(r) <=> r \in h)
    BY <1>1, <1>6, HoldsIs
  <1>8. CASE f \in taken
    <2>1. f \in h \/ r \in h
      BY <1>2, <1>5, <1>8 DEF Forks
    <2>2. ~(f \in h /\ r \in h)
      BY <1>2, <1>6 DEF Forks
    <2>3. s = {f} \/ s = {r}
      BY <1>4, <1>7, <2>1, <2>2
    <2>4. Cardinality({f}) = 1 /\ Cardinality({r}) = 1
      BY FS_Singleton
    <2> QED BY <1>4, <1>8, <2>3, <2>4
  <1>9. CASE f \notin taken
    <2>1. f \notin h /\ r \notin h
      BY <1>2, <1>6, <1>9 DEF Forks
    <2>2. s = {}
      BY <1>4, <1>7, <2>1
    <2> QED BY <1>4, <1>9, <2>2, FS_EmptySet
  <1> QED BY <1>8, <1>9

LEMMA RequestsCounted ==
    ASSUME NEW n \in Nat, n >= 2, N = n, Books(n, build, philo, taken, hungry, waiting, inbox)
    PROVE  RequestAccounted
  <1>1. Philos = Seats(n) /\ Boxes(n, build, inbox) /\ Notes(n, build, hungry, waiting)
    BY DEF Books, Philos
  <1>2. PICK asking, ev, served :
            asking = Asks(n, inbox[n]) /\ ev = Members(waiting) /\ served = SeatsServed(n, inbox)
    OBVIOUS
  <1>3. /\ asking \cup (hungry \cup ev) \cup served = InState(n, philo, "hungry")
        /\ asking \cap (hungry \cup ev) = {} /\ asking \cap served = {}
        /\ (hungry \cup ev) \cap served = {} /\ hungry \cap ev = {}
    <2>1. hungry = {} \/ ev = {}
      BY <1>1, <1>2, EmptyTable DEF Notes
    <2> QED BY <1>2, <2>1 DEF Books, Ledger
  <1>4. SUFFICES ASSUME NEW i \in Seats(n)
                 PROVE  Cardinality(Queued(TABLE, LAMBDA e : e.sig = "HUNGRY" /\ e.philo = i))
                          + Cardinality({k \in DOMAIN waiting : waiting[k] = i})
                          + (IF i \in hungry THEN 1 ELSE 0)
                          + Cardinality(Queued(i, LAMBDA e : e.sig = "EAT"))
                        = IF philo[i] = "hungry" THEN 1 ELSE 0
    BY <1>1 DEF RequestAccounted
  <1>5. Cardinality(Queued(TABLE, LAMBDA e : e.sig = "HUNGRY" /\ e.philo = i))
            = IF i \in asking THEN 1 ELSE 0
    <2>1. PICK sig, x, s : /\ sig = "HUNGRY" /\ x = [sig |-> sig, philo |-> i]
                           /\ s = {k \in DOMAIN inbox[n] : inbox[n][k].sig = sig /\ inbox[n][k].philo = i}
      OBVIOUS
    <2>2. Cardinality(s) = IF x \in Members(inbox[n]) THEN 1 ELSE 0
      <3>1. Counts(s, inbox[n], x)
        BY <1>1, <2>1, TableCount
      <3> QED BY <3>1 DEF Counts
    <2>3. Queued(TABLE, LAMBDA e : e.sig = "HUNGRY" /\ e.philo = i) = s
      BY <2>1 DEF Queued, TABLE
    <2>4. x \in Members(inbox[n]) <=> i \in asking
      BY <1>2, <2>1 DEF Asks
    <2> QED BY <2>2, <2>3, <2>4
  <1>6. Cardinality({k \in DOMAIN waiting : waiting[k] = i}) = IF i \in ev THEN 1 ELSE 0
    BY <1>1, <1>2, WaitingCount
  <1>7. Cardinality(Queued(i, LAMBDA e : e.sig = "EAT")) = IF i \in served THEN 1 ELSE 0
    BY <1>1, <1>2, EatCount
  <1>8. philo[i] = "hungry" <=> i \in asking \/ i \in hungry \/ i \in ev \/ i \in served
    <2>1. i \in InState(n, philo, "hungry") <=> philo[i] = "hungry"
      BY DEF InState
    <2> QED BY <1>3, <2>1
  <1>9. /\ ~(i \in asking /\ i \in hungry) /\ ~(i \in asking /\ i \in ev)
        /\ ~(i \in asking /\ i \in served) /\ ~(i \in hungry /\ i \in ev)
        /\ ~(i \in hungry /\ i \in served) /\ ~(i \in ev /\ i \in served)
    BY <1>3
  <1> QED BY <1>5, <1>6, <1>7, <1>8, <1>9

(* For every number of philosophers, every thinking and eating time and     *)
(* every order of PAUSE and SERVE: a fork the table counts as taken is held *)
(* by exactly one philosopher beside it, no fork leaks, and the request of  *)
(* a hungry philosopher is in exactly one place (table.rs: handle_hungry,   *)
(* handle_done, handle_paused_done and the entry to serving; esp32_c6.rs:   *)
(* try_grant over the queue of waiting philosophers).                       *)
THEOREM TableTheorem == DppSpec => []TableAccounts
  <1>1. DppInv /\ [DppNext]_<<dppVars, timeVars>> => DppInv'
    BY DppInvNext
  <1>2. ASSUME DppInv PROVE TableAccounts
    <2>1. PICK n \in Nat : n >= 2 /\ Wheel(n) /\ Books(n, build, philo, taken, hungry, waiting, inbox)
      BY <1>2 DEF DppInv
    <2>2. DOMAIN philo = Seats(n)
      BY <2>1 DEF Books
    <2>3. N = n
      BY <2>1, <2>2, SeatCount
    <2>4. ForksAccounted /\ RequestAccounted
      BY <2>1, <2>3, ForksCounted, RequestsCounted
    <2> QED BY <2>4 DEF TableAccounts
  <1>3. (\E n \in Nat \ {0, 1} : DppInit("host", n) \/ DppInit("esp", n)) => DppInv
    BY DppInvInit
  <1> QED BY <1>1, <1>2, <1>3, PTL DEF DppSpec

=============================================================================
