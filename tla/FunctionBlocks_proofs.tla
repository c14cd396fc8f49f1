----------------------- MODULE FunctionBlocks_proofs -----------------------
(***************************************************************************)
(* The scan clock and the function blocks that read it.                    *)
(*                                                                         *)
(* First what the clock arithmetic of ScanClock guarantees for every       *)
(* length of a second, every task period and every execution time.  Then,  *)
(* for every preset, every second and every task period of at most a       *)
(* second, whatever the program does with their inputs and however late    *)
(* the scans are: the IEC timers are punctual, their elapsed times and the *)
(* dates of an RTC are exact, counters and edge detectors see every edge   *)
(* once.                                                                   *)
(***************************************************************************)
EXTENDS FunctionBlocks, TLAPS

-----------------------------------------------------------------------------
(* The scan clock. *)

\* Adding with a single carry adds exactly, for normalised and denormalised
\* timespecs alike.
LEMMA AddOnceExact ==
  ASSUME NEW t \in Timespec, NEW d \in Int
  PROVE  /\ AddOnce(t, d) \in Timespec
         /\ Nanos(AddOnce(t, d)) = Nanos(t) + d
<1> USE ClockAssumption
<1>1. CASE t.nsec + d >= SEC
  <2>1. AddOnce(t, d) = [sec |-> t.sec + 1, nsec |-> t.nsec + d - SEC]
    BY <1>1 DEF AddOnce
  <2>2. (t.sec + 1) * SEC = t.sec * SEC + SEC
    BY DEF Timespec
  <2> QED BY <2>1, <2>2 DEF Timespec, Nanos
<1>2. CASE ~(t.nsec + d >= SEC)
  <2>1. AddOnce(t, d) = [t EXCEPT !.nsec = t.nsec + d]
    BY <1>2 DEF AddOnce
  <2>2. AddOnce(t, d).sec = t.sec /\ AddOnce(t, d).nsec = t.nsec + d
    BY <2>1 DEF Timespec
  <2> QED BY <2>1, <2>2 DEF Timespec, Nanos
<1> QED BY <1>1, <1>2

\* A period of at most one second keeps a valid timespec valid.
LEMMA AddOnceValid ==
  ASSUME NEW t \in Timespec, ValidTimespec(t), NEW d \in Nat, d <= SEC
  PROVE  ValidTimespec(AddOnce(t, d))
BY ClockAssumption DEF ValidTimespec, AddOnce, Timespec

\* A period below 2^31 ns survives the conversion to int.
LEMMA AsIntExact ==
  ASSUME NEW d \in Nat, d < IntHalf
  PROVE  AsInt(d) = d
<1> DEFINE H == IntHalf
           x == d + H
<1>1. H \in Nat /\ H > 0 /\ x \in Nat /\ x < 2 * H
  BY ClockAssumption
<1>2. x % (2 * H) = x
  <2> HIDE DEF x, H
  <2> QED BY <1>1
<1> QED BY <1>1, <1>2 DEF AsInt

-----------------------------------------------------------------------------
\* Every conversion lands in Int, whatever the period.
LEMMA AsIntInt == AsInt(TickTime) \in Int
BY ClockAssumption DEF AsInt

\* The variables keep their types (main.cpp's timer_start, __CURRENT_TIME and
\* the loop position) for every period, execution time and overshoot, as long
\* as a deadline that is slept to lies after the epoch.
TypeInv == TypeOK /\ (now >= epoch)

THEOREM ClockTypeOK == Spec => []TypeOK
<1> USE ClockAssumption
<1>1. Init => TypeInv
  BY DEF Init, TypeInv, TypeOK, Timespec
<1>2. TypeInv /\ [Next]_vars => TypeInv'
  <2> SUFFICES ASSUME TypeInv, [Next]_vars PROVE TypeInv'
    OBVIOUS
  <2> USE DEF TypeInv, TypeOK
  <2>1. CASE RunScan
    BY <2>1 DEF RunScan
  <2>2. CASE updateTime
    BY <2>2, AddOnceExact DEF updateTime
  <2>3. CASE sleep_until
    <3>0. timer' \in Timespec
      BY <2>3, AddOnceExact, AsIntInt DEF sleep_until
    <3>1. timer' \in Timespec /\ Nanos(timer') \in Int
      BY <3>0 DEF Nanos, Timespec
    <3>2. now' \in Nat /\ now' >= now
      BY <2>3, <3>1 DEF sleep_until
    <3> QED BY <2>3, <3>1, <3>2 DEF sleep_until
  <2>4. CASE Done \/ UNCHANGED vars
    BY <2>4 DEF Done, vars
  <2> QED BY <2>1, <2>2, <2>3, <2>4 DEF Next
<1>3. TypeInv => TypeOK
  BY DEF TypeInv
<1> QED BY <1>1, <1>2, <1>3, PTL DEF Spec

\* __CURRENT_TIME counts scans exactly for every period (updateTime()).
THEOREM ClockTimeIsScans == Spec => []TimeIsScans
<1> USE ClockAssumption
<1>1. Init => TimeIsScans
  BY DEF Init, TimeIsScans, Nanos
<1>2. TypeOK /\ TimeIsScans /\ [Next]_vars => TimeIsScans'
  <2> SUFFICES ASSUME TypeOK, TimeIsScans, [Next]_vars PROVE TimeIsScans'
    OBVIOUS
  <2>1. CASE RunScan
    BY <2>1 DEF RunScan, TimeIsScans, Nanos
  <2>2. CASE updateTime
    <3>1. Nanos(plc') = Nanos(plc) + TickTime
      BY <2>2, AddOnceExact DEF updateTime, TypeOK
    <3>2. (scans + 1) * TickTime = scans * TickTime + TickTime
      BY DEF TypeOK
    <3>3. scans' = scans + 1
      BY <2>2 DEF updateTime
    <3>4. Nanos(plc)' = Nanos(plc')
      BY DEF Nanos
    <3> QED BY <3>1, <3>2, <3>3, <3>4 DEF TimeIsScans
  <2>3. CASE sleep_until
    BY <2>3 DEF sleep_until, TimeIsScans, Nanos
  <2>4. CASE Done \/ UNCHANGED vars
    BY <2>4 DEF Done, vars, TimeIsScans, Nanos
  <2> QED BY <2>1, <2>2, <2>3, <2>4 DEF Next
<1> QED BY <1>1, <1>2, ClockTypeOK, PTL DEF Spec

-----------------------------------------------------------------------------
\* The deadline of sleep_until() stays on the grid epoch + k * TickTime, for
\* every period an int can hold.
THEOREM ClockDeadlineOnGrid ==
  ASSUME TickTime < IntHalf
  PROVE  Spec => []DeadlineOnGrid
<1> USE ClockAssumption
<1>1. Init => DeadlineOnGrid
  BY DEF Init, DeadlineOnGrid, Nanos
<1>2. TypeOK /\ DeadlineOnGrid /\ [Next]_vars => DeadlineOnGrid'
  <2> SUFFICES ASSUME TypeOK, DeadlineOnGrid, [Next]_vars
               PROVE  DeadlineOnGrid'
    OBVIOUS
  <2>0. Nanos(timer)' = Nanos(timer')
    BY DEF Nanos
  <2>1. CASE RunScan
    BY <2>1 DEF RunScan, DeadlineOnGrid, Nanos
  <2>2. CASE updateTime
    BY <2>2 DEF updateTime, DeadlineOnGrid, Nanos, TypeOK
  <2>3. CASE sleep_until
    <3>1. AsInt(TickTime) = TickTime
      BY AsIntExact
    <3>2. Nanos(timer') = Nanos(timer) + TickTime
      BY <2>3, <3>1, AddOnceExact DEF sleep_until, TypeOK
    <3>3. Nanos(timer) = epoch + (scans - 1) * TickTime
      BY <2>3 DEF sleep_until, DeadlineOnGrid
    <3>4. (scans - 1) * TickTime + TickTime = scans * TickTime
      BY DEF TypeOK
    <3>5. scans' = scans /\ epoch' = epoch /\ pc' = "scan"
      BY <2>3 DEF sleep_until
    <3>6. Nanos(timer') = epoch + scans * TickTime
      BY <3>2, <3>3, <3>4 DEF TypeOK
    <3> QED BY <2>0, <3>5, <3>6 DEF DeadlineOnGrid
  <2>4. CASE Done \/ UNCHANGED vars
    BY <2>4 DEF Done, vars, DeadlineOnGrid, Nanos
  <2> QED BY <2>1, <2>2, <2>3, <2>4 DEF Next
<1> QED BY <1>1, <1>2, ClockTypeOK, PTL DEF Spec

-----------------------------------------------------------------------------
\* What makes NeverAhead inductive: the deadline is valid, so it is slept to.
PacedInv == ValidTimespec(timer) /\ NeverAhead

\* The IEC timers never run ahead of real time (config_run__ reads
\* __CURRENT_TIME at the start of a scan) when the period is at most a second.
THEOREM ClockNeverAhead ==
  ASSUME TickTime <= SEC
  PROVE  Spec => []NeverAhead
<1> USE ClockAssumption
<1>0. Spec => []DeadlineOnGrid
  BY ClockDeadlineOnGrid
<1>1. Init => PacedInv
  BY DEF Init, PacedInv, NeverAhead, Nanos, ValidTimespec
<1>2. /\ TypeOK /\ TypeOK' /\ DeadlineOnGrid' /\ TimeIsScans'
      /\ PacedInv /\ [Next]_vars
      => PacedInv'
  <2> SUFFICES ASSUME TypeOK, TypeOK', DeadlineOnGrid', TimeIsScans',
                      PacedInv, [Next]_vars
               PROVE  PacedInv'
    OBVIOUS
  <2>1. CASE RunScan
    BY <2>1 DEF RunScan, PacedInv, NeverAhead, ValidTimespec
  <2>2. CASE updateTime
    BY <2>2 DEF updateTime, PacedInv, NeverAhead, ValidTimespec
  <2>3. CASE sleep_until
    <3>1. AsInt(TickTime) = TickTime
      BY AsIntExact
    <3>2. ValidTimespec(timer')
      BY <2>3, <3>1, AddOnceValid DEF sleep_until, PacedInv, TypeOK
    <3>3. Nanos(timer') \in Int
      BY DEF TypeOK, Timespec, Nanos
    <3>4. now' >= Nanos(timer')
      BY <2>3, <3>2, <3>3 DEF sleep_until, TypeOK
    <3>5. Nanos(timer') = epoch' + scans' * TickTime
      BY <2>3 DEF sleep_until, DeadlineOnGrid, Nanos
    <3>6. Nanos(plc') = scans' * TickTime
      BY DEF TimeIsScans, Nanos
    <3>7. now' >= epoch' + Nanos(plc')
      BY <3>4, <3>5, <3>6
    <3>8. now' \in Int /\ epoch' \in Int /\ Nanos(plc') \in Int
      BY DEF TypeOK, Timespec, Nanos
    <3>9. now' - epoch' >= Nanos(plc')
      BY <3>7, <3>8
    <3> QED BY <3>2, <3>9 DEF PacedInv, NeverAhead, Nanos, ValidTimespec
  <2>4. CASE Done \/ UNCHANGED vars
    BY <2>4 DEF Done, vars, PacedInv, NeverAhead, Nanos, ValidTimespec
  <2> QED BY <2>1, <2>2, <2>3, <2>4 DEF Next
<1>3. PacedInv => NeverAhead
  BY DEF PacedInv
<1> QED BY <1>0, <1>1, <1>2, <1>3, ClockTypeOK, ClockTimeIsScans, PTL DEF Spec

-----------------------------------------------------------------------------
\* A deadline that is out of range is so upwards, from a period above a second.
OutOfRange == ~ValidTimespec(timer) => TickTime > SEC /\ timer.nsec >= SEC

LEMMA StepOutOfRange ==
  ASSUME TickTime < IntHalf, TypeOK, OutOfRange, [Next]_vars
  PROVE  /\ ~ValidTimespec(timer') => TickTime > SEC /\ timer'.nsec >= SEC
         /\ ~ValidTimespec(timer) => ~ValidTimespec(timer')
<1> USE ClockAssumption
<1>1. timer.nsec \in Int
  BY DEF TypeOK, Timespec
<1>2. CASE sleep_until
  <2>1. timer' = AddOnce(timer, TickTime)
    BY <1>2, AsIntExact DEF sleep_until
  <2>2. timer'.nsec = IF timer.nsec + TickTime >= SEC THEN timer.nsec + TickTime - SEC
                                                    ELSE timer.nsec + TickTime
    BY <2>1, <1>1 DEF AddOnce, TypeOK, Timespec
  <2> QED BY <1>1, <2>2 DEF OutOfRange, ValidTimespec
<1>3. CASE UNCHANGED timer
  BY <1>3 DEF OutOfRange
<1> QED BY <1>2, <1>3 DEF Next, RunScan, updateTime, Done, vars

\* A period above a second ends the pacing of the loop for good, for every
\* period that fits sleep_until()'s int: the deadline that has left its range
\* gains more than a second with each scan and loses one.
THEOREM ClockPacingLostForGood ==
  ASSUME TickTime < IntHalf
  PROVE  Spec => PacingLostForGood
<1>1. Init => OutOfRange
  BY ClockAssumption DEF Init, OutOfRange, ValidTimespec
<1>2. TypeOK /\ OutOfRange /\ [Next]_vars => OutOfRange'
  BY StepOutOfRange DEF OutOfRange, ValidTimespec
<1>3. TypeOK /\ OutOfRange /\ [Next]_vars
        => [~ValidTimespec(timer) => ~ValidTimespec(timer')]_vars
  BY StepOutOfRange
<1> QED BY <1>1, <1>2, <1>3, ClockTypeOK, PTL DEF Spec, PacingLostForGood

-----------------------------------------------------------------------------
(* The function blocks. *)

\* A timespec as __CURRENT_TIME is: normalised and not negative.
Normal(t) == t \in Timespec /\ ValidTimespec(t)

\* A product by SEC keeps the order.
LEMMA TimesSec ==
  ASSUME NEW a \in Nat, NEW b \in Nat, a < b
  PROVE  a * SEC + SEC <= b * SEC
<1>1. PICK d \in Nat : b = a + 1 + d
  <2>1. b - a - 1 \in Nat /\ b = a + 1 + (b - a - 1)
    OBVIOUS
  <2> QED BY <2>1
<1>2. b * SEC = a * SEC + SEC + d * SEC
  BY <1>1, ClockAssumption
<1>3. d * SEC \in Nat /\ a * SEC \in Nat
  BY ClockAssumption
<1> QED BY <1>2, <1>3, ClockAssumption

\* A literal is converted to the normalised TIME of that many nanoseconds.
LEMMA AsTimeNormal ==
  ASSUME NEW n \in Nat
  PROVE  Normal(AsTime(n)) /\ Nanos(AsTime(n)) = n
<1>1. n \div SEC \in Nat /\ n % SEC \in 0..(SEC - 1) /\ n = SEC * (n \div SEC) + (n % SEC)
  BY ClockAssumption
<1> DEFINE q == n \div SEC
           r == n % SEC
<1>2. q \in Nat /\ r \in 0..(SEC - 1) /\ n = SEC * q + r
  BY <1>1
<1>3. AsTime(n) = [sec |-> q, nsec |-> r]
  BY DEF AsTime
<1> HIDE DEF q, r
<1>4. SEC * q = q * SEC
  BY <1>2, ClockAssumption
<1> QED BY <1>2, <1>3, <1>4, ClockAssumption DEF Normal, Timespec, ValidTimespec, Nanos

\* Without a sign to borrow for, __normalize_timespec() carries once.
LEMMA NormalizeCarries ==
  ASSUME NEW u \in Timespec, u.nsec \in Nat
  PROVE  Normalize(u) =
           IF u.nsec > SEC THEN [sec |-> u.sec + 1, nsec |-> u.nsec - SEC] ELSE u
<1> USE ClockAssumption DEF Timespec
<1> DEFINE borrowed == IF u.nsec < -SEC \/ (u.sec > 0 /\ u.nsec < 0)
                         THEN [sec |-> u.sec - 1, nsec |-> u.nsec + SEC] ELSE u
<1>1. borrowed = u
  OBVIOUS
<1>2. ~(u.sec < 0)
  OBVIOUS
<1> QED BY <1>1, <1>2 DEF Normalize

\* time_add() of two normalised times is their sum; its nanoseconds may be a
\* whole second, as __normalize_timespec() carries only above one.
LEMMA TimeAddExact ==
  ASSUME NEW s \in Timespec, NEW t \in Timespec, Normal(s), Normal(t)
  PROVE  /\ time_add(s, t) \in Timespec
         /\ time_add(s, t).nsec \in 0..SEC
         /\ Nanos(time_add(s, t)) = Nanos(s) + Nanos(t)
<1> USE ClockAssumption DEF Normal, ValidTimespec, Timespec
<1> DEFINE u == [sec |-> s.sec + t.sec, nsec |-> s.nsec + t.nsec]
<1>1. u.sec \in Nat /\ u.nsec \in 0..(2 * SEC - 2) /\ u.sec = s.sec + t.sec
      /\ u.nsec = s.nsec + t.nsec
  OBVIOUS
<1>2. time_add(s, t) = IF u.nsec > SEC THEN [sec |-> u.sec + 1, nsec |-> u.nsec - SEC] ELSE u
  <2>1. u \in Timespec /\ u.nsec \in Nat
    BY <1>1
  <2> QED BY <2>1, NormalizeCarries DEF time_add
<1>3. (s.sec + t.sec + 1) * SEC = s.sec * SEC + t.sec * SEC + SEC
      /\ (s.sec + t.sec) * SEC = s.sec * SEC + t.sec * SEC
  OBVIOUS
<1>4. CASE u.nsec > SEC
  <2>1. time_add(s, t) = [sec |-> u.sec + 1, nsec |-> u.nsec - SEC]
    BY <1>2, <1>4
  <2> QED BY <1>1, <1>3, <1>4, <2>1 DEF Nanos
<1>5. CASE ~(u.nsec > SEC)
  <2>1. time_add(s, t) = u
    BY <1>2, <1>5
  <2> QED BY <1>1, <1>3, <1>5, <2>1 DEF Nanos
<1> QED BY <1>4, <1>5

\* LE_TIME() compares the instants, although the first operand may have a
\* whole second of nanoseconds.
LEMMA LeTimeExact ==
  ASSUME NEW s \in Timespec, s.nsec \in 0..SEC, NEW t \in Timespec, Normal(t)
  PROVE  LE_TIME(s, t) <=> Nanos(s) <= Nanos(t)
<1> USE ClockAssumption DEF Normal, ValidTimespec, Timespec
<1>1. CASE s.sec = t.sec
  BY <1>1 DEF LE_TIME, Nanos
<1>2. CASE s.sec < t.sec
  <2>1. s.sec * SEC + SEC <= t.sec * SEC
    BY <1>2, TimesSec
  <2>2. s.sec * SEC \in Nat /\ t.sec * SEC \in Nat
    OBVIOUS
  <2> QED BY <1>2, <2>1, <2>2 DEF LE_TIME, Nanos
<1>3. CASE t.sec < s.sec
  <2>1. t.sec * SEC + SEC <= s.sec * SEC
    BY <1>3, TimesSec
  <2>2. s.sec * SEC \in Nat /\ t.sec * SEC \in Nat
    OBVIOUS
  <2> QED BY <1>3, <2>1, <2>2 DEF LE_TIME, Nanos
<1> QED BY <1>1, <1>2, <1>3

\* A timer is due when PT has passed since its START_TIME.
LEMMA DueExact ==
  ASSUME NEW f, NEW t, preset \in Nat, Normal(f.start), Normal(t)
  PROVE  Due(f, t) <=> Nanos(f.start) + preset <= Nanos(t)
<1>1. Normal(PT) /\ Nanos(PT) = preset
  BY AsTimeNormal DEF PT
<1>2. /\ time_add(f.start, PT) \in Timespec
      /\ time_add(f.start, PT).nsec \in 0..SEC
      /\ Nanos(time_add(f.start, PT)) = Nanos(f.start) + preset
  BY <1>1, TimeAddExact DEF Normal
<1> QED BY <1>2, LeTimeExact DEF Due, Normal

\* A difference of times is a time.
LEMMA TimeSubTime ==
  ASSUME NEW s \in Time, NEW t \in Time
  PROVE  time_sub(s, t) \in Time
<1> DEFINE u == [sec |-> s.sec - t.sec, nsec |-> s.nsec - t.nsec]
<1>1. u \in Time
  BY DEF Time
<1>2. \A v \in Time : Normalize(v) \in Time
  BY ClockAssumption DEF Normalize, Time
<1> QED BY <1>1, <1>2 DEF time_sub

\* The three assignments of a timer that moves keep the types.
LEMMA SetWithElapsed ==
  ASSUME NEW f \in Instance, NEW s \in 0..2, NEW b \in BOOLEAN, NEW t \in Time
  PROVE  [f EXCEPT !.state = s, !.q = b, !.et = t] \in Instance
BY DEF Instance

LEMMA SetElapsed ==
  ASSUME NEW f \in Instance, NEW s \in 0..2, NEW t \in Time
  PROVE  [f EXCEPT !.state = s, !.et = t] \in Instance
BY DEF Instance

LEMMA SetStart ==
  ASSUME NEW f \in Instance, NEW s \in 0..2, NEW t \in Time
  PROVE  [f EXCEPT !.state = s, !.start = t] \in Instance
BY DEF Instance

LEMMA SetRearmed ==
  ASSUME NEW f \in Instance, NEW s \in 0..2, NEW t \in Time
  PROVE  [f EXCEPT !.et = t, !.state = s] \in Instance
BY DEF Instance

LEMMA SetWithStart ==
  ASSUME NEW f \in Instance, NEW s \in 0..2, NEW b \in BOOLEAN, NEW t \in Time
  PROVE  [f EXCEPT !.state = s, !.q = b, !.start = t] \in Instance
BY DEF Instance

\* PREV_IN is stored last and disturbs nothing else.
LEMMA Updated ==
  ASSUME NEW f \in Instance, NEW b \in BOOLEAN
  PROVE  LET g == [f EXCEPT !.prev = b] IN
         /\ g \in Instance /\ g.prev = b
         /\ g.state = f.state /\ g.q = f.q /\ g.start = f.start
BY DEF Instance

\* The timer f was started at x.
Started(f, x) == Normal(f.start) /\ Nanos(f.start) = x

Expired(h) == h.last - h.since >= preset /\ h.last > h.since

\* An expired level stays expired.
LEMMA StaysExpired ==
  ASSUME preset \in Nat, NEW h, NEW o, NEW n \in Nat,
         h.last \in Nat, h.since \in Nat, o.last = n, o.since = h.since,
         Expired(h), h.last <= n
  PROVE  Expired(o)
BY DEF Expired

\* A timer that was started in an earlier scan is due when its level has expired.
LEMMA DueWhenExpired ==
  ASSUME preset \in Nat, NEW f, NEW h, NEW o, NEW t, Normal(t), Nanos(t) \in Nat,
         Started(f, h.since), h.since \in Nat, h.since < Nanos(t),
         o.last = Nanos(t), o.since = h.since
  PROVE  Due(f, t) <=> Expired(o)
<1>1. Due(f, t) <=> h.since + preset <= Nanos(t)
  BY DueExact DEF Started
<1>2. h.since + preset <= Nanos(t) <=> Expired(o)
  BY DEF Expired
<1> QED BY <1>1, <1>2

-----------------------------------------------------------------------------
\* What a history of executed scans satisfies at any time t.
History(h) ==
  /\ h.in \in BOOLEAN /\ h.risen \in BOOLEAN /\ (h.in => h.risen)
  /\ h.since \in Nat /\ h.last \in Nat /\ h.since <= h.last
  /\ h.pulse \in Nat \cup {NoPulse} /\ h.pulse <= h.last
  /\ (h.pulse # NoPulse => h.risen)

\* The history lies before an instant t that is about to be observed.
Precedes(h, t) == h.last <= Nanos(t) /\ (h.risen => h.last < Nanos(t))

\* How STATE, Q and START_TIME of each timer mirror the history.
TONTracks(f, h) ==
  /\ f.prev = h.in
  /\ f.state = 0 => ~h.in /\ ~f.q
  /\ f.state = 1 => h.in /\ ~f.q /\ Started(f, h.since) /\ ~Expired(h)
  /\ f.state = 2 => h.in /\ f.q /\ Expired(h)

TOFTracks(f, h) ==
  /\ f.prev = h.in
  /\ f.q <=> (h.in \/ f.state = 1)
  /\ f.state = 0 => h.in \/ ~h.risen
  /\ f.state = 1 => ~h.in /\ h.risen /\ Started(f, h.since) /\ ~Expired(h)
  /\ f.state = 2 => ~h.in /\ h.risen /\ Expired(h)

TPTracks(f, h) ==
  /\ f.prev = h.in
  /\ f.state = 0 => ~h.in /\ ~f.q /\ PulseOver(h)
  /\ f.state = 1 => f.q /\ h.pulse # NoPulse /\ Started(f, h.pulse) /\ ~PulseOver(h)
  /\ f.state = 2 => h.in /\ ~f.q /\ h.pulse # NoPulse /\ PulseOver(h)

\* Observing a scan keeps a history one.
LEMMA ObserveHistory ==
  ASSUME NEW h, History(h), NEW i \in Inputs, NEW n \in Nat,
         h.last <= n
  PROVE  /\ History(Observe(h, i, n))
         /\ Observe(h, i, n).last = n
         /\ Observe(h, i, n).in = i.in
         /\ (Observe(h, i, n).risen <=> (h.risen \/ i.in))
         /\ Observe(h, i, n).since = IF i.in = h.in THEN h.since ELSE n
BY DEF History, Observe, Inputs, NoPulse

\* One call of TON_body__().
LEMMA TONCall ==
  ASSUME preset \in Nat, NEW f \in Instance, NEW h, History(h), TONTracks(f, h),
         NEW i \in Inputs, NEW t, Normal(t), Precedes(h, t), Nanos(t) \in Nat
  PROVE  /\ TON(f, i, t) \in Instance
         /\ TONTracks(TON(f, i, t), Observe(h, i, Nanos(t)))
<1> DEFINE n == Nanos(t)
           o == Observe(h, i, n)
           m == TONMove(f, i, t)
           g == TON(f, i, t)
<1>1. /\ o.last = n /\ o.in = i.in /\ o.since = IF i.in = h.in THEN h.since ELSE n
      /\ n \in Nat /\ o.since \in Nat
  BY ObserveHistory DEF Precedes, History
<1>2. i.in \in BOOLEAN /\ h.in \in BOOLEAN /\ f.state \in {0, 1, 2} /\ f.start \in Time
  BY DEF Inputs, History, Instance
<1>3. t \in Time /\ Zero \in Time /\ PT \in Time
  <2>1. Normal(PT)
    BY AsTimeNormal DEF PT
  <2> QED BY <2>1 DEF Normal, Timespec, Time, Zero
<1>c. 0 \in 0..2 /\ 1 \in 0..2 /\ 2 \in 0..2 /\ TRUE \in BOOLEAN /\ FALSE \in BOOLEAN
  OBVIOUS
<1>g. g = [m EXCEPT !.prev = i.in]
  BY DEF TON
<1> HIDE DEF n, o, m, g
<1>4. CASE ~i.in
  <2>1. m = [f EXCEPT !.state = 0, !.q = FALSE, !.et = Zero]
    BY <1>4, <1>2 DEF m, TONMove
  <2>2. m \in Instance
    BY <2>1, <1>3, <1>c, SetWithElapsed, Zenon
  <2>3. m.state = 0 /\ m.q = FALSE
    BY <2>1 DEF Instance
  <2>4. g \in Instance /\ g.state = 0 /\ g.q = FALSE /\ g.prev = i.in
    BY <1>2, <1>g, <2>2, <2>3, Updated
  <2> QED BY <2>4, <1>1, <1>4 DEF TONTracks, g, o, n
<1>5. CASE i.in /\ f.state = 0
  <2>1. ~h.in /\ ~f.prev
    BY <1>5 DEF TONTracks
  <2>2. m = [f EXCEPT !.state = 1, !.q = FALSE, !.start = t]
    BY <1>5, <1>2, <2>1 DEF m, TONMove
  <2>3. m \in Instance
    BY <2>2, <1>3, <1>c, SetWithStart, Zenon
  <2>4. m.state = 1 /\ m.q = FALSE /\ m.start = t
    BY <2>2 DEF Instance
  <2>5. g \in Instance /\ g.state = 1 /\ g.q = FALSE /\ g.start = t /\ g.prev = i.in
    BY <1>2, <1>g, <2>3, <2>4, Updated
  <2>6. o.since = n
    BY <2>1, <1>1, <1>5
  <2>7. Started(g, o.since) /\ ~Expired(o)
    BY <2>5, <2>6, <1>1 DEF Started, Expired, n
  <2> QED BY <2>5, <2>7, <1>1, <1>5 DEF TONTracks, g, o, n
<1>6. CASE i.in /\ f.state = 1
  <2>1. h.in /\ ~f.q /\ Started(f, h.since)
    BY <1>6 DEF TONTracks
  <2>2. o.since = h.since /\ h.since \in Nat
    BY <2>1, <1>6, <1>1 DEF History
  <2>3. h.since < n
    BY <2>1, <2>2 DEF Precedes, History, n
  <2>4. Due(f, t) <=> Expired(o)
    BY <2>1, <2>2, <2>3, <1>1, DueWhenExpired DEF n
  <2>5. CASE Due(f, t)
    <3>1. m = [f EXCEPT !.state = 2, !.q = TRUE, !.et = PT]
      BY <1>6, <1>2, <2>5 DEF m, TONMove
    <3>2. m \in Instance
      BY <3>1, <1>3, <1>c, SetWithElapsed, Zenon
    <3>3. m.state = 2 /\ m.q = TRUE
      BY <3>1 DEF Instance
    <3>4. g \in Instance /\ g.state = 2 /\ g.q = TRUE /\ g.prev = i.in
      BY <1>2, <1>g, <3>2, <3>3, Updated
    <3> QED BY <3>4, <2>4, <2>5, <1>1, <1>6 DEF TONTracks, g, o, n
  <2>6. CASE ~Due(f, t)
    <3>0. time_sub(t, f.start) \in Time
      BY <1>2, <1>3, TimeSubTime
    <3>1. m = [f EXCEPT !.et = time_sub(t, f.start)]
      BY <1>6, <1>2, <2>6 DEF m, TONMove
    <3>2. m \in Instance
      BY <3>0, <3>1 DEF Instance
    <3>3. m.state = 1 /\ m.q = f.q /\ m.start = f.start
      BY <3>1, <1>6 DEF Instance
    <3>4. g \in Instance /\ g.state = 1 /\ g.q = f.q /\ g.start = f.start /\ g.prev = i.in
      BY <1>2, <1>g, <3>2, <3>3, Updated
    <3>5. Started(g, o.since)
      BY <2>1, <2>2, <3>4 DEF Started
    <3> QED BY <3>4, <3>5, <2>1, <2>4, <2>6, <1>1, <1>6 DEF TONTracks, g, o, n
  <2> QED BY <2>5, <2>6
<1>7. CASE i.in /\ f.state = 2
  <2>1. m = f
    BY <1>7, <1>2 DEF m, TONMove
  <2>2. g \in Instance /\ g.state = 2 /\ g.q = f.q /\ g.prev = i.in
    BY <1>2, <1>7, <1>g, <2>1, Updated
  <2>3. h.in /\ f.q /\ Expired(h) /\ h.last <= n
    BY <1>7 DEF TONTracks, Precedes, n
  <2>4. o.since = h.since /\ h.since \in Nat /\ h.last \in Nat
    BY <2>3, <1>7, <1>1 DEF History
  <2>5. Expired(o)
    BY <2>3, <2>4, <1>1, StaysExpired
  <2> QED BY <2>2, <2>3, <2>5, <1>1, <1>7 DEF TONTracks, g, o, n
<1> QED BY <1>2, <1>4, <1>5, <1>6, <1>7 DEF g, o, n

\* What TOF_body__() makes of the move of its state.
LEMMA TOFResult ==
  ASSUME NEW f, NEW i, i.in \in BOOLEAN, NEW t, TOFMove(f, i, t) \in Instance
  PROVE  /\ TOF(f, i, t) \in Instance
         /\ TOF(f, i, t).prev = i.in
         /\ TOF(f, i, t).q <=> (i.in \/ TOFMove(f, i, t).state = 1)
         /\ TOF(f, i, t).state = TOFMove(f, i, t).state
         /\ TOF(f, i, t).start = TOFMove(f, i, t).start
<1>1. PICK m \in Instance : m = TOFMove(f, i, t)
  OBVIOUS
<1>2. PICK c \in BOOLEAN : c = (i.in \/ m.state = 1)
  OBVIOUS
<1>3. TOF(f, i, t) = [m EXCEPT !.q = c, !.prev = i.in]
  BY <1>1, <1>2 DEF TOF
<1>4. \A b \in BOOLEAN : LET g == [m EXCEPT !.q = c, !.prev = b] IN
        /\ g \in Instance /\ g.prev = b /\ g.q = c
        /\ g.state = m.state /\ g.start = m.start
  BY DEF Instance
<1>5. TOF(f, i, t).q = c
  BY <1>3, <1>4
<1> QED BY <1>1, <1>2, <1>3, <1>4, <1>5

\* One call of TOF_body__().
LEMMA TOFCall ==
  ASSUME preset \in Nat, NEW f \in Instance, NEW h, History(h), TOFTracks(f, h),
         NEW i \in Inputs, NEW t, Normal(t), Precedes(h, t), Nanos(t) \in Nat
  PROVE  /\ TOF(f, i, t) \in Instance
         /\ TOFTracks(TOF(f, i, t), Observe(h, i, Nanos(t)))
<1> DEFINE n == Nanos(t)
           o == Observe(h, i, n)
           m == TOFMove(f, i, t)
           g == TOF(f, i, t)
           c == i.in \/ m.state = 1
<1>1. /\ o.last = n /\ o.in = i.in /\ o.since = IF i.in = h.in THEN h.since ELSE n
      /\ (o.risen <=> (h.risen \/ i.in))
      /\ n \in Nat /\ o.since \in Nat
  BY ObserveHistory DEF Precedes, History
<1>2. i.in \in BOOLEAN /\ h.in \in BOOLEAN /\ f.state \in {0, 1, 2} /\ f.start \in Time
  BY DEF Inputs, History, Instance
<1>3. t \in Time /\ Zero \in Time /\ PT \in Time
  <2>1. Normal(PT)
    BY AsTimeNormal DEF PT
  <2> QED BY <2>1 DEF Normal, Timespec, Time, Zero
<1>g. g = [m EXCEPT !.q = c, !.prev = i.in] /\ c \in BOOLEAN
  BY DEF TOF
<1>u. m \in Instance => /\ g \in Instance /\ g.prev = i.in /\ (g.q <=> c)
                        /\ g.state = m.state /\ g.start = m.start
  BY <1>2, TOFResult DEF m, g, c
<1>d. 0 \in 0..2 /\ 1 \in 0..2 /\ 2 \in 0..2
  OBVIOUS
<1>c. c <=> (i.in \/ m.state = 1)
  OBVIOUS
<1> HIDE DEF n, o, m, g, c
<1>4. CASE i.in
  <2>1. m = [f EXCEPT !.state = 0, !.et = Zero]
    BY <1>4, <1>2 DEF m, TOFMove
  <2>2. m \in Instance
    BY <2>1, <1>3, <1>d, SetElapsed, Zenon
  <2>3. m.state = 0
    BY <2>1 DEF Instance
  <2>4. g \in Instance /\ g.state = 0 /\ (g.q <=> c) /\ g.prev = i.in
    BY <1>u, <2>2, <2>3
  <2> QED BY <2>3, <2>4, <1>1, <1>4, <1>c, <1>g DEF TOFTracks, g, o, n
<1>5. CASE ~i.in /\ f.state = 0 /\ ~h.in
  <2>1. m = f
    BY <1>5, <1>2 DEF m, TOFMove, TOFTracks
  <2>2. g \in Instance /\ g.state = 0 /\ (g.q <=> c) /\ g.prev = i.in
    BY <1>5, <1>u, <2>1
  <2>3. ~h.risen
    BY <1>5 DEF TOFTracks
  <2> QED BY <2>1, <2>2, <2>3, <1>1, <1>2, <1>5, <1>c, <1>g DEF TOFTracks, g, o, n
<1>6. CASE ~i.in /\ f.state = 0 /\ h.in
  <2>1. m = [f EXCEPT !.state = 1, !.start = t]
    BY <1>6, <1>2 DEF m, TOFMove, TOFTracks
  <2>2. m \in Instance
    BY <2>1, <1>3, <1>d, SetStart, Zenon
  <2>3. m.state = 1 /\ m.start = t
    BY <2>1 DEF Instance
  <2>4. g \in Instance /\ g.state = 1 /\ (g.q <=> c) /\ g.start = t /\ g.prev = i.in
    BY <1>u, <2>2, <2>3
  <2>5. o.since = n /\ h.risen
    BY <1>1, <1>6 DEF History
  <2>6. Started(g, o.since) /\ ~Expired(o)
    BY <2>4, <2>5, <1>1 DEF Started, Expired, n
  <2>7. ~o.in /\ o.risen /\ g.q
    BY <2>3, <2>4, <2>5, <1>1, <1>6, <1>c
  <2> QED BY <2>4, <2>6, <2>7, <1>1 DEF TOFTracks, g, o, n
<1>7. CASE ~i.in /\ f.state = 1
  <2>1. ~h.in /\ h.risen /\ Started(f, h.since)
    BY <1>7 DEF TOFTracks
  <2>2. o.since = h.since /\ h.since \in Nat
    BY <2>1, <1>7, <1>1, <1>2 DEF History
  <2>3. h.since < n
    BY <2>1, <2>2 DEF Precedes, History, n
  <2>4. Due(f, t) <=> Expired(o)
    BY <2>1, <2>2, <2>3, <1>1, DueWhenExpired DEF n
  <2>5. CASE Due(f, t)
    <3>1. m = [f EXCEPT !.state = 2, !.et = PT]
      BY <1>7, <1>2, <2>5 DEF m, TOFMove
    <3>2. m \in Instance
      BY <3>1, <1>3, <1>d, SetElapsed, Zenon
    <3>3. m.state = 2
      BY <3>1 DEF Instance
    <3>4. g \in Instance /\ g.state = 2 /\ (g.q <=> c) /\ g.prev = i.in
      BY <1>u, <3>2, <3>3
    <3>5. ~o.in /\ o.risen /\ ~g.q /\ Expired(o)
      BY <3>3, <3>4, <2>1, <2>4, <2>5, <1>1, <1>7, <1>c
    <3> QED BY <3>4, <3>5, <1>1 DEF TOFTracks, g, o, n
  <2>6. CASE ~Due(f, t)
    <3>0. time_sub(t, f.start) \in Time
      BY <1>2, <1>3, TimeSubTime
    <3>1. m = [f EXCEPT !.et = time_sub(t, f.start)]
      BY <1>7, <1>2, <2>6 DEF m, TOFMove
    <3>2. m \in Instance
      BY <3>0, <3>1 DEF Instance
    <3>3. m.state = 1 /\ m.start = f.start
      BY <3>1, <1>7 DEF Instance
    <3>4. g \in Instance /\ g.state = 1 /\ (g.q <=> c) /\ g.start = f.start /\ g.prev = i.in
      BY <1>u, <3>2, <3>3
    <3>5. Started(g, o.since)
      BY <2>1, <2>2, <3>4 DEF Started
    <3> QED BY <3>3, <3>4, <3>5, <2>1, <2>4, <2>6, <1>1, <1>7, <1>c, <1>g
            DEF TOFTracks, g, o, n
  <2> QED BY <2>5, <2>6
<1>8. CASE ~i.in /\ f.state = 2
  <2>1. m = f
    BY <1>8, <1>2 DEF m, TOFMove
  <2>2. g \in Instance /\ g.state = 2 /\ (g.q <=> c) /\ g.prev = i.in
    BY <1>8, <1>u, <2>1
  <2>3. ~h.in /\ h.risen /\ Expired(h) /\ h.last <= n
    BY <1>8 DEF TOFTracks, Precedes, n
  <2>4. o.since = h.since /\ h.since \in Nat /\ h.last \in Nat
    BY <2>3, <1>8, <1>1, <1>2 DEF History
  <2>5. Expired(o)
    BY <2>3, <2>4, <1>1, StaysExpired
  <2> QED BY <2>1, <2>2, <2>3, <2>5, <1>1, <1>8, <1>c, <1>g DEF TOFTracks, g, o, n
<1> QED BY <1>2, <1>4, <1>5, <1>6, <1>7, <1>8 DEF g, o, n

\* The pulse of a history, after one more executed scan of a TP.
LEMMA ObservePulse ==
  ASSUME block = "TP", NEW h, NEW i \in Inputs, NEW n \in Nat
  PROVE  Observe(h, i, n).pulse =
           IF i.in /\ ~h.in /\ PulseOver(h) THEN n ELSE h.pulse
BY DEF Observe

\* A TP that was started in an earlier scan is due when its pulse is over.
LEMMA DueWhenOver ==
  ASSUME preset \in Nat, NEW f, NEW h, NEW o, NEW t, Normal(t), Nanos(t) \in Nat,
         Started(f, h.pulse), h.pulse \in Nat, h.pulse < Nanos(t),
         o.last = Nanos(t), o.pulse = h.pulse
  PROVE  Due(f, t) <=> PulseOver(o)
<1>1. Due(f, t) <=> h.pulse + preset <= Nanos(t)
  BY DueExact DEF Started
<1>2. h.pulse + preset <= Nanos(t) <=> PulseOver(o)
  BY DEF PulseOver, NoPulse
<1> QED BY <1>1, <1>2

\* One call of TP_body__().
LEMMA TPCall ==
  ASSUME preset \in Nat, block = "TP",
         NEW f \in Instance, NEW h, History(h), TPTracks(f, h),
         NEW i \in Inputs, NEW t, Normal(t), Precedes(h, t), Nanos(t) \in Nat
  PROVE  /\ TP(f, i, t) \in Instance
         /\ TPTracks(TP(f, i, t), Observe(h, i, Nanos(t)))
<1> DEFINE n == Nanos(t)
           o == Observe(h, i, n)
           m == TPMove(f, i, t)
           r == TPRearm(m, i)
           g == TP(f, i, t)
<1>1. /\ o.last = n /\ o.in = i.in /\ n \in Nat
      /\ o.pulse = IF i.in /\ ~h.in /\ PulseOver(h) THEN n ELSE h.pulse
  <2>1. o.last = n /\ o.in = i.in /\ n \in Nat
    BY ObserveHistory DEF Precedes, History
  <2>2. o.pulse = IF i.in /\ ~h.in /\ PulseOver(h) THEN n ELSE h.pulse
    BY <2>1, ObservePulse
  <2> QED BY <2>1, <2>2
<1>2. i.in \in BOOLEAN /\ h.in \in BOOLEAN /\ f.state \in {0, 1, 2} /\ f.start \in Time
  BY DEF Inputs, History, Instance
<1>3. t \in Time /\ Zero \in Time /\ PT \in Time
  <2>1. Normal(PT)
    BY AsTimeNormal DEF PT
  <2> QED BY <2>1 DEF Normal, Timespec, Time, Zero
<1>g. g = [r EXCEPT !.prev = i.in]
  BY DEF TP
<1>r. r = IF m.state = 2 /\ ~i.in THEN [m EXCEPT !.et = Zero, !.state = 0] ELSE m
  BY DEF TPRearm
<1>c. 0 \in 0..2 /\ 1 \in 0..2 /\ 2 \in 0..2 /\ TRUE \in BOOLEAN /\ FALSE \in BOOLEAN
  OBVIOUS
<1> HIDE DEF n, o, m, r, g
<1>rearm. ASSUME m \in Instance, m.state = 2, m.q = FALSE, o.pulse # NoPulse, PulseOver(o)
          PROVE  g \in Instance /\ TPTracks(g, o)
  <2>1. CASE i.in
    <3>1. r = m
      BY <1>r, <2>1
    <3>2. g \in Instance /\ g.state = 2 /\ g.q = FALSE /\ g.prev = i.in
      BY <1>2, <1>g, <1>rearm, <3>1, Updated
    <3> QED BY <3>2, <2>1, <1>1, <1>rearm DEF TPTracks
  <2>2. CASE ~i.in
    <3>1. r = [m EXCEPT !.et = Zero, !.state = 0]
      BY <1>r, <1>rearm, <2>2
    <3>2. r \in Instance
      BY <3>1, <1>3, <1>c, <1>rearm, SetRearmed, Zenon
    <3>3. r.state = 0 /\ r.q = FALSE
      BY <3>1, <1>rearm DEF Instance
    <3>4. g \in Instance /\ g.state = 0 /\ g.q = FALSE /\ g.prev = i.in
      BY <1>2, <1>g, <3>2, <3>3, Updated
    <3> QED BY <3>4, <2>2, <1>1, <1>rearm DEF TPTracks
  <2> QED BY <2>1, <2>2
<1>4. CASE f.state = 0 /\ i.in
  <2>1. ~h.in /\ ~f.prev /\ PulseOver(h)
    BY <1>4 DEF TPTracks
  <2>2. m = [f EXCEPT !.state = 1, !.q = TRUE, !.start = t]
    BY <1>4, <1>2, <2>1 DEF m, TPMove
  <2>3. m \in Instance
    BY <2>2, <1>3, <1>c, SetWithStart, Zenon
  <2>4. m.state = 1 /\ m.q = TRUE /\ m.start = t
    BY <2>2 DEF Instance
  <2>5. r = m
    BY <2>4, <1>r
  <2>6. g \in Instance /\ g.state = 1 /\ g.q = TRUE /\ g.start = t /\ g.prev = i.in
    BY <1>2, <1>g, <2>3, <2>4, <2>5, Updated
  <2>7. o.pulse = n
    BY <2>1, <1>1, <1>4
  <2>8. Started(g, o.pulse) /\ ~PulseOver(o) /\ o.pulse # NoPulse
    BY <2>6, <2>7, <1>1 DEF Started, PulseOver, NoPulse, n
  <2> QED BY <2>6, <2>8, <1>1, <1>4 DEF TPTracks, g, o, n
<1>5. CASE f.state = 0 /\ ~i.in
  <2>1. m = f
    BY <1>5, <1>2 DEF m, TPMove
  <2>2. r = m
    BY <2>1, <1>5, <1>r
  <2>3. g \in Instance /\ g.state = 0 /\ g.q = f.q /\ g.prev = i.in
    BY <1>2, <1>5, <1>g, <2>1, <2>2, Updated
  <2>4. ~f.q /\ PulseOver(h) /\ h.last <= n /\ o.pulse = h.pulse
    BY <1>1, <1>5 DEF TPTracks, Precedes, n
  <2>5. h.pulse \in Nat \cup {NoPulse} /\ h.last \in Nat
    BY DEF History
  <2>6. PulseOver(o)
    BY <2>4, <2>5, <1>1 DEF PulseOver, NoPulse
  <2> QED BY <2>3, <2>4, <2>6, <1>1, <1>5 DEF TPTracks, g, o, n
<1>6. CASE f.state = 1
  <2>1. f.q /\ h.pulse # NoPulse /\ Started(f, h.pulse) /\ ~PulseOver(h)
    BY <1>6 DEF TPTracks
  <2>2. o.pulse = h.pulse /\ h.pulse \in Nat
    BY <2>1, <1>1 DEF History
  <2>3. h.pulse < n
    BY <2>1, <2>2 DEF Precedes, History, n
  <2>4. Due(f, t) <=> PulseOver(o)
    BY <2>1, <2>2, <2>3, <1>1, DueWhenOver DEF n
  <2>5. CASE Due(f, t)
    <3>1. m = [f EXCEPT !.state = 2, !.q = FALSE, !.et = PT]
      BY <1>6, <1>2, <2>5 DEF m, TPMove
    <3>2. m \in Instance
      BY <3>1, <1>3, <1>c, SetWithElapsed, Zenon
    <3>3. m.state = 2 /\ m.q = FALSE
      BY <3>1 DEF Instance
    <3>4. o.pulse # NoPulse /\ PulseOver(o)
      BY <2>1, <2>2, <2>4, <2>5
    <3> QED BY <3>2, <3>3, <3>4, <1>rearm DEF g, o, n
  <2>6. CASE ~Due(f, t)
    <3>0. time_sub(t, f.start) \in Time
      BY <1>2, <1>3, TimeSubTime
    <3>1. m = [f EXCEPT !.et = time_sub(t, f.start)]
      BY <1>6, <1>2, <2>6 DEF m, TPMove
    <3>2. m \in Instance
      BY <3>0, <3>1 DEF Instance
    <3>3. m.state = 1 /\ m.q = f.q /\ m.start = f.start
      BY <3>1, <1>6 DEF Instance
    <3>4. r = m
      BY <3>3, <1>r
    <3>5. g \in Instance /\ g.state = 1 /\ g.q = f.q /\ g.start = f.start /\ g.prev = i.in
      BY <1>2, <1>g, <3>2, <3>3, <3>4, Updated
    <3>6. Started(g, o.pulse)
      BY <2>1, <2>2, <3>5 DEF Started
    <3> QED BY <3>5, <3>6, <2>1, <2>2, <2>4, <2>6, <1>1 DEF TPTracks, g, o, n
  <2> QED BY <2>5, <2>6
<1>7. CASE f.state = 2
  <2>1. m = f
    BY <1>7, <1>2 DEF m, TPMove
  <2>2. h.in /\ ~f.q /\ h.pulse # NoPulse /\ PulseOver(h) /\ h.last <= n
    BY <1>7 DEF TPTracks, Precedes, n
  <2>3. o.pulse = h.pulse /\ h.pulse \in Nat /\ h.last \in Nat
    BY <2>2, <1>1 DEF History
  <2>4. PulseOver(o)
    BY <2>2, <2>3, <1>1 DEF PulseOver, NoPulse
  <2>5. f.q = FALSE
    BY <2>2 DEF Instance
  <2> QED BY <1>7, <2>1, <2>2, <2>3, <2>4, <2>5, <1>rearm DEF g, o, n
<1> QED BY <1>2, <1>4, <1>5, <1>6, <1>7 DEF g, o, n

-----------------------------------------------------------------------------
\* The composition leaves the scan loop as it is, so its theorems hold here.
LEMMA BlockImplementsClock == BlockSpec => Spec
<1>1. BlockInit => Init
  BY DEF BlockInit
<1>2. [BlockNext]_allVars => [Next]_vars
  BY DEF BlockNext, RunProgram, Next, allVars, vars, blockVars
<1> QED BY <1>1, <1>2, PTL DEF BlockSpec, Spec

\* Where the history lies in time: before the IEC clock's next reading, and
\* never ahead of real time.
HistoryInv ==
  /\ preset \in Nat /\ block \in Kinds
  /\ Normal(plc)
  /\ History(hist)
  /\ hist.last <= Nanos(plc)
  /\ (pc # "time" /\ hist.risen) => hist.last < Nanos(plc)
  /\ hist.last <= now - epoch

\* The three timers.
TimerInv ==
  /\ block \in Timers => fb \in Instance
  /\ block = "TON" => TONTracks(fb, hist)
  /\ block = "TOF" => TOFTracks(fb, hist)
  /\ block = "TP" => TPTracks(fb, hist)

\* A normalised time is a natural number of nanoseconds.
LEMMA NormalNat == ASSUME NEW t, Normal(t) PROVE Nanos(t) \in Nat
BY ClockAssumption DEF Normal, Timespec, ValidTimespec, Nanos

LEMMA BlockStart == BlockInit => HistoryInv /\ TimerInv
<1> SUFFICES ASSUME BlockInit PROVE HistoryInv /\ TimerInv
  OBVIOUS
<1> USE ClockAssumption, BlocksAssumption DEF BlockInit, Init
<1>1. Normal(plc) /\ Nanos(plc) = 0
  BY DEF Normal, Timespec, ValidTimespec, Nanos
<1>2. History(hist)
  BY DEF History, NoPulse
<1>3. HistoryInv
  BY <1>1, <1>2 DEF HistoryInv
<1>4. fb \in Instance
  BY DEF Instance, Zero, Time
<1>5. fb.prev = FALSE /\ fb.q = FALSE /\ fb.state = 0 /\ hist.in = FALSE
      /\ hist.risen = FALSE /\ hist.pulse = NoPulse
  OBVIOUS
<1>6. PulseOver(hist)
  BY <1>5 DEF PulseOver
<1> QED BY <1>3, <1>4, <1>5, <1>6 DEF TimerInv, TONTracks, TOFTracks, TPTracks

\* A scan that executes the block.
LEMMA BlockExecutes ==
  ASSUME TypeOK, NeverAhead, HistoryInv, TimerInv, RunProgram
  PROVE  HistoryInv' /\ TimerInv'
<1>1. PICK i \in Inputs : Execute(i)
  BY DEF RunProgram
<1>2. /\ pc = "scan" /\ pc' = "time" /\ plc' = plc /\ epoch' = epoch
      /\ block' = block /\ preset' = preset
  BY DEF RunProgram, RunScan
<1>3. now' \in Nat /\ now' >= now /\ now \in Nat /\ epoch \in Nat
  BY ClockAssumption DEF RunProgram, RunScan, TypeOK
<1>4. Nanos(plc) \in Nat /\ Normal(plc)
  BY NormalNat DEF HistoryInv
<1>5. now - epoch >= Nanos(plc)
  BY <1>2 DEF NeverAhead
<1>6. Precedes(hist, plc)
  BY <1>2 DEF HistoryInv, Precedes
<1>n. Nanos(plc)' = Nanos(plc)
  BY <1>2 DEF Nanos
<1>7. CASE ~i.en
  <2>1. fb' = fb /\ hist' = hist
    BY <1>1, <1>7 DEF Execute
  <2>2. History(hist)' /\ Normal(plc)' /\ PulseOver(hist)' = PulseOver(hist)
    BY <2>1, <1>2 DEF HistoryInv, History, Normal, ValidTimespec, PulseOver
  <2>3. hist.last \in Nat
    BY DEF HistoryInv, History
  <2>4. hist'.last <= now' - epoch'
    BY <2>1, <2>3, <1>2, <1>3 DEF HistoryInv
  <2>5. HistoryInv'
    BY <2>1, <2>2, <2>4, <1>2, <1>n DEF HistoryInv
  <2>6. TimerInv'
    BY <2>1, <1>2 DEF TimerInv, TONTracks, TOFTracks, TPTracks, Started, Normal,
                      ValidTimespec, Expired, PulseOver, Nanos
  <2> QED BY <2>5, <2>6
<1>8. CASE i.en
  <2> DEFINE o == Observe(hist, i, Nanos(plc))
  <2>1. fb' = Body(fb, i, plc) /\ hist' = o
    BY <1>1, <1>8 DEF Execute
  <2>2. History(o) /\ o.last = Nanos(plc)
    BY <1>4, <1>6, ObserveHistory DEF HistoryInv, Precedes
  <2>3. o.last <= now' - epoch'
    BY <2>2, <1>2, <1>3, <1>4, <1>5
  <2>4. HistoryInv'
    <3>1. History(hist)' /\ Normal(plc)'
      BY <2>1, <2>2, <1>2, <1>4 DEF History, Normal, ValidTimespec
    <3> QED BY <3>1, <2>1, <2>2, <2>3, <1>2, <1>4, <1>n DEF HistoryInv
  <2> HIDE DEF o
  <2>5. CASE block = "TON"
    <3>1. fb' = TON(fb, i, plc)
      BY <2>1, <2>5 DEF Body
    <3>2. fb' \in Instance /\ TONTracks(fb', hist')
      BY <3>1, <2>1, <2>5, <1>4, <1>6, TONCall DEF o, HistoryInv, TimerInv, Timers
    <3>3. TONTracks(fb, hist)'
      BY <3>2, <1>2 DEF TONTracks, Started, Normal, ValidTimespec, Expired, Nanos
    <3> QED BY <3>2, <3>3, <2>4, <2>5, <1>2 DEF TimerInv
  <2>6. CASE block = "TOF"
    <3>1. fb' = TOF(fb, i, plc)
      BY <2>1, <2>6 DEF Body
    <3>2. fb' \in Instance /\ TOFTracks(fb', hist')
      BY <3>1, <2>1, <2>6, <1>4, <1>6, TOFCall DEF o, HistoryInv, TimerInv, Timers
    <3>3. TOFTracks(fb, hist)'
      BY <3>2, <1>2 DEF TOFTracks, Started, Normal, ValidTimespec, Expired, Nanos
    <3> QED BY <3>2, <3>3, <2>4, <2>6, <1>2 DEF TimerInv
  <2>7. CASE block = "TP"
    <3>1. fb' = TP(fb, i, plc)
      BY <2>1, <2>7 DEF Body
    <3>2. fb' \in Instance /\ TPTracks(fb', hist')
      BY <3>1, <2>1, <2>7, <1>4, <1>6, TPCall DEF o, HistoryInv, TimerInv, Timers
    <3>3. TPTracks(fb, hist)'
      BY <3>2, <1>2 DEF TPTracks, Started, Normal, ValidTimespec, PulseOver, Nanos
    <3> QED BY <3>2, <3>3, <2>4, <2>7, <1>2 DEF TimerInv
  <2>8. CASE block \notin Timers
    BY <2>4, <2>8, <1>2 DEF TimerInv, Timers
  <2> QED BY <2>5, <2>6, <2>7, <2>8 DEF Timers
<1> QED BY <1>7, <1>8

\* The rest of the scan loop moves the clocks on.
LEMMA BlockWaits ==
  ASSUME TickTime <= SEC, TypeOK, TypeOK', NeverAhead', HistoryInv, TimerInv,
         (updateTime \/ sleep_until \/ Done) /\ UNCHANGED blockVars
  PROVE  HistoryInv' /\ TimerInv'
<1>1. block' = block /\ preset' = preset /\ fb' = fb /\ hist' = hist
  BY DEF blockVars
<1>2. TimerInv'
  BY <1>1 DEF TimerInv, TONTracks, TOFTracks, TPTracks, Started, Normal,
              ValidTimespec, Expired, PulseOver, Nanos
<1>3. History(hist)' /\ hist.last \in Nat
  BY <1>1 DEF HistoryInv, History
<1>4. Nanos(plc) \in Nat
  BY NormalNat DEF HistoryInv
<1>5. CASE updateTime
  <2>1. plc' = AddOnce(plc, TickTime) /\ now' = now /\ epoch' = epoch
    BY <1>5 DEF updateTime
  <2>2. Normal(plc') /\ Nanos(plc') = Nanos(plc) + TickTime
    BY <2>1, AddOnceExact, AddOnceValid, ClockAssumption DEF HistoryInv, Normal
  <2>3. Nanos(plc)' = Nanos(plc') /\ Normal(plc)'
    BY <2>2 DEF Nanos, Normal, ValidTimespec
  <2>4. hist.last < Nanos(plc')
    BY <2>2, <1>3, <1>4, ClockAssumption DEF HistoryInv
  <2>5. hist'.last <= Nanos(plc)' /\ hist'.last < Nanos(plc)'
    BY <2>2, <2>3, <2>4, <1>1, <1>3, <1>4, ClockAssumption
  <2> QED BY <2>1, <2>3, <2>5, <1>1, <1>2, <1>3 DEF HistoryInv
<1>6. CASE sleep_until
  <2>1. plc' = plc /\ epoch' = epoch /\ pc = "sleep" /\ pc' = "scan"
    BY <1>6 DEF sleep_until
  <2>2. Nanos(plc)' = Nanos(plc) /\ Normal(plc)'
    BY <2>1 DEF HistoryInv, Nanos, Normal, ValidTimespec
  <2>3. now' - epoch' >= Nanos(plc)
    BY <2>1, <2>2 DEF NeverAhead
  <2>4. now' - epoch' \in Int
    BY DEF TypeOK
  <2>5. hist'.last <= now' - epoch'
    BY <2>3, <2>4, <1>1, <1>3, <1>4 DEF HistoryInv
  <2> QED BY <2>1, <2>2, <2>5, <1>1, <1>2, <1>3 DEF HistoryInv
<1>7. CASE Done
  BY <1>1, <1>2, <1>3, <1>7 DEF Done, vars, HistoryInv, Normal, ValidTimespec, Nanos
<1> QED BY <1>5, <1>6, <1>7

LEMMA BlockStutters ==
  ASSUME HistoryInv, TimerInv, UNCHANGED allVars
  PROVE  HistoryInv' /\ TimerInv'
BY DEF allVars, vars, blockVars, HistoryInv, TimerInv, TONTracks, TOFTracks, TPTracks,
       History, Started, Normal, ValidTimespec, Expired, PulseOver, Nanos

LEMMA BlockInductive ==
  ASSUME TickTime <= SEC
  PROVE  BlockSpec => [](HistoryInv /\ TimerInv)
<1>1. BlockSpec => []TypeOK
  BY BlockImplementsClock, ClockTypeOK, PTL
<1>2. BlockSpec => []NeverAhead
  BY BlockImplementsClock, ClockNeverAhead, PTL
<1>3. TypeOK /\ TypeOK' /\ NeverAhead /\ NeverAhead' /\ (HistoryInv /\ TimerInv)
      /\ [BlockNext]_allVars => (HistoryInv /\ TimerInv)'
  BY BlockExecutes, BlockWaits, BlockStutters DEF BlockNext
<1> QED BY <1>1, <1>2, <1>3, BlockStart, PTL DEF BlockSpec

\* TON, TOF and TP keep to the standard's timing diagrams, for every preset
\* and every period of at most a second.
THEOREM TimersArePunctual ==
  ASSUME TickTime <= SEC
  PROVE  BlockSpec => []TimersPunctual
<1>1. HistoryInv /\ TimerInv => TimersPunctual
  <2> SUFFICES ASSUME HistoryInv, TimerInv PROVE TimersPunctual
    OBVIOUS
  <2>1. ASSUME block = "TON" PROVE fb.q = (hist.in /\ Held >= preset /\ Held > 0)
    BY <2>1 DEF HistoryInv, History, TimerInv, Timers, TONTracks, Expired, Held, Instance
  <2>2. ASSUME block = "TOF"
        PROVE  fb.q = (hist.in \/ (hist.risen /\ (Held < preset \/ Held = 0)))
    BY <2>2 DEF HistoryInv, History, TimerInv, Timers, TOFTracks, Expired, Held, Instance
  <2>3. ASSUME block = "TP" PROVE fb.q = ~PulseOver(hist)
    BY <2>3 DEF TimerInv, Timers, TPTracks, Instance
  <2> QED BY <2>1, <2>2, <2>3 DEF TimersPunctual
<1> QED BY <1>1, BlockInductive, PTL

\* No timer expires before its preset has passed in real time from the moment
\* at which the scan that saw the edge was due.
THEOREM TimersNeverEarly ==
  ASSUME TickTime <= SEC
  PROVE  BlockSpec => []NeverEarly
<1>0. BlockSpec => []TypeOK
  BY BlockImplementsClock, ClockTypeOK, PTL
<1>1. HistoryInv /\ TimersPunctual /\ TypeOK => NeverEarly
  <2> SUFFICES ASSUME HistoryInv, TimersPunctual, TypeOK PROVE NeverEarly
    OBVIOUS
  <2>1. /\ hist.last \in Nat /\ hist.since \in Nat /\ preset \in Nat
        /\ hist.since <= hist.last /\ hist.last <= now - epoch /\ now - epoch \in Int
    BY DEF HistoryInv, History, TypeOK
  <2>2. ASSUME Held >= preset PROVE now - epoch >= hist.since + preset
    BY <2>1, <2>2 DEF Held
  <2>3. ASSUME block = "TON", fb.q PROVE now - epoch >= hist.since + preset
    BY <2>2, <2>3 DEF TimersPunctual
  <2>4. ASSUME block = "TOF", hist.risen, ~fb.q
        PROVE  now - epoch >= hist.since + preset
    <3>1. ~(Held < preset)
      BY <2>4 DEF TimersPunctual
    <3> QED BY <3>1, <2>1, <2>2 DEF Held
  <2>5. ASSUME block = "TP", hist.pulse # NoPulse, ~fb.q
        PROVE  now - epoch >= hist.pulse + preset
    <3>1. PulseOver(hist)
      BY <2>5 DEF TimersPunctual
    <3>2. hist.last - hist.pulse >= preset /\ hist.pulse \in Nat
      BY <3>1, <2>5 DEF PulseOver, HistoryInv, History
    <3> QED BY <3>2, <2>1
  <2> QED BY <2>3, <2>4, <2>5 DEF NeverEarly
<1> QED BY <1>0, <1>1, BlockInductive, TimersArePunctual, PTL

-----------------------------------------------------------------------------
(* What the blocks count: elapsed time, dates and edges.                     *)

\* Borrow and carry keep the instant.
LEMMA NormalizeExact ==
  ASSUME NEW v \in Time
  PROVE  Normalize(v) \in Time /\ Nanos(Normalize(v)) = Nanos(v)
<1> USE ClockAssumption DEF Time
<1> DEFINE b == IF v.nsec < -SEC \/ (v.sec > 0 /\ v.nsec < 0)
                  THEN [sec |-> v.sec - 1, nsec |-> v.nsec + SEC] ELSE v
<1>1. \A x \in Int : (x - 1) * SEC = x * SEC - SEC /\ (x + 1) * SEC = x * SEC + SEC
  OBVIOUS
<1>2. b \in Time
  OBVIOUS
<1>3. Nanos(b) = Nanos(v)
  <2>1. CASE v.nsec < -SEC \/ (v.sec > 0 /\ v.nsec < 0)
    <3>1. b.sec = v.sec - 1 /\ b.nsec = v.nsec + SEC
      BY <2>1
    <3>2. b.sec * SEC = v.sec * SEC - SEC /\ v.sec * SEC \in Int
      BY <3>1, <1>1
    <3> QED BY <3>1, <3>2 DEF Nanos
  <2>2. CASE ~(v.nsec < -SEC \/ (v.sec > 0 /\ v.nsec < 0))
    BY <2>2
  <2> QED BY <2>1, <2>2
<1>4. Normalize(v) = IF b.nsec > SEC \/ (b.sec < 0 /\ b.nsec > 0)
                       THEN [sec |-> b.sec + 1, nsec |-> b.nsec - SEC] ELSE b
  BY DEF Normalize
<1> HIDE DEF b
<1>5. CASE b.nsec > SEC \/ (b.sec < 0 /\ b.nsec > 0)
  <2>1. Normalize(v) = [sec |-> b.sec + 1, nsec |-> b.nsec - SEC]
    BY <1>4, <1>5
  <2>2. (b.sec + 1) * SEC = b.sec * SEC + SEC /\ b.sec * SEC \in Int
    BY <1>1, <1>2
  <2> QED BY <1>2, <1>3, <2>1, <2>2 DEF Nanos
<1>6. CASE ~(b.nsec > SEC \/ (b.sec < 0 /\ b.nsec > 0))
  BY <1>2, <1>3, <1>4, <1>6
<1> QED BY <1>5, <1>6

\* time_sub() and time_add() are exact for times of any sign.
LEMMA TimeExact ==
  ASSUME NEW s \in Time, NEW t \in Time
  PROVE  /\ time_sub(s, t) \in Time /\ Nanos(time_sub(s, t)) = Nanos(s) - Nanos(t)
         /\ time_add(s, t) \in Time /\ Nanos(time_add(s, t)) = Nanos(s) + Nanos(t)
<1> DEFINE d == [sec |-> s.sec - t.sec, nsec |-> s.nsec - t.nsec]
           u == [sec |-> s.sec + t.sec, nsec |-> s.nsec + t.nsec]
<1>1. d \in Time /\ u \in Time
  BY DEF Time
<1>2. /\ (s.sec - t.sec) * SEC = s.sec * SEC - t.sec * SEC
      /\ (s.sec + t.sec) * SEC = s.sec * SEC + t.sec * SEC
      /\ s.sec * SEC \in Int /\ t.sec * SEC \in Int
  BY ClockAssumption DEF Time
<1>3. Nanos(d) = Nanos(s) - Nanos(t) /\ Nanos(u) = Nanos(s) + Nanos(t)
  BY <1>2 DEF Nanos, Time
<1> QED BY <1>1, <1>3, NormalizeExact DEF time_sub, time_add

LEMMA ZeroTime == Zero \in Time /\ Nanos(Zero) = 0
BY ClockAssumption DEF Zero, Time, Nanos

LEMMA PresetTime == ASSUME preset \in Nat PROVE PT \in Time /\ Nanos(PT) = preset
BY AsTimeNormal DEF PT, Normal, Timespec, Time

\* A timer that was started at x shows how long it has run.
Shows(f, h, x) ==
  /\ f.state = 0 => Nanos(f.et) = 0
  /\ f.state = 1 => Nanos(f.et) = h.last - x
  /\ f.state = 2 => Nanos(f.et) = preset

\* PREV_IN, and for a TOF Q, are stored without touching ET.
LEMMA UpdatedShows ==
  ASSUME NEW m \in Instance, NEW c \in BOOLEAN, NEW b \in BOOLEAN
  PROVE  /\ [m EXCEPT !.prev = b].state = m.state /\ [m EXCEPT !.prev = b].et = m.et
         /\ [m EXCEPT !.q = c, !.prev = b].state = m.state
         /\ [m EXCEPT !.q = c, !.prev = b].et = m.et
BY DEF Instance

\* ET of a TON.
LEMMA TONShows ==
  ASSUME preset \in Nat, NEW f \in Instance, NEW h, History(h), TONTracks(f, h),
         Shows(f, h, h.since),
         NEW i \in Inputs, NEW t, Normal(t), Precedes(h, t), Nanos(t) \in Nat
  PROVE  Shows(TON(f, i, t), Observe(h, i, Nanos(t)), Observe(h, i, Nanos(t)).since)
<1> DEFINE o == Observe(h, i, Nanos(t))
           m == TONMove(f, i, t)
           g == TON(f, i, t)
<1>1. o.last = Nanos(t) /\ o.since = IF i.in = h.in THEN h.since ELSE Nanos(t)
  BY ObserveHistory DEF Precedes
<1>2. /\ i.in \in BOOLEAN /\ h.in \in BOOLEAN /\ f.state \in {0, 1, 2}
      /\ f.start \in Time /\ t \in Time
  BY DEF Inputs, History, Instance, Normal, Timespec, Time
<1>3. m \in Instance => g.state = m.state /\ g.et = m.et
  BY <1>2, UpdatedShows DEF TON
<1>c. 0 \in 0..2 /\ 1 \in 0..2 /\ 2 \in 0..2 /\ TRUE \in BOOLEAN /\ FALSE \in BOOLEAN
  OBVIOUS
<1> HIDE DEF o, m, g
<1>4. CASE ~i.in
  <2>1. m = [f EXCEPT !.state = 0, !.q = FALSE, !.et = Zero]
    BY <1>4, <1>2 DEF m, TONMove
  <2>2. m \in Instance
    BY <2>1, <1>c, ZeroTime, SetWithElapsed, Zenon
  <2>3. m.state = 0 /\ m.et = Zero
    BY <2>1 DEF Instance
  <2> QED BY <1>3, <2>2, <2>3, ZeroTime DEF Shows, g, o
<1>5. CASE i.in /\ f.state = 0
  <2>1. ~h.in /\ ~f.prev
    BY <1>5 DEF TONTracks
  <2>2. m = [f EXCEPT !.state = 1, !.q = FALSE, !.start = t]
    BY <1>5, <1>2, <2>1 DEF m, TONMove
  <2>3. m \in Instance
    BY <2>2, <1>2, <1>c, SetWithStart, Zenon
  <2>4. m.state = 1 /\ m.et = f.et
    BY <2>2 DEF Instance
  <2>5. o.since = Nanos(t) /\ o.last = Nanos(t)
    BY <2>1, <1>1, <1>2, <1>5
  <2>6. Nanos(f.et) = 0
    BY <1>5 DEF Shows
  <2> QED BY <1>3, <2>3, <2>4, <2>5, <2>6 DEF Shows, g, o
<1>6. CASE i.in /\ f.state = 1 /\ Due(f, t)
  <2>1. m = [f EXCEPT !.state = 2, !.q = TRUE, !.et = PT]
    BY <1>6, <1>2 DEF m, TONMove
  <2>2. m \in Instance
    BY <2>1, <1>c, PresetTime, SetWithElapsed, Zenon
  <2>3. m.state = 2 /\ m.et = PT
    BY <2>1 DEF Instance
  <2> QED BY <1>3, <2>2, <2>3, PresetTime DEF Shows, g, o
<1>7. CASE i.in /\ f.state = 1 /\ ~Due(f, t)
  <2>1. m = [f EXCEPT !.et = time_sub(t, f.start)]
    BY <1>7, <1>2 DEF m, TONMove
  <2>2. time_sub(t, f.start) \in Time /\ Nanos(time_sub(t, f.start)) = Nanos(t) - Nanos(f.start)
    BY <1>2, TimeExact
  <2>3. m \in Instance /\ m.state = 1 /\ m.et = time_sub(t, f.start)
    BY <1>7, <2>1, <2>2 DEF Instance
  <2>4. o.since = h.since /\ Nanos(f.start) = h.since
    BY <1>1, <1>7 DEF TONTracks, Started
  <2> QED BY <1>1, <1>3, <2>2, <2>3, <2>4 DEF Shows, g, o
<1>8. CASE i.in /\ f.state = 2
  <2>1. m = f
    BY <1>8, <1>2 DEF m, TONMove
  <2> QED BY <1>3, <1>8, <2>1 DEF Shows, g, o
<1> QED BY <1>2, <1>4, <1>5, <1>6, <1>7, <1>8

\* ET of a TOF.
LEMMA TOFShows ==
  ASSUME preset \in Nat, NEW f \in Instance, NEW h, History(h), TOFTracks(f, h),
         Shows(f, h, h.since),
         NEW i \in Inputs, NEW t, Normal(t), Precedes(h, t), Nanos(t) \in Nat
  PROVE  Shows(TOF(f, i, t), Observe(h, i, Nanos(t)), Observe(h, i, Nanos(t)).since)
<1> DEFINE o == Observe(h, i, Nanos(t))
           m == TOFMove(f, i, t)
           g == TOF(f, i, t)
<1>1. o.last = Nanos(t) /\ o.since = IF i.in = h.in THEN h.since ELSE Nanos(t)
  BY ObserveHistory DEF Precedes
<1>2. /\ i.in \in BOOLEAN /\ h.in \in BOOLEAN /\ f.state \in {0, 1, 2}
      /\ f.start \in Time /\ t \in Time
  BY DEF Inputs, History, Instance, Normal, Timespec, Time
<1>3. m \in Instance => g.state = m.state /\ g.et = m.et
  <2>1. PICK c \in BOOLEAN : c = (i.in \/ m.state = 1)
    OBVIOUS
  <2>2. g = [m EXCEPT !.q = c, !.prev = i.in]
    BY <2>1 DEF TOF
  <2> QED BY <1>2, <2>2, UpdatedShows
<1>c. 0 \in 0..2 /\ 1 \in 0..2 /\ 2 \in 0..2
  OBVIOUS
<1> HIDE DEF o, m, g
<1>4. CASE i.in
  <2>1. m = [f EXCEPT !.state = 0, !.et = Zero]
    BY <1>4, <1>2 DEF m, TOFMove
  <2>2. m \in Instance
    BY <2>1, <1>c, ZeroTime, SetElapsed, Zenon
  <2>3. m.state = 0 /\ m.et = Zero
    BY <2>1 DEF Instance
  <2> QED BY <1>3, <2>2, <2>3, ZeroTime DEF Shows, g, o
<1>5. CASE ~i.in /\ f.state = 0 /\ ~h.in
  <2>1. m = f
    BY <1>5, <1>2 DEF m, TOFMove, TOFTracks
  <2> QED BY <1>3, <1>5, <2>1 DEF Shows, g, o
<1>6. CASE ~i.in /\ f.state = 0 /\ h.in
  <2>1. m = [f EXCEPT !.state = 1, !.start = t]
    BY <1>6, <1>2 DEF m, TOFMove, TOFTracks
  <2>2. m \in Instance
    BY <2>1, <1>2, <1>c, SetStart, Zenon
  <2>3. m.state = 1 /\ m.et = f.et
    BY <2>1 DEF Instance
  <2>4. o.since = Nanos(t) /\ o.last = Nanos(t)
    BY <1>1, <1>2, <1>6
  <2>5. Nanos(f.et) = 0
    BY <1>6 DEF Shows
  <2> QED BY <1>3, <2>2, <2>3, <2>4, <2>5 DEF Shows, g, o
<1>7. CASE ~i.in /\ f.state = 1 /\ Due(f, t)
  <2>1. m = [f EXCEPT !.state = 2, !.et = PT]
    BY <1>7, <1>2 DEF m, TOFMove
  <2>2. m \in Instance
    BY <2>1, <1>c, PresetTime, SetElapsed, Zenon
  <2>3. m.state = 2 /\ m.et = PT
    BY <2>1 DEF Instance
  <2> QED BY <1>3, <2>2, <2>3, PresetTime DEF Shows, g, o
<1>8. CASE ~i.in /\ f.state = 1 /\ ~Due(f, t)
  <2>1. m = [f EXCEPT !.et = time_sub(t, f.start)]
    BY <1>8, <1>2 DEF m, TOFMove
  <2>2. time_sub(t, f.start) \in Time /\ Nanos(time_sub(t, f.start)) = Nanos(t) - Nanos(f.start)
    BY <1>2, TimeExact
  <2>3. m \in Instance /\ m.state = 1 /\ m.et = time_sub(t, f.start)
    BY <1>8, <2>1, <2>2 DEF Instance
  <2>4. o.since = h.since /\ Nanos(f.start) = h.since
    BY <1>1, <1>2, <1>8 DEF TOFTracks, Started
  <2> QED BY <1>1, <1>3, <2>2, <2>3, <2>4 DEF Shows, g, o
<1>9. CASE ~i.in /\ f.state = 2
  <2>1. m = f
    BY <1>9, <1>2 DEF m, TOFMove
  <2> QED BY <1>3, <1>9, <2>1 DEF Shows, g, o
<1> QED BY <1>2, <1>4, <1>5, <1>6, <1>7, <1>8, <1>9

\* ET of a TP.
LEMMA TPShows ==
  ASSUME preset \in Nat, block = "TP",
         NEW f \in Instance, NEW h, History(h), TPTracks(f, h), Shows(f, h, h.pulse),
         NEW i \in Inputs, NEW t, Normal(t), Precedes(h, t), Nanos(t) \in Nat
  PROVE  Shows(TP(f, i, t), Observe(h, i, Nanos(t)), Observe(h, i, Nanos(t)).pulse)
<1> DEFINE o == Observe(h, i, Nanos(t))
           m == TPMove(f, i, t)
           r == TPRearm(m, i)
           g == TP(f, i, t)
<1>1. /\ o.last = Nanos(t)
      /\ o.pulse = IF i.in /\ ~h.in /\ PulseOver(h) THEN Nanos(t) ELSE h.pulse
  BY ObserveHistory, ObservePulse DEF Precedes
<1>2. /\ i.in \in BOOLEAN /\ h.in \in BOOLEAN /\ f.state \in {0, 1, 2}
      /\ f.start \in Time /\ t \in Time
  BY DEF Inputs, History, Instance, Normal, Timespec, Time
<1>3. r \in Instance => g.state = r.state /\ g.et = r.et
  BY <1>2, UpdatedShows DEF TP
<1>r. r = IF m.state = 2 /\ ~i.in THEN [m EXCEPT !.et = Zero, !.state = 0] ELSE m
  BY DEF TPRearm
<1>c. 0 \in 0..2 /\ 1 \in 0..2 /\ 2 \in 0..2 /\ TRUE \in BOOLEAN /\ FALSE \in BOOLEAN
  OBVIOUS
<1> HIDE DEF o, m, r, g
\* Re-arming sets ET to zero; what is left to show is the move before it.
<1>4. ASSUME m \in Instance, Shows(m, o, o.pulse) PROVE Shows(g, o, o.pulse)
  <2>1. CASE m.state = 2 /\ ~i.in
    <3>1. r = [m EXCEPT !.et = Zero, !.state = 0]
      BY <1>r, <2>1
    <3>2. r \in Instance
      BY <3>1, <1>4, <1>c, ZeroTime, SetRearmed, Zenon
    <3>3. r.state = 0 /\ r.et = Zero
      BY <3>1, <1>4 DEF Instance
    <3> QED BY <1>3, <3>2, <3>3, ZeroTime DEF Shows
  <2>2. CASE ~(m.state = 2 /\ ~i.in)
    <3>1. r = m
      BY <1>r, <2>2
    <3> QED BY <1>3, <1>4, <3>1 DEF Shows
  <2> QED BY <2>1, <2>2
<1>5. m \in Instance /\ Shows(m, o, o.pulse)
  <2>1. CASE f.state = 0 /\ i.in
    <3>1. ~h.in /\ ~f.prev /\ PulseOver(h)
      BY <2>1 DEF TPTracks
    <3>2. m = [f EXCEPT !.state = 1, !.q = TRUE, !.start = t]
      BY <2>1, <1>2, <3>1 DEF m, TPMove
    <3>3. m \in Instance
      BY <3>2, <1>2, <1>c, SetWithStart, Zenon
    <3>4. m.state = 1 /\ m.et = f.et
      BY <3>2 DEF Instance
    <3>5. o.pulse = Nanos(t) /\ Nanos(f.et) = 0
      BY <2>1, <3>1, <1>1 DEF Shows
    <3> QED BY <1>1, <3>3, <3>4, <3>5 DEF Shows
  <2>2. CASE f.state = 0 /\ ~i.in
    <3>1. m = f
      BY <2>2, <1>2 DEF m, TPMove
    <3> QED BY <2>2, <3>1 DEF Shows
  <2>3. CASE f.state = 1 /\ Due(f, t)
    <3>1. m = [f EXCEPT !.state = 2, !.q = FALSE, !.et = PT]
      BY <2>3, <1>2 DEF m, TPMove
    <3>2. m \in Instance
      BY <3>1, <1>c, PresetTime, SetWithElapsed, Zenon
    <3>3. m.state = 2 /\ m.et = PT
      BY <3>1 DEF Instance
    <3> QED BY <3>2, <3>3, PresetTime DEF Shows
  <2>4. CASE f.state = 1 /\ ~Due(f, t)
    <3>1. m = [f EXCEPT !.et = time_sub(t, f.start)]
      BY <2>4, <1>2 DEF m, TPMove
    <3>2. time_sub(t, f.start) \in Time /\ Nanos(time_sub(t, f.start)) = Nanos(t) - Nanos(f.start)
      BY <1>2, TimeExact
    <3>3. m \in Instance /\ m.state = 1 /\ m.et = time_sub(t, f.start)
      BY <2>4, <3>1, <3>2 DEF Instance
    <3>4. o.pulse = h.pulse /\ Nanos(f.start) = h.pulse
      BY <1>1, <2>4 DEF TPTracks, Started
    <3> QED BY <1>1, <3>2, <3>3, <3>4 DEF Shows
  <2>5. CASE f.state = 2
    <3>1. m = f
      BY <2>5, <1>2 DEF m, TPMove
    <3> QED BY <2>5, <3>1 DEF Shows
  <2> QED BY <1>2, <2>1, <2>2, <2>3, <2>4, <2>5
<1> QED BY <1>4, <1>5 DEF g, o

\* How the date of an RTC mirrors the history.
RTCTracks(f, h) ==
  /\ f.prev = h.in
  /\ h.in => Nanos(f.start) = preset - h.since
  /\ Nanos(f.et) = IF h.in THEN preset + h.last - h.since ELSE h.last

LEMMA RTCCall ==
  ASSUME preset \in Nat, NEW f \in Instance, NEW h, History(h), RTCTracks(f, h),
         NEW i \in Inputs, NEW t, Normal(t), Precedes(h, t), Nanos(t) \in Nat
  PROVE  RTC(f, i, t) \in Instance /\ RTCTracks(RTC(f, i, t), Observe(h, i, Nanos(t)))
<1> DEFINE n == Nanos(t)
           o == Observe(h, i, n)
<1>1. o.last = n /\ o.in = i.in /\ o.since = IF i.in = h.in THEN h.since ELSE n
  BY ObserveHistory DEF Precedes
<1>2. /\ i.in \in BOOLEAN /\ h.in \in BOOLEAN /\ h.since \in Nat
      /\ f.start \in Time /\ t \in Time /\ PT \in Time /\ Nanos(PT) = preset
  BY PresetTime DEF Inputs, History, Instance, Normal, Timespec, Time
<1>3. PICK x : x = IF i.in /\ ~f.prev THEN time_sub(PT, t) ELSE f.start
  OBVIOUS
<1>4. x \in Time /\ (i.in => Nanos(x) = preset - o.since)
  <2>1. CASE i.in /\ ~f.prev
    <3>1. x \in Time /\ Nanos(x) = preset - n
      BY <2>1, <1>2, <1>3, TimeExact
    <3> QED BY <2>1, <3>1, <1>1 DEF RTCTracks
  <2>2. CASE ~(i.in /\ ~f.prev)
    BY <2>2, <1>1, <1>2, <1>3 DEF RTCTracks
  <2> QED BY <2>1, <2>2
<1>5. PICK y : y = IF i.in THEN time_add(t, x) ELSE t
  OBVIOUS
<1>6. y \in Time /\ Nanos(y) = IF i.in THEN n + (preset - o.since) ELSE n
  BY <1>2, <1>4, <1>5, TimeExact
<1>7. RTC(f, i, t) = [f EXCEPT !.start = x, !.q = i.in, !.prev = i.in, !.et = y]
  BY <1>3, <1>5 DEF RTC
<1>8. /\ RTC(f, i, t) \in Instance
      /\ RTC(f, i, t).prev = i.in /\ RTC(f, i, t).start = x /\ RTC(f, i, t).et = y
  BY <1>2, <1>4, <1>6, <1>7 DEF Instance
<1>9. o.since \in Nat
  BY <1>1, <1>2
<1> HIDE DEF n, o
<1>10. n + (preset - o.since) = preset + n - o.since
  BY <1>9 DEF n
<1> QED BY <1>1, <1>4, <1>6, <1>8, <1>10 DEF RTCTracks, o, n

\* How the edge detectors mirror it: Q in the scan of the edge, and for an
\* F_TRIG in a first scan with CLK FALSE.
R_TRIGTracks(f, h) ==
  /\ f.prev = h.in
  /\ f.q <=> h.in /\ h.last = h.since

F_TRIGTracks(f, h) ==
  /\ h.calls \in Nat /\ (h.risen => h.calls > 0)
  /\ f.prev <=> h.calls > 0 /\ ~h.in
  /\ f.q <=> ~h.in /\ IF h.risen THEN h.last = h.since ELSE h.calls = 1

LEMMA R_TRIGCall ==
  ASSUME NEW f \in Instance, NEW h, History(h), R_TRIGTracks(f, h),
         NEW i \in Inputs, NEW t, Precedes(h, t), Nanos(t) \in Nat
  PROVE  R_TRIG(f, i) \in Instance /\ R_TRIGTracks(R_TRIG(f, i), Observe(h, i, Nanos(t)))
<1> DEFINE o == Observe(h, i, Nanos(t))
<1>1. o.last = Nanos(t) /\ o.in = i.in /\ o.since = IF i.in = h.in THEN h.since ELSE Nanos(t)
  BY ObserveHistory DEF Precedes
<1>2. i.in \in BOOLEAN /\ h.in \in BOOLEAN /\ f.prev \in BOOLEAN
  BY DEF Inputs, History, Instance
<1>3. /\ R_TRIG(f, i) \in Instance /\ R_TRIG(f, i).prev = i.in
      /\ R_TRIG(f, i).q = (i.in /\ ~f.prev)
  BY <1>2 DEF R_TRIG, Instance
<1>4. h.in => h.since # Nanos(t)
  BY DEF History, Precedes
<1> HIDE DEF o
<1>5. i.in /\ ~f.prev <=> i.in /\ o.last = o.since
  BY <1>1, <1>2, <1>4 DEF R_TRIGTracks
<1> QED BY <1>1, <1>3, <1>5 DEF R_TRIGTracks, o

LEMMA F_TRIGCall ==
  ASSUME NEW f \in Instance, NEW h, History(h), F_TRIGTracks(f, h),
         NEW i \in Inputs, NEW t, Precedes(h, t), Nanos(t) \in Nat
  PROVE  F_TRIG(f, i) \in Instance /\ F_TRIGTracks(F_TRIG(f, i), Observe(h, i, Nanos(t)))
<1> DEFINE o == Observe(h, i, Nanos(t))
<1>1. /\ o.last = Nanos(t) /\ o.in = i.in /\ o.since = IF i.in = h.in THEN h.since ELSE Nanos(t)
      /\ (o.risen <=> (h.risen \/ i.in)) /\ o.calls = h.calls + 1
  BY ObserveHistory DEF Precedes, Observe
<1>2. /\ i.in \in BOOLEAN /\ h.in \in BOOLEAN /\ f.prev \in BOOLEAN /\ h.risen \in BOOLEAN
      /\ (h.in => h.risen) /\ h.calls \in Nat
  BY DEF Inputs, History, Instance, F_TRIGTracks
<1>3. /\ F_TRIG(f, i) \in Instance /\ F_TRIG(f, i).prev = ~i.in
      /\ F_TRIG(f, i).q = (~i.in /\ ~f.prev)
  BY <1>2 DEF F_TRIG, Instance
<1>4. h.risen => h.since # Nanos(t)
  BY DEF History, Precedes
<1> HIDE DEF o
<1>5. ~i.in /\ ~f.prev <=> ~i.in /\ IF o.risen THEN o.last = o.since ELSE o.calls = 1
  <2>1. CASE i.in
    BY <2>1
  <2>2. CASE ~i.in /\ h.in
    <3>1. ~f.prev /\ o.risen /\ o.last = o.since
      BY <2>2, <1>1, <1>2 DEF F_TRIGTracks
    <3> QED BY <2>2, <3>1
  <2>3. CASE ~i.in /\ ~h.in /\ h.risen
    <3>1. f.prev /\ o.risen /\ o.last # o.since
      BY <2>3, <1>1, <1>2, <1>4 DEF F_TRIGTracks
    <3> QED BY <2>3, <3>1
  <2>4. CASE ~i.in /\ ~h.in /\ ~h.risen
    <3>1. ~o.risen /\ (~f.prev <=> o.calls = 1)
      BY <2>4, <1>1, <1>2 DEF F_TRIGTracks
    <3> QED BY <2>4, <3>1
  <2> QED BY <1>2, <2>1, <2>2, <2>3, <2>4
<1>6. o.calls \in Nat /\ o.calls > 0
  BY <1>1, <1>2
<1> QED BY <1>1, <1>3, <1>5, <1>6 DEF F_TRIGTracks, o

\* How the counters mirror it: edges since the last reset, up to PV, or down
\* from it to 0.
CTUTracks(f, h) ==
  f.prev = h.in /\ h.edges \in Nat /\ f.cv = Least(preset, h.edges)

CTDTracks(f, h) ==
  /\ f.prev = h.in /\ h.edges \in Nat /\ h.reset \in BOOLEAN
  /\ f.cv = IF h.reset THEN preset - Least(preset, h.edges) ELSE 0

\* The edges that a scan of a counter leaves.
LEMMA ObserveEdges ==
  ASSUME block \in Counters, NEW h, NEW i \in Inputs, NEW n
  PROVE  /\ Observe(h, i, n).in = i.in
         /\ Observe(h, i, n).reset = (h.reset \/ i.r)
         /\ Observe(h, i, n).edges = IF i.r THEN 0 ELSE IF i.in /\ ~h.in THEN h.edges + 1
                                                        ELSE h.edges
BY DEF Observe, Inputs

\* A comparison is a truth value.
LEMMA Compared ==
  ASSUME NEW c \in Nat, NEW p \in Nat
  PROVE  (c >= p) \in BOOLEAN /\ (c <= 0) \in BOOLEAN
<1>1. (c >= p) \in BOOLEAN
  <2>1. CASE c >= p
    <3>1. (c >= p) = TRUE
      BY <2>1
    <3> QED BY <3>1
  <2>2. CASE ~(c >= p)
    <3>1. (c >= p) = FALSE
      BY <2>2
    <3> QED BY <3>1
  <2> QED BY <2>1, <2>2
<1>2. (c <= 0) \in BOOLEAN
  <2>1. CASE c <= 0
    <3>1. (c <= 0) = TRUE
      BY <2>1
    <3> QED BY <3>1
  <2>2. CASE ~(c <= 0)
    <3>1. (c <= 0) = FALSE
      BY <2>2
    <3> QED BY <3>1
  <2> QED BY <2>1, <2>2
<1> QED BY <1>1, <1>2

LEMMA CTUCall ==
  ASSUME preset \in Nat, block = "CTU", NEW f \in Instance, NEW h, h.in \in BOOLEAN,
         CTUTracks(f, h), NEW i \in Inputs, NEW n
  PROVE  CTU(f, i) \in Instance /\ CTUTracks(CTU(f, i), Observe(h, i, n))
<1> DEFINE o == Observe(h, i, n)
<1>1. PICK c : c = CASE i.r -> 0
                     [] ~i.r /\ i.in /\ ~f.prev /\ f.cv < preset -> f.cv + 1
                     [] OTHER -> f.cv
  OBVIOUS
<1>2. i.in \in BOOLEAN /\ i.r \in BOOLEAN /\ f.prev = h.in /\ h.edges \in Nat
      /\ f.cv = Least(preset, h.edges)
  BY DEF Inputs, CTUTracks, Counters
<1>3. o.in = i.in /\ o.edges = IF i.r THEN 0 ELSE IF i.in /\ ~h.in THEN h.edges + 1 ELSE h.edges
  BY ObserveEdges DEF Counters
<1> HIDE DEF o
<1>e. o.edges \in Nat /\ c = Least(preset, o.edges) /\ c \in Nat
  BY <1>1, <1>2, <1>3 DEF Least
<1>q. PICK q \in BOOLEAN : q = (c >= preset)
  BY <1>e, Compared, Zenon
<1>4. CTU(f, i) = [f EXCEPT !.cv = c, !.q = q, !.prev = i.in]
  BY <1>1, <1>q DEF CTU
<1>5. CTU(f, i) \in Instance /\ CTU(f, i).prev = i.in /\ CTU(f, i).cv = c
  <2>1. c \in Nat /\ i.in \in BOOLEAN
    BY <1>2, <1>e
  <2>2. PICK b \in BOOLEAN : b = i.in
    BY <2>1
  <2>3. CTU(f, i) = [f EXCEPT !.cv = c, !.q = q, !.prev = b]
    BY <1>4, <2>2
  <2>4. PICK g : g = CTU(f, i)
    OBVIOUS
  <2>5. g = [f EXCEPT !.cv = c, !.q = q, !.prev = b]
    BY <2>3, <2>4
  <2>6. g \in Instance /\ g.prev = b /\ g.cv = c
    BY <2>1, <2>5 DEF Instance
  <2> QED BY <2>2, <2>4, <2>6
<1> QED BY <1>3, <1>5, <1>e DEF CTUTracks, o

LEMMA CTDCall ==
  ASSUME preset \in Nat, block = "CTD", NEW f \in Instance, NEW h, h.in \in BOOLEAN,
         CTDTracks(f, h), NEW i \in Inputs, NEW n
  PROVE  CTD(f, i) \in Instance /\ CTDTracks(CTD(f, i), Observe(h, i, n))
<1> DEFINE o == Observe(h, i, n)
<1>1. PICK c : c = CASE i.r -> preset
                     [] ~i.r /\ i.in /\ ~f.prev /\ f.cv > 0 -> f.cv - 1
                     [] OTHER -> f.cv
  OBVIOUS
<1>2. i.in \in BOOLEAN /\ i.r \in BOOLEAN /\ f.prev = h.in /\ h.edges \in Nat
      /\ h.reset \in BOOLEAN
      /\ f.cv = IF h.reset THEN preset - Least(preset, h.edges) ELSE 0
  BY DEF Inputs, CTDTracks, Counters
<1>3. /\ o.in = i.in /\ o.reset = (h.reset \/ i.r)
      /\ o.edges = IF i.r THEN 0 ELSE IF i.in /\ ~h.in THEN h.edges + 1 ELSE h.edges
  BY ObserveEdges DEF Counters
<1> HIDE DEF o
<1>4. o.edges \in Nat /\ o.reset \in BOOLEAN
  BY <1>2, <1>3
<1>5. c \in Nat /\ c = IF o.reset THEN preset - Least(preset, o.edges) ELSE 0
  <2>1. CASE i.r
    <3>1. c = preset /\ o.reset /\ o.edges = 0
      BY <2>1, <1>1, <1>2, <1>3
    <3> QED BY <3>1 DEF Least
  <2>2. CASE ~i.r /\ i.in /\ ~h.in
    <3>1. c = IF f.cv > 0 THEN f.cv - 1 ELSE f.cv
      BY <2>2, <1>1, <1>2
    <3>2. o.edges = h.edges + 1 /\ o.reset = h.reset
      BY <2>2, <1>2, <1>3
    <3> QED BY <3>1, <3>2, <1>2 DEF Least
  <2>3. CASE ~i.r /\ ~(i.in /\ ~h.in)
    <3>1. c = f.cv /\ o.edges = h.edges /\ o.reset = h.reset
      BY <2>3, <1>1, <1>2, <1>3
    <3> QED BY <3>1, <1>2 DEF Least
  <2> QED BY <2>1, <2>2, <2>3
<1>q. PICK q \in BOOLEAN : q = (c <= 0)
  BY <1>5, Compared, Zenon
<1>6. CTD(f, i) = [f EXCEPT !.cv = c, !.q = q, !.prev = i.in]
  BY <1>1, <1>q DEF CTD
<1>7. CTD(f, i) \in Instance /\ CTD(f, i).prev = i.in /\ CTD(f, i).cv = c
  <2>1. c \in Nat /\ i.in \in BOOLEAN
    BY <1>2, <1>5
  <2>2. PICK b \in BOOLEAN : b = i.in
    BY <2>1
  <2>3. CTD(f, i) = [f EXCEPT !.cv = c, !.q = q, !.prev = b]
    BY <1>6, <2>2
  <2>4. PICK g : g = CTD(f, i)
    OBVIOUS
  <2>5. g = [f EXCEPT !.cv = c, !.q = q, !.prev = b]
    BY <2>3, <2>4
  <2>6. g \in Instance /\ g.prev = b /\ g.cv = c
    BY <2>1, <2>5 DEF Instance
  <2> QED BY <2>2, <2>4, <2>6
<1> QED BY <1>3, <1>4, <1>5, <1>7 DEF CTDTracks, o

\* A CTUD stays between 0 and PV.
LEMMA CTUDCall ==
  ASSUME preset \in Nat, block = "CTUD", NEW f \in Instance, f.cv \in 0..preset,
         NEW i \in Inputs
  PROVE  CTUD(f, i) \in Instance /\ CTUD(f, i).cv \in 0..preset
<1> DEFINE up   == i.in /\ ~f.prev
           down == i.down /\ ~f.prevCD
<1>1. PICK c : c = CASE i.r -> 0
                     [] ~i.r /\ i.ld -> preset
                     [] ~i.r /\ ~i.ld /\ up /\ ~down /\ f.cv < preset -> f.cv + 1
                     [] ~i.r /\ ~i.ld /\ down /\ ~up /\ f.cv > 0 -> f.cv - 1
                     [] OTHER -> f.cv
  OBVIOUS
<1>2. i.in \in BOOLEAN /\ i.down \in BOOLEAN
  BY DEF Inputs
<1>3. c \in 0..preset
  <2>1. CASE i.r
    BY <2>1, <1>1
  <2>2. CASE ~i.r /\ i.ld
    BY <2>2, <1>1
  <2>3. CASE ~i.r /\ ~i.ld
    <3> HIDE DEF up, down
    <3> QED BY <2>3, <1>1
  <2> QED BY <2>1, <2>2, <2>3
<1>5. c \in Nat
  BY <1>3
<1>q. PICK q \in BOOLEAN : q = (c >= preset)
  BY <1>5, Compared, Zenon
<1>d. PICK qd \in BOOLEAN : qd = (c <= 0)
  BY <1>5, Compared, Zenon
<1>4. CTUD(f, i) = [f EXCEPT !.cv = c, !.q = q, !.qd = qd, !.prev = i.in, !.prevCD = i.down]
  BY <1>1, <1>q, <1>d DEF CTUD
<1>6. PICK b \in BOOLEAN, e \in BOOLEAN : b = i.in /\ e = i.down
  BY <1>2
<1>7. CTUD(f, i) = [f EXCEPT !.cv = c, !.q = q, !.qd = qd, !.prev = b, !.prevCD = e]
  BY <1>4, <1>6
<1>8. CTUD(f, i) \in Instance /\ CTUD(f, i).cv = c
  <2>1. PICK g : g = CTUD(f, i)
    OBVIOUS
  <2>2. g = [f EXCEPT !.cv = c, !.q = q, !.qd = qd, !.prev = b, !.prevCD = e]
    BY <1>7, <2>1
  <2>3. g \in Instance /\ g.cv = c
    BY <1>5, <2>2 DEF Instance
  <2> QED BY <2>1, <2>3
<1> QED BY <1>3, <1>8

\* The whole of it, for the block at hand.
Mirrors(f, h) ==
  /\ f \in Instance
  /\ block = "TON" => Shows(f, h, h.since)
  /\ block = "TOF" => Shows(f, h, h.since)
  /\ block = "TP" => Shows(f, h, h.pulse)
  /\ block = "RTC" => RTCTracks(f, h)
  /\ block = "R_TRIG" => R_TRIGTracks(f, h)
  /\ block = "F_TRIG" => F_TRIGTracks(f, h)
  /\ block = "CTU" => CTUTracks(f, h)
  /\ block = "CTD" => CTDTracks(f, h)
  /\ block = "CTUD" => f.cv \in 0..preset

LEMMA MirrorsStart == BlockInit => Mirrors(fb, hist)
<1> SUFFICES ASSUME BlockInit PROVE Mirrors(fb, hist)
  OBVIOUS
<1>1. preset \in Nat
  BY BlocksAssumption DEF BlockInit
<1>2. fb \in Instance /\ fb.et = Zero /\ fb.state = 0 /\ fb.prev = FALSE /\ fb.q = FALSE
      /\ fb.cv = 0
  BY DEF BlockInit, Instance, Zero, Time
<1>3. /\ hist.in = FALSE /\ hist.risen = FALSE /\ hist.since = 0 /\ hist.last = 0
      /\ hist.calls = 0 /\ hist.reset = FALSE /\ hist.edges = 0
  BY DEF BlockInit
<1>4. Nanos(fb.et) = 0
  BY <1>2, ZeroTime
<1>5. Shows(fb, hist, hist.since) /\ Shows(fb, hist, hist.pulse)
  BY <1>2, <1>4 DEF Shows
<1>6. RTCTracks(fb, hist)
  BY <1>2, <1>3, <1>4 DEF RTCTracks
<1>7. R_TRIGTracks(fb, hist)
  BY <1>2, <1>3 DEF R_TRIGTracks
<1>8. F_TRIGTracks(fb, hist)
  BY <1>2, <1>3 DEF F_TRIGTracks
<1>9. CTUTracks(fb, hist)
  <2>1. Least(preset, 0) = 0
    BY <1>1 DEF Least
  <2>2. fb.prev = hist.in
    BY <1>2, <1>3
  <2>3. hist.edges \in Nat /\ fb.cv = Least(preset, hist.edges)
    BY <2>1, <1>2, <1>3
  <2> QED BY <2>2, <2>3 DEF CTUTracks
<1>10. CTDTracks(fb, hist)
  <2>1. fb.prev = hist.in /\ hist.reset \in BOOLEAN
    BY <1>2, <1>3
  <2>2. hist.edges \in Nat /\ fb.cv = 0
    BY <1>2, <1>3
  <2> QED BY <2>1, <2>2, <1>3 DEF CTDTracks
<1> QED BY <1>1, <1>2, <1>5, <1>6, <1>7, <1>8, <1>9, <1>10 DEF Mirrors

LEMMA MirrorsCall ==
  ASSUME HistoryInv, TimerInv, Mirrors(fb, hist), Precedes(hist, plc), NEW i \in Inputs
  PROVE  Mirrors(Body(fb, i, plc), Observe(hist, i, Nanos(plc)))
<1> USE NormalNat DEF HistoryInv, TimerInv, Mirrors, Timers
<1>0. /\ preset \in Nat /\ History(hist) /\ Normal(plc) /\ Nanos(plc) \in Nat
      /\ fb \in Instance /\ hist.in \in BOOLEAN
  BY DEF History
<1>1. CASE block = "TON"
  BY <1>0, <1>1, TONCall, TONShows DEF Body
<1>2. CASE block = "TOF"
  BY <1>0, <1>2, TOFCall, TOFShows DEF Body
<1>3. CASE block = "TP"
  BY <1>0, <1>3, TPCall, TPShows DEF Body
<1>4. CASE block = "RTC"
  BY <1>0, <1>4, RTCCall DEF Body
<1>5. CASE block = "R_TRIG"
  BY <1>0, <1>5, R_TRIGCall DEF Body
<1>6. CASE block = "F_TRIG"
  BY <1>0, <1>6, F_TRIGCall DEF Body
<1>7. CASE block = "CTU"
  BY <1>0, <1>7, CTUCall DEF Body
<1>8. CASE block = "CTD"
  BY <1>0, <1>8, CTDCall DEF Body
<1>9. CASE block = "CTUD"
  BY <1>0, <1>9, CTUDCall DEF Body
<1> QED BY <1>1, <1>2, <1>3, <1>4, <1>5, <1>6, <1>7, <1>8, <1>9 DEF Kinds, Counters

LEMMA MirrorsNext ==
  ASSUME HistoryInv, TimerInv, Mirrors(fb, hist), [BlockNext]_allVars
  PROVE  Mirrors(fb, hist)'
<1>1. block' = block /\ preset' = preset
  BY DEF BlockNext, RunProgram, allVars, blockVars
<1>2. Mirrors(fb', hist')
  <2>1. CASE RunProgram
    <3>1. PICK i \in Inputs : Execute(i)
      BY <2>1 DEF RunProgram
    <3>2. Precedes(hist, plc)
      BY <2>1 DEF RunProgram, RunScan, HistoryInv, Precedes
    <3> QED BY <3>1, <3>2, MirrorsCall DEF Execute
  <2>2. CASE UNCHANGED blockVars
    BY <2>2 DEF blockVars
  <2> QED BY <2>1, <2>2 DEF BlockNext, allVars
<1> QED BY <1>1, <1>2 DEF Mirrors, Shows, RTCTracks, R_TRIGTracks, F_TRIGTracks, CTUTracks,
                          CTDTracks, Nanos

LEMMA AlwaysMirrors ==
  ASSUME TickTime <= SEC
  PROVE  BlockSpec => []Mirrors(fb, hist)
<1>1. (HistoryInv /\ TimerInv) /\ Mirrors(fb, hist) /\ [BlockNext]_allVars => Mirrors(fb, hist)'
  BY MirrorsNext
<1> QED BY <1>1, MirrorsStart, BlockInductive, PTL DEF BlockSpec

\* ET of every timer and the date of an RTC are exact to the nanosecond, for
\* every preset, every length of a second and every period of at most a second:
\* the carries and borrows of __normalize_timespec() lose nothing.
THEOREM BlocksElapsedExact ==
  ASSUME TickTime <= SEC
  PROVE  BlockSpec => []ElapsedExact
<1>1. HistoryInv /\ TimerInv /\ Mirrors(fb, hist) => ElapsedExact
  <2> SUFFICES ASSUME HistoryInv, TimerInv, Mirrors(fb, hist) PROVE ElapsedExact
    OBVIOUS
  <2>0. /\ preset \in Nat /\ hist.last \in Nat /\ hist.since \in Nat /\ hist.since <= hist.last
        /\ fb.state \in {0, 1, 2} /\ hist.in \in BOOLEAN
    BY DEF HistoryInv, History, Mirrors, Instance
  <2>1. ASSUME block = "TON"
        PROVE  Nanos(fb.et) = IF hist.in THEN Least(preset, Held) ELSE 0
    BY <2>0, <2>1 DEF TimerInv, TONTracks, Mirrors, Shows, Expired, Held, Least
  <2>2. ASSUME block = "TOF"
        PROVE  Nanos(fb.et) = IF hist.risen /\ ~hist.in THEN Least(preset, Held) ELSE 0
    BY <2>0, <2>2 DEF TimerInv, TOFTracks, Mirrors, Shows, Expired, Held, Least
  <2>3. ASSUME block = "TP"
        PROVE  Nanos(fb.et) = CASE ~PulseOver(hist) -> hist.last - hist.pulse
                                [] PulseOver(hist) /\ hist.in -> preset
                                [] OTHER -> 0
    BY <2>0, <2>3 DEF TimerInv, TPTracks, Mirrors, Shows
  <2>4. ASSUME block = "RTC"
        PROVE  Nanos(fb.et) = IF hist.in THEN preset + Held ELSE hist.last
    BY <2>0, <2>4 DEF Mirrors, RTCTracks, Held
  <2> QED BY <2>1, <2>2, <2>3, <2>4 DEF ElapsedExact
<1> QED BY <1>1, BlockInductive, AlwaysMirrors, PTL

\* Counters count every edge that an executed scan sees once, for any PV, and
\* edge detectors report it in that scan and no other.
THEOREM BlocksEdgesOnce ==
  ASSUME TickTime <= SEC
  PROVE  BlockSpec => []EdgesOnce
<1>1. HistoryInv /\ Mirrors(fb, hist) => EdgesOnce
  <2> SUFFICES ASSUME HistoryInv, Mirrors(fb, hist) PROVE EdgesOnce
    OBVIOUS
  <2>1. /\ hist.last \in Nat /\ hist.since \in Nat /\ hist.in \in BOOLEAN /\ fb.q \in BOOLEAN
    BY DEF HistoryInv, History, Mirrors, Instance
  <2>2. Held = 0 <=> hist.last = hist.since
    BY <2>1 DEF Held
  <2>3. ASSUME block = "R_TRIG" PROVE fb.q = (hist.in /\ Held = 0)
    BY <2>1, <2>2, <2>3 DEF Mirrors, R_TRIGTracks
  <2>4. ASSUME block = "F_TRIG"
        PROVE  fb.q = (~hist.in /\ IF hist.risen THEN Held = 0 ELSE hist.calls = 1)
    BY <2>1, <2>2, <2>4 DEF Mirrors, F_TRIGTracks
  <2> QED BY <2>3, <2>4 DEF EdgesOnce, Mirrors, CTUTracks, CTDTracks
<1> QED BY <1>1, BlockInductive, AlwaysMirrors, PTL
=============================================================================
