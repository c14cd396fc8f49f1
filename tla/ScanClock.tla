----------------------------- MODULE ScanClock -----------------------------
(***************************************************************************)
(* The two clocks of the scan loop (main.cpp): __CURRENT_TIME, the clock   *)
(* the IEC timers read, advanced by updateTime() once per scan, and        *)
(* timer_start, the absolute deadline sleep_until() advances and sleeps to.*)
(* Both are (tv_sec, tv_nsec) pairs to which a period is added with at     *)
(* most ONE carry.  Real time is the variable now, in nanoseconds; a       *)
(* second is SEC nanoseconds, scaled down for TLC.                         *)
(***************************************************************************)
EXTENDS Integers

CONSTANTS
  SEC,        \* nanoseconds in a second (1000000000 in the code)
  IntHalf,    \* 2^31: sleep_until() takes its delay as an int
  TickTime,   \* common_ticktime__, the period of the common task, in ns
  MaxExec,    \* bound: the longest time one scan's work takes
  MaxJitter,  \* bound: the longest a sleep overshoots its deadline
  MaxScans    \* bound: scans explored

ASSUME ClockAssumption ==
  /\ SEC \in Nat \ {0}
  /\ IntHalf \in Nat /\ IntHalf > SEC
  /\ TickTime \in Nat \ {0} /\ TickTime < 2 * IntHalf
  /\ MaxExec \in Nat /\ MaxJitter \in Nat /\ MaxScans \in Nat

VARIABLES
  now,    \* CLOCK_MONOTONIC, in nanoseconds
  epoch,  \* now at clock_gettime(&timer_start); never changes
  timer,  \* timer_start, a struct timespec
  plc,    \* __CURRENT_TIME
  scans,  \* completed calls of updateTime()
  pc      \* where the main loop is

vars == <<now, epoch, timer, plc, scans, pc>>

Timespec == [sec : Nat, nsec : Int]

\* Nanoseconds a timespec stands for, normalised or not.
Nanos(t) == t.sec * SEC + t.nsec

\* What clock_nanosleep() accepts; it returns EINVAL at once for the rest.
ValidTimespec(t) == t.nsec \in 0..(SEC - 1)

\* Conversion of an unsigned long long to int.
AsInt(x) == ((x + IntHalf) % (2 * IntHalf)) - IntHalf

\* Faulty variant of AddOnce: the seconds are not carried.
AddNoCarry(t, d) ==
  IF t.nsec + d >= SEC THEN [t EXCEPT !.nsec = t.nsec + d - SEC]
                       ELSE [t EXCEPT !.nsec = t.nsec + d]

\* Both routines: add, then carry one second at most.
AddOnce(t, d) ==
  IF t.nsec + d >= SEC THEN [sec |-> t.sec + 1, nsec |-> t.nsec + d - SEC]
                       ELSE [t EXCEPT !.nsec = t.nsec + d]

-----------------------------------------------------------------------------
\* clock_gettime() has just filled timer_start.
Init ==
  /\ now \in 0..(SEC - 1)
  /\ epoch = now
  /\ timer = [sec |-> 0, nsec |-> now]
  /\ plc = [sec |-> 0, nsec |-> 0]
  /\ scans = 0
  /\ pc = "scan"

\* glueVars(), the buffers and config_run__(): they take some time.
RunScan ==
  /\ pc = "scan" /\ scans < MaxScans
  /\ \E d \in 0..MaxExec : now' = now + d
  /\ pc' = "time"
  /\ UNCHANGED <<epoch, timer, plc, scans>>

updateTime ==
  /\ pc = "time"
  /\ plc' = AddOnce(plc, TickTime)
  /\ scans' = scans + 1
  /\ pc' = "sleep"
  /\ UNCHANGED <<now, epoch, timer>>

\* Faulty variant of sleep_until: a missed deadline is set anew from the clock.
sleep_untilRestarting ==
  /\ pc = "sleep"
  /\ timer' = LET next == AddOnce(timer, AsInt(TickTime)) IN
       IF now < Nanos(next) THEN next ELSE [sec |-> now \div SEC, nsec |-> now % SEC]
  /\ IF ValidTimespec(timer') /\ now < Nanos(timer')
       THEN \E j \in 0..MaxJitter : now' = Nanos(timer') + j
       ELSE now' = now
  /\ pc' = "scan"
  /\ UNCHANGED <<epoch, plc, scans>>

\* Sleeps to the deadline, overshooting a little; a deadline in the past or
\* an invalid one does not sleep at all (the result of the call is ignored).
sleep_until ==
  /\ pc = "sleep"
  /\ timer' = AddOnce(timer, AsInt(TickTime))
  /\ IF ValidTimespec(timer') /\ now < Nanos(timer')
       THEN \E j \in 0..MaxJitter : now' = Nanos(timer') + j
       ELSE now' = now
  /\ pc' = "scan"
  /\ UNCHANGED <<epoch, plc, scans>>

\* The exploration ends at the bound.
Done == pc = "scan" /\ scans = MaxScans /\ UNCHANGED vars

Next == RunScan \/ updateTime \/ sleep_until \/ Done

Spec == Init /\ [][Next]_vars

-----------------------------------------------------------------------------
TypeOK ==
  /\ now \in Nat /\ epoch \in Nat /\ scans \in Nat
  /\ timer \in Timespec /\ plc \in Timespec
  /\ pc \in {"scan", "time", "sleep"}

\* The IEC clock, __CURRENT_TIME, counts scans exactly, whatever the period:
\* the single carry of updateTime() loses no nanosecond, so no timer drifts against the scans.
TimeIsScans == Nanos(plc) = scans * TickTime

\* The deadline is the start plus a whole number of periods: an overrun or a
\* late wake-up is caught up with and never accumulates into drift.
DeadlineOnGrid ==
  Nanos(timer) = epoch + (IF pc = "sleep" THEN scans - 1 ELSE scans) * TickTime

\* The IEC clock never runs ahead of real time at the start of a scan, even in
\* the burst of scans that follows an overrun; what that means for the timers
\* is FunctionBlocks!NeverEarly.
NeverAhead == pc = "scan" => now - epoch >= Nanos(plc)

\* Once tv_nsec of the deadline has left its range (a period above one second
\* and a single carry), no later scan sleeps again.
PacingLostForGood == [][~ValidTimespec(timer) => ~ValidTimespec(timer')]_vars
=============================================================================
