--------------------------- MODULE FunctionBlocks ---------------------------
(***************************************************************************)
(* The standard function blocks (core/lib/iec_std_FB.h) in the scan loop:  *)
(* timers, edge detectors, counters and the real-time clock, as the        *)
(* program calls them once per scan, with __CURRENT_TIME read from the     *)
(* clock of ScanClock.  A behaviour follows one instance of one block.     *)
(*                                                                         *)
(* An instance is a record of the block's own variables: prev stands for   *)
(* PREV_IN, M or CU_T.M, prevCD for CD_T.M, et for ET or CDT, start for    *)
(* START_TIME or OFFSET.  CTU and CTD stand for their typed variants too.  *)
(* hist is a history: what the inputs of the executed scans were, in terms *)
(* that the standard's description of the block uses.                      *)
(***************************************************************************)
EXTENDS ScanClock

CONSTANTS
  Blocks,   \* bound: the blocks explored, a subset of Kinds
  Presets   \* PT and PDT in nanoseconds, or PV; one per behaviour

Timers   == {"TON", "TOF", "TP"}
Counters == {"CTU", "CTD", "CTUD"}
Kinds    == Timers \cup Counters \cup {"R_TRIG", "F_TRIG", "RTC"}

ASSUME BlocksAssumption == Blocks \subseteq Kinds /\ Presets \subseteq Nat

VARIABLES
  block,   \* the kind of block
  preset,  \* its PT, PDT or PV input
  fb,      \* the instance
  hist     \* history of the executed scans

blockVars == <<block, preset, fb, hist>>
allVars == <<vars, blockVars>>

-----------------------------------------------------------------------------
\* TIME arithmetic (iec_std_lib.h).  A TIME is a timespec of any sign.
Time == [sec : Int, nsec : Int]
Zero == [sec |-> 0, nsec |-> 0]

\* A literal, converted by __time_to_timespec().
AsTime(n) == [sec |-> n \div SEC, nsec |-> n % SEC]

\* Faulty variant of Normalize: the nanoseconds lose a second that no one gets.
NormalizeNoCarry(t) == IF t.nsec > SEC THEN [t EXCEPT !.nsec = @ - SEC] ELSE t

\* __normalize_timespec(): borrow, then carry, one second each at most.
Normalize(t) ==
  LET borrowed == IF t.nsec < -SEC \/ (t.sec > 0 /\ t.nsec < 0)
                    THEN [sec |-> t.sec - 1, nsec |-> t.nsec + SEC] ELSE t
  IN  IF borrowed.nsec > SEC \/ (borrowed.sec < 0 /\ borrowed.nsec > 0)
        THEN [sec |-> borrowed.sec + 1, nsec |-> borrowed.nsec - SEC] ELSE borrowed

time_add(s, t) == Normalize([sec |-> s.sec + t.sec, nsec |-> s.nsec + t.nsec])
time_sub(s, t) == Normalize([sec |-> s.sec - t.sec, nsec |-> s.nsec - t.nsec])

\* Faulty variant of LE_TIME: the seconds alone decide.
LE_TIMESeconds(s, t) == s.sec <= t.sec

\* LE_TIME() by way of __time_cmp(): seconds first.
LE_TIME(s, t) == IF s.sec = t.sec THEN s.nsec <= t.nsec ELSE s.sec <= t.sec

-----------------------------------------------------------------------------
\* The bodies: the instance after a call with inputs i at time t.
PT == AsTime(preset)
Due(f, t) == LE_TIME(time_add(f.start, PT), t)

\* Faulty variant of TON: the start time is kept over a pause of IN.
TONAccumulating(f, i, t) ==
  LET g == CASE i.in /\ f.state = 0 /\ f.start = Zero -> [f EXCEPT !.state = 1, !.start = t]
             [] ~i.in -> [f EXCEPT !.state = 0, !.q = FALSE, !.et = Zero]
             [] i.in /\ f.state = 1 /\ Due(f, t) -> [f EXCEPT !.state = 2, !.q = TRUE, !.et = PT]
             [] i.in /\ f.state = 1 /\ ~Due(f, t) -> [f EXCEPT !.et = time_sub(t, f.start)]
             [] OTHER -> f
  IN  [g EXCEPT !.prev = i.in]

\* The state machine of a TON, without the update of PREV_IN.
TONMove(f, i, t) ==
  CASE f.state = 0 /\ ~f.prev /\ i.in -> [f EXCEPT !.state = 1, !.q = FALSE, !.start = t]
    [] ~i.in -> [f EXCEPT !.state = 0, !.q = FALSE, !.et = Zero]
    [] i.in /\ f.state = 1 /\ Due(f, t) -> [f EXCEPT !.state = 2, !.q = TRUE, !.et = PT]
    [] i.in /\ f.state = 1 /\ ~Due(f, t) -> [f EXCEPT !.et = time_sub(t, f.start)]
    [] OTHER -> f

TON(f, i, t) == [TONMove(f, i, t) EXCEPT !.prev = i.in]

TOFMove(f, i, t) ==
  CASE f.state = 0 /\ f.prev /\ ~i.in -> [f EXCEPT !.state = 1, !.start = t]
    [] i.in -> [f EXCEPT !.state = 0, !.et = Zero]
    [] f.state = 1 /\ ~i.in /\ Due(f, t) -> [f EXCEPT !.state = 2, !.et = PT]
    [] f.state = 1 /\ ~i.in /\ ~Due(f, t) -> [f EXCEPT !.et = time_sub(t, f.start)]
    [] OTHER -> f

\* Q of a TOF is computed at the end, from IN and the new STATE.
TOF(f, i, t) ==
  [TOFMove(f, i, t) EXCEPT !.q = i.in \/ TOFMove(f, i, t).state = 1, !.prev = i.in]

\* A pulse runs to its end whatever IN does.
TPMove(f, i, t) ==
  CASE f.state = 0 /\ ~f.prev /\ i.in -> [f EXCEPT !.state = 1, !.q = TRUE, !.start = t]
    [] f.state = 1 /\ Due(f, t) -> [f EXCEPT !.state = 2, !.q = FALSE, !.et = PT]
    [] f.state = 1 /\ ~Due(f, t) -> [f EXCEPT !.et = time_sub(t, f.start)]
    [] OTHER -> f

\* After the pulse IN must be seen FALSE, which may be in the same scan.
TPRearm(f, i) ==
  IF f.state = 2 /\ ~i.in THEN [f EXCEPT !.et = Zero, !.state = 0] ELSE f

TP(f, i, t) == [TPRearm(TPMove(f, i, t), i) EXCEPT !.prev = i.in]

R_TRIG(f, i) == [f EXCEPT !.q = i.in /\ ~f.prev, !.prev = i.in]
F_TRIG(f, i) == [f EXCEPT !.q = ~i.in /\ ~f.prev, !.prev = ~i.in]

CTU(f, i) ==
  LET cv == CASE i.r -> 0
              [] ~i.r /\ i.in /\ ~f.prev /\ f.cv < preset -> f.cv + 1
              [] OTHER -> f.cv
  IN  [f EXCEPT !.cv = cv, !.q = cv >= preset, !.prev = i.in]

CTD(f, i) ==
  LET cv == CASE i.r -> preset     \* r is the input LD
              [] ~i.r /\ i.in /\ ~f.prev /\ f.cv > 0 -> f.cv - 1
              [] OTHER -> f.cv
  IN  [f EXCEPT !.cv = cv, !.q = cv <= 0, !.prev = i.in]

\* q and qd are QU and QD, in and down are CU and CD; r and ld are R and LD.
CTUD(f, i) ==
  LET up   == i.in /\ ~f.prev
      down == i.down /\ ~f.prevCD
      cv   == CASE i.r -> 0
                [] ~i.r /\ i.ld -> preset
                [] ~i.r /\ ~i.ld /\ up /\ ~down /\ f.cv < preset -> f.cv + 1
                [] ~i.r /\ ~i.ld /\ down /\ ~up /\ f.cv > 0 -> f.cv - 1
                [] OTHER -> f.cv
  IN  [f EXCEPT !.cv = cv, !.q = cv >= preset, !.qd = cv <= 0,
                !.prev = i.in, !.prevCD = i.down]

\* PDT is the date to set, start the OFFSET to the clock, et the date CDT.
RTC(f, i, t) ==
  LET offset == IF i.in /\ ~f.prev THEN time_sub(PT, t) ELSE f.start
  IN  [f EXCEPT !.start = offset, !.q = i.in, !.prev = i.in,
                !.et = IF i.in THEN time_add(t, offset) ELSE t]

Body(f, i, t) ==
  CASE block = "TON" -> TON(f, i, t)
    [] block = "TOF" -> TOF(f, i, t)
    [] block = "TP"  -> TP(f, i, t)
    [] block = "RTC" -> RTC(f, i, t)
    [] block = "CTU" -> CTU(f, i)
    [] block = "CTD" -> CTD(f, i)
    [] block = "CTUD" -> CTUD(f, i)
    [] block = "R_TRIG" -> R_TRIG(f, i)
    [] block = "F_TRIG" -> F_TRIG(f, i)

-----------------------------------------------------------------------------
\* The inputs the program may give the block in one scan.  A block whose EN is
\* FALSE is not executed: it returns at once and keeps its variables.
Inputs ==
  [en : BOOLEAN, in : BOOLEAN,
   r : IF block \in Counters THEN BOOLEAN ELSE {FALSE},
   down : IF block = "CTUD" THEN BOOLEAN ELSE {FALSE},
   ld : IF block = "CTUD" THEN BOOLEAN ELSE {FALSE}]

NoPulse == -1

PulseOver(h) ==
  h.pulse = NoPulse \/ (h.last > h.pulse /\ h.last - h.pulse >= preset)

\* The history after an executed scan with inputs i at t nanoseconds:
\* in and since are IN and the time it took this level, risen whether it was
\* ever TRUE, pulse the last rise outside a pulse, edges the rises since r.
Observe(h, i, t) ==
  LET rises == i.in /\ ~h.in IN
  [in    |-> i.in,
   risen |-> h.risen \/ i.in,
   since |-> IF i.in = h.in THEN h.since ELSE t,
   last  |-> t,
   calls |-> h.calls + 1,
   pulse |-> IF block = "TP" /\ rises /\ PulseOver(h) THEN t ELSE h.pulse,
   reset |-> block \in Counters /\ (h.reset \/ i.r),
   edges |-> CASE block \notin Counters \/ i.r -> 0
               [] OTHER -> IF rises THEN h.edges + 1 ELSE h.edges]

BlockInit ==
  /\ Init
  /\ block \in Blocks /\ preset \in Presets
  /\ fb = [q |-> FALSE, prev |-> FALSE, state |-> 0, et |-> Zero, start |-> Zero,
           cv |-> 0, prevCD |-> FALSE, qd |-> FALSE]
  /\ hist = [in |-> FALSE, risen |-> FALSE, since |-> 0, last |-> 0, calls |-> 0,
             pulse |-> NoPulse, reset |-> FALSE, edges |-> 0]

\* Faulty variant of Execute: the block is executed whatever its EN.
ExecuteAlways(i) ==
  /\ fb' = Body(fb, i, plc)
  /\ hist' = IF i.en THEN Observe(hist, i, Nanos(plc)) ELSE hist

Execute(i) ==
  /\ fb' = IF i.en THEN Body(fb, i, plc) ELSE fb
  /\ hist' = IF i.en THEN Observe(hist, i, Nanos(plc)) ELSE hist

\* config_run__() calls the block, at the time updateTime() left.
RunProgram ==
  /\ RunScan
  /\ \E i \in Inputs : Execute(i)
  /\ UNCHANGED <<block, preset>>

BlockNext ==
  \/ RunProgram
  \/ (updateTime \/ sleep_until \/ Done) /\ UNCHANGED blockVars

BlockSpec == BlockInit /\ [][BlockNext]_allVars

-----------------------------------------------------------------------------
Instance ==
  [q : BOOLEAN, prev : BOOLEAN, state : 0..2, et : Time, start : Time,
   cv : Nat, prevCD : BOOLEAN, qd : BOOLEAN]

Least(a, b) == IF a <= b THEN a ELSE b

\* How long IN has had its level, over the executed scans.
Held == hist.last - hist.since

\* The timing diagrams of matiec_src/lib/timer.txt: a TON's Q is TRUE when IN was seen TRUE for
\* PT; a TOF's drops when IN was seen FALSE for PT; a TP's pulse lasts PT and
\* neither ends nor starts again in between.  The scan of the edge itself
\* never counts as expired, even with a PT of 0.
TimersPunctual ==
  /\ block = "TON" => fb.q = (hist.in /\ Held >= preset /\ Held > 0)
  /\ block = "TOF" => fb.q = (hist.in \/ (hist.risen /\ (Held < preset \/ Held = 0)))
  /\ block = "TP"  => fb.q = ~PulseOver(hist)

\* ET (CDT of an RTC) is the time that the block has been counting, to the
\* nanosecond, through the carries and borrows of time_add() and time_sub().
ElapsedExact ==
  /\ block = "TON" => Nanos(fb.et) = IF hist.in THEN Least(preset, Held) ELSE 0
  /\ block = "TOF" =>
       Nanos(fb.et) = IF hist.risen /\ ~hist.in THEN Least(preset, Held) ELSE 0
  /\ block = "TP" =>
       Nanos(fb.et) = CASE ~PulseOver(hist) -> hist.last - hist.pulse
                        [] PulseOver(hist) /\ hist.in -> preset
                        [] OTHER -> 0
  /\ block = "RTC" => Nanos(fb.et) = IF hist.in THEN preset + Held ELSE hist.last

\* In real time, a timer that has expired has run for PT from the moment at
\* which its scan was due: it is early by no more than the delay with which a
\* late scan saw the edge, also in the burst of scans that catches up.
NeverEarly ==
  /\ block = "TON" /\ fb.q => now - epoch >= hist.since + preset
  /\ block = "TOF" /\ hist.risen /\ ~fb.q => now - epoch >= hist.since + preset
  /\ block = "TP" /\ hist.pulse # NoPulse /\ ~fb.q => now - epoch >= hist.pulse + preset

\* Every edge that an executed scan sees counts once: a counter counts the
\* rising edges since its last reset or load and saturates at PV or 0; an edge
\* detector's Q is TRUE in exactly the scan that sees the edge, where F_TRIG
\* takes a first scan with CLK FALSE for an edge as well.
EdgesOnce ==
  /\ block = "CTU" => fb.cv = Least(preset, hist.edges)
  /\ block = "CTD" => fb.cv = IF hist.reset THEN preset - Least(preset, hist.edges) ELSE 0
  /\ block = "CTUD" => fb.cv \in 0..preset
  /\ block = "R_TRIG" => fb.q = (hist.in /\ Held = 0)
  /\ block = "F_TRIG" => fb.q = (~hist.in /\ IF hist.risen THEN Held = 0 ELSE hist.calls = 1)
=============================================================================
