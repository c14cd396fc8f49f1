----------------------------- MODULE ProcessMap -----------------------------
(***************************************************************************)
(* The pointer arrays of ladder.h behind the process image, and every way  *)
(* through them: glueVars() binds a located variable's entry to it,        *)
(* mapUnusedIO() gives NULL entries a cell of the Modbus buffers, the      *)
(* Modbus function codes and the DNP3 commands turn an address into an     *)
(* entry, and update_vals() copies entries to the DNP3 database.           *)
(*                                                                         *)
(* Memory is a function from addresses to bytes; an int is two bytes, low  *)
(* byte first, a dint four, a lint eight.  The entries of all arrays are   *)
(* numbered through in the order the build lays the arrays out, so an      *)
(* index past the end of an array is an entry of the next one.             *)
(* Sizes are scaled: N is BUFFER_SIZE (1024), Row the bits of a byte (8),  *)
(* MaxBits is MAX_COILS = MAX_DISCRETE_INPUT (800).                        *)
(***************************************************************************)
EXTENDS Integers, Sequences, FiniteSets

CONSTANTS
  N, Row, MaxBits,
  Layouts,      \* the layouts a build may choose: each array's first entry
  Located,      \* the program's located variables: <<array, index>> entries
  MaxCount,     \* bound: registers or coils a request names
  MaxRequests   \* bound: requests, commands and polls

NULL == 0
WILD == -1      \* an entry outside all the arrays: any value at all

BitArrays == {"bool_input", "bool_output"}
Arrays == BitArrays \cup {"byte_input", "byte_output", "int_input", "int_output",
                          "int_memory", "dint_memory", "lint_memory"}

VARIABLES
  layout,   \* the layout of this build; never changes
  ptr,      \* the entries of all the arrays
  mem,      \* bytes
  glued,    \* located variables bound in the current call of glueVars()
  since,    \* history: variables bound since mapUnusedIO() last ran, at most all
  started,  \* main() has created the Modbus and the DNP3 thread
  mapped,   \* the threads that have run mapUnusedIO()
  crashed,  \* the routine that dereferenced NULL, or "no"
  last,     \* the last request: what was asked, and the reply
  db,       \* the DNP3 database: binary inputs and analog outputs
  requests  \* requests so far

vars == <<layout, ptr, mem, glued, since, started, mapped, crashed, last, db, requests>>

-----------------------------------------------------------------------------
(* Memory. *)

mb_holding_regs(i) == 1 + 2 * i
mb_input_regs(i) == 1 + 16 * N + 2 * i
mb_discrete_input(i) == 1 + 18 * N + i
mb_coils(i) == 1 + 18 * N + MaxBits + i
Variable(k) == 1 + 18 * N + 2 * MaxBits + 8 * (k - 1)
Addresses == 1..(Variable(Len(Located)) + 8)

(* Entries. *)

Entries == 0..(N * (7 + 2 * Row) - 1)
Length(a) == IF a \in BitArrays THEN N * Row ELSE N
Entry(a, i) == layout[a] + i
Ptr(a, i) == IF Entry(a, i) \in Entries THEN ptr[Entry(a, i)] ELSE WILD

\* What the program's entry for a located variable is, and should hold.
OwnEntry(k) == Entry(Located[k][1], Located[k][2])

\* A build gives every cell of every array its own entry.  There is a located
\* variable, and a program declares one at most at an address.
ASSUME MapAssumption ==
  /\ N \in Nat \ {0} /\ Row \in Nat \ {0} /\ MaxBits \in 1..(N * Row)
  /\ \A l \in Layouts :
       /\ l \in [Arrays -> Nat]
       /\ \A a, b \in Arrays : \A i \in 0..(Length(a) - 1), j \in 0..(Length(b) - 1) :
            l[a] + i \in Entries /\ (l[a] + i = l[b] + j => a = b /\ i = j)
  /\ Located \in Seq(Arrays \X Nat) /\ Located # << >>
  /\ \A j, k \in DOMAIN Located : Located[j] = Located[k] => j = k
  /\ MaxCount \in Nat /\ MaxRequests \in Nat

\* The program's variables are inside the arrays.  Neither matiec nor the glue
\* generator checks that; the theorems assume it.
Inside == \A k \in DOMAIN Located : Located[k][2] < Length(Located[k][1])

\* Register N is served by the entry that follows int_output's last one.  The
\* theorems about registers assume that it is int_memory[0]'s, or that no
\* variable is located there.
Neighbour ==
  \A l \in Layouts :
    \/ l["int_output"] + N = l["int_memory"]
    \/ \A k \in DOMAIN Located : l[Located[k][1]] + Located[k][2] # l["int_output"] + N

-----------------------------------------------------------------------------
(* Modbus registers. *)

\* The entry that serves register p, by the ranges of the handlers.
RegisterPtr(p) ==
  CASE p <= N -> Ptr("int_output", p)
    [] p > N /\ p < 2 * N -> Ptr("int_memory", p - N)
    [] p >= 2 * N /\ p < 4 * N -> Ptr("dint_memory", (p - 2 * N) \div 2)
    [] p >= 4 * N /\ p < 8 * N -> Ptr("lint_memory", (p - 4 * N) \div 4)

\* Faulty variant of LowByte: the rule for 32 bits used for 64.
LowByteOfTwo(p) == IF p < 2 * N THEN 0 ELSE 2 * (1 - (p % 2))

\* The low byte of register p in its variable: the first word is the highest.
LowByte(p) ==
  CASE p < 2 * N -> 0
    [] p >= 2 * N /\ p < 4 * N -> 2 * (1 - (p % 2))
    [] p >= 4 * N -> 2 * (3 - (p % 4))

ValidRegister(p) == p < 8 * N

\* A register is read high byte first.  Without a variable, memory of 32 and
\* 64 bits falls back to the Modbus buffer, of which the low byte comes twice.
ReadRegister(p) ==
  LET at == RegisterPtr(p) + LowByte(p) IN
  IF RegisterPtr(p) # NULL THEN <<mem[at + 1], mem[at]>>
  ELSE IF p < 2 * N THEN <<0, 0>>
  ELSE <<mem[mb_holding_regs(p)], mem[mb_holding_regs(p)]>>

PutWord(m, at, w) == [m EXCEPT ![at + 1] = w[1], ![at] = w[2]]

\* WriteRegister() for a valid register.
StoreRegister(m, p, w) ==
  IF RegisterPtr(p) # NULL THEN PutWord(m, RegisterPtr(p) + LowByte(p), w)
  ELSE IF p < 2 * N THEN m
  ELSE PutWord(m, mb_holding_regs(p), w)

\* The words that a request carries.
RequestWord(i, v) == <<i, v>>

\* C division and remainder, towards zero.
Quotient(a, b) == IF a >= 0 THEN a \div b ELSE -((-a) \div b)
Remainder(a, b) == a - b * Quotient(a, b)

\* Faulty variant of Tested: registers taken for entries.
TestedUnhalved(start) == Ptr("dint_memory", start - 2 * N)

\* The entry WriteMultipleRegisters() tests before it writes a 32-bit word.
Tested(start) == Ptr("dint_memory", Quotient(start - 2 * N, 2))

\* One round of the loop of WriteMultipleRegisters().
StoreOneOfMany(m, start, count, p, w) ==
  CASE p < 2 * N -> StoreRegister(m, p, w)
    [] p >= 2 * N /\ p < 4 * N ->
         IF Tested(start) = NULL THEN PutWord(m, mb_holding_regs(p), w)
         ELSE PutWord(m, RegisterPtr(p) + LowByte(p), w)
    [] p >= 4 * N /\ p < 8 * N ->
         LET quarter == IF p % 4 = 0 THEN 0 ELSE Remainder(start - 4 * N, 4) IN
         IF RegisterPtr(p) = NULL THEN PutWord(m, mb_holding_regs(start), <<0, count>>)
         ELSE IF p % 4 = 0 \/ quarter \in 1..3 THEN PutWord(m, RegisterPtr(p) + 2 * (3 - quarter), w)
         ELSE m
    [] OTHER -> m

\* The whole loop: every valid register of the range, in order.
StoreMany(m, start, count, v) ==
  LET after[i \in 0..count] ==
        IF i = 0 THEN m
        ELSE StoreOneOfMany(after[i - 1], start, count, start + i - 1, RequestWord(i, v))
  IN after[count]

\* The same written one request at a time.
StoreSingly(m, start, count, v) ==
  LET after[i \in 0..count] ==
        IF i = 0 \/ ~ValidRegister(start + i - 1) THEN (IF i = 0 THEN m ELSE after[i - 1])
        ELSE StoreRegister(after[i - 1], start + i - 1, RequestWord(i, v))
  IN after[count]

\* The loop writes through NULL: the entry it tested is not the one it uses.
StoreManyCrashes(start, count) ==
  \E p \in start..(start + count - 1) :
    p \in (2 * N)..(4 * N - 1) /\ Tested(start) # NULL /\ RegisterPtr(p) = NULL

\* DNP3 points: binary inputs and analog outputs.
Points == ({"BI"} \X (0..(MaxBits - 1))) \cup ({"AO"} \X (0..(8 * N - 1)))

-----------------------------------------------------------------------------
(* Steps. *)

Asked(fc, start, count, reply) == [fc |-> fc, start |-> start, count |-> count, reply |-> reply]
Idle == Asked("none", 0, 0, "none")

\* config_init__() has given the variables their initial values: TRUE for the
\* bits, and bytes of 3, which no request writes, for the words.
InitialByte(a) ==
  CASE a < Variable(1) -> 0
    [] \E k \in DOMAIN Located : a = Variable(k) /\ Located[k][1] \in BitArrays -> 1
    [] OTHER -> 3

Init ==
  /\ layout \in Layouts
  /\ ptr = [e \in Entries |-> NULL]
  /\ mem = [a \in Addresses |-> InitialByte(a)]
  /\ glued = 0 /\ since = 0 /\ started = FALSE
  /\ mapped = {} /\ crashed = "no" /\ last = Idle
  /\ db = [d \in Points |-> 0]
  /\ requests = 0

\* Faulty variant of glueVars: a located variable that it leaves out.
glueVarsLeavesOneOut ==
  /\ crashed = "no"
  /\ ptr' = IF glued = 0 THEN ptr ELSE [ptr EXCEPT ![OwnEntry(glued + 1)] = Variable(glued + 1)]
  /\ glued' = (glued + 1) % Len(Located)
  /\ since' = IF since < Len(Located) THEN since + 1 ELSE since
  /\ started' = (started \/ glued' = 0)
  /\ UNCHANGED <<layout, mem, mapped, crashed, last, db, requests>>

\* One assignment of glueVars(), which runs without the mutex in every scan;
\* main() creates the other threads after the first call.
glueVars ==
  /\ crashed = "no"
  /\ ptr' = [ptr EXCEPT ![OwnEntry(glued + 1)] = Variable(glued + 1)]
  /\ glued' = (glued + 1) % Len(Located)
  /\ started' = (started \/ glued' = 0)
  /\ since' = IF since < Len(Located) THEN since + 1 ELSE since
  /\ UNCHANGED <<layout, mem, mapped, crashed, last, db, requests>>

\* The cell mapUnusedIO() gives a NULL entry of an array that it maps.
SpareCell(a, i) ==
  CASE a = "bool_input" -> mb_discrete_input(i) [] a = "bool_output" -> mb_coils(i)
    [] a = "int_input" -> mb_input_regs(i)      [] a = "int_output" -> mb_holding_regs(i)

\* Faulty variant of SpareCount: the loops stop one short.
SpareCountShort(a) == (IF a \in BitArrays THEN MaxBits ELSE N) - 1

SpareCount(a) == IF a \in BitArrays THEN MaxBits ELSE N

\* A loop over an array whose own NULL entries are filled.
Filled(f, a) ==
  [e \in Entries |-> IF f[e] = NULL /\ e - layout[a] \in 0..(SpareCount(a) - 1)
                       THEN SpareCell(a, e - layout[a]) ELSE f[e]]

\* The loop that tests int_memory[i - MIN_16B_RANGE] and assigns int_memory[i].
MemoryFilled(f) ==
  LET memory[i \in 0..N] ==
        IF i = 0 THEN f
        ELSE IF memory[i - 1][Entry("int_memory", i - 1)] = NULL
          THEN [memory[i - 1] EXCEPT ![Entry("int_memory", N + i - 1)] = mb_holding_regs(N + i - 1)]
          ELSE memory[i - 1]
  IN memory[N]

mapUnusedIO(t) ==
  /\ crashed = "no" /\ started /\ t \notin mapped
  /\ ptr' = MemoryFilled(Filled(Filled(Filled(Filled(ptr, "bool_input"), "bool_output"),
                                       "int_input"), "int_output"))
  /\ mapped' = mapped \cup {t}
  /\ since' = 0
  /\ UNCHANGED <<layout, mem, glued, started, crashed, last, db, requests>>

\* A request of the Modbus thread, or of the DNP3 one.
Serving(t) ==
  /\ crashed = "no" /\ requests < MaxRequests
  /\ IF t = "dnp3" THEN started ELSE t \in mapped
  /\ requests' = requests + 1
  /\ UNCHANGED <<layout, ptr, glued, since, started, mapped>>

WriteRegister ==
  /\ Serving("modbus")
  /\ \E p \in 0..(8 * N), v \in {1, 2} :
       /\ last' = Asked("WriteRegister", p, v, IF ValidRegister(p) THEN "ok" ELSE "exception")
       /\ mem' = IF ValidRegister(p) THEN StoreRegister(mem, p, RequestWord(1, v)) ELSE mem
  /\ UNCHANGED <<crashed, db>>

WriteMultipleRegisters ==
  /\ Serving("modbus")
  /\ \E p \in 0..(8 * N), n \in 1..MaxCount :
       IF StoreManyCrashes(p, n)
       THEN /\ crashed' = "WriteMultipleRegisters"
            /\ last' = Asked("WriteMultipleRegisters", p, n, "none")
            /\ UNCHANGED mem
       ELSE /\ mem' = StoreMany(mem, p, n, 1)
            /\ last' = Asked("WriteMultipleRegisters", p, n,
                             IF ValidRegister(p + n - 1) THEN "ok" ELSE "exception")
            /\ UNCHANGED crashed
  /\ UNCHANGED db

\* Faulty variant of Rounded: the last, incomplete byte is dropped.
RoundedDown(n) == Row * (n \div Row)

\* Coils are served by whole bytes: the range of a request for n of them ends
\* on a multiple of Row, past the n-th coil.
Rounded(n) == Row * ((n + Row - 1) \div Row)
CoilRange(p, n) == p..(p + Rounded(n) - 1)

ReadBits(fc) ==
  /\ Serving("modbus")
  /\ \E p \in 0..MaxBits, n \in 1..MaxCount :
       last' = Asked(fc, p, n,
                     IF CoilRange(p, n) \subseteq 0..(MaxBits - 1) THEN "ok" ELSE "exception")
  /\ UNCHANGED <<mem, crashed, db>>

ReadCoils == ReadBits("ReadCoils")
ReadDiscreteInputs == ReadBits("ReadDiscreteInputs")

\* What is read is ReadRegister() of each position in turn.
ReadHoldingRegisters ==
  /\ Serving("modbus")
  /\ \E p \in 0..(8 * N), n \in 1..MaxCount :
       last' = Asked("ReadHoldingRegisters", p, n,
                     IF ValidRegister(p + n - 1) THEN "ok" ELSE "exception")
  /\ UNCHANGED <<mem, crashed, db>>

ReadInputRegisters ==
  /\ Serving("modbus")
  /\ \E p \in 0..N, n \in 1..MaxCount :
       last' = Asked("ReadInputRegisters", p, n, IF p + n - 1 < N THEN "ok" ELSE "exception")
  /\ UNCHANGED <<mem, crashed, db>>

\* The bits after the n-th are the padding of the request, zeros.
WriteMultipleCoils ==
  /\ Serving("modbus")
  /\ \E p \in 0..MaxBits, n \in 1..MaxCount :
       LET hit == {q \in CoilRange(p, n) : q < MaxBits /\ Ptr("bool_output", q) # NULL} IN
       /\ mem' = [a \in Addresses |->
            IF \E q \in hit : Ptr("bool_output", q) = a
              THEN (IF \E q \in hit : Ptr("bool_output", q) = a /\ q < p + n THEN 1 ELSE 0)
              ELSE mem[a]]
       /\ last' = Asked("WriteMultipleCoils", p, n,
                        IF CoilRange(p, n) \subseteq 0..(MaxBits - 1) THEN "ok" ELSE "exception")
  /\ UNCHANGED <<crashed, db>>

WriteCoil ==
  /\ Serving("modbus")
  /\ \E p \in 0..MaxBits, v \in {0, 1} :
       /\ mem' = IF p < MaxBits /\ Ptr("bool_output", p) # NULL
                   THEN [mem EXCEPT ![Ptr("bool_output", p)] = v] ELSE mem
       /\ last' = Asked("WriteCoil", p, v, IF p < MaxBits THEN "ok" ELSE "exception")
  /\ UNCHANGED <<crashed, db>>

-----------------------------------------------------------------------------
(* DNP3. *)

\* Operate() on a latch: the index is not checked, one past the array is an
\* entry of the next.  Writing outside the arrays' memory crashes or goes
\* unnoticed.
OperateLatch ==
  /\ Serving("dnp3")
  /\ \E p \in 0..(N * Row + 2 * N), v \in {0, 1} :
       /\ mem' = IF Ptr("bool_output", p) \notin {NULL, WILD}
                   THEN [mem EXCEPT ![Ptr("bool_output", p)] = v] ELSE mem
       /\ crashed' \in IF Ptr("bool_output", p) = WILD THEN {"no", "Operate"} ELSE {"no"}
       /\ last' = Asked("OperateLatch", p, v, "ok")
  /\ UNCHANGED db

\* Faulty variant of AnalogPtr: the memory is not addressed from its own start.
AnalogPtrUnshifted(p) ==
  IF p < N /\ Ptr("int_output", p) # NULL THEN Ptr("int_output", p) ELSE Ptr("int_memory", p)

\* The entry Operate() writes for a 16-bit analog output, NULL for none.  An
\* output without an entry falls through to int_memory, index negative.
AnalogPtr(p) ==
  IF p < N /\ Ptr("int_output", p) # NULL THEN Ptr("int_output", p)
  ELSE IF p < 2 * N - 1 THEN Ptr("int_memory", p - N)
  ELSE NULL

OperateAnalog16 ==
  /\ Serving("dnp3")
  /\ \E p \in 0..(2 * N - 1), v \in {1, 2} :
       /\ mem' = IF AnalogPtr(p) # NULL THEN PutWord(mem, AnalogPtr(p), RequestWord(1, v)) ELSE mem
       /\ last' = Asked("OperateAnalog16", p, v, "ok")
  /\ UNCHANGED <<crashed, db>>

\* A 32 or 64-bit analog output is the entry p - MIN of its array, although the
\* range of p is two or four times as long as the array.
WidePtr(p) == IF p < 4 * N THEN Ptr("dint_memory", p - 2 * N) ELSE Ptr("lint_memory", p - 4 * N)

\* The whole variable takes the value, four or eight bytes of it.
PutWide(m, p, w) ==
  [a \in Addresses |-> IF a - WidePtr(p) \in 2..(IF p < 4 * N THEN 3 ELSE 7) THEN 0
                       ELSE PutWord(m, WidePtr(p), w)[a]]

OperateAnalogWide ==
  /\ Serving("dnp3")
  /\ \E p \in (2 * N)..(8 * N - 2) \ {4 * N - 1}, v \in {1, 2} :
       /\ mem' = IF WidePtr(p) \notin {NULL, WILD} THEN PutWide(mem, p, RequestWord(1, v)) ELSE mem
       /\ crashed' \in IF WidePtr(p) = WILD THEN {"no", "Operate"} ELSE {"no"}
       /\ last' = Asked("OperateAnalogWide", p, v, "ok")
  /\ UNCHANGED db

\* Points that update_vals() copies: binary inputs from 1 on, analog outputs
\* without the last of each range, and memory only where an entry is set.
\* Point 2N + i is dint_memory[i] here, past the end of the array included.
OutputPtr(p) ==
  CASE p < N -> Ptr("int_output", p)
    [] p >= N /\ p < 2 * N - 1 -> Ptr("int_memory", p - N)
    [] p >= 2 * N /\ p < 4 * N - 1 -> Ptr("dint_memory", p - 2 * N)
    [] p >= 4 * N /\ p < 5 * N -> Ptr("lint_memory", p - 4 * N)
    [] OTHER -> NULL

PointPtr(d) == IF d[1] = "AO" THEN OutputPtr(d[2]) ELSE IF d[2] = 0 THEN NULL ELSE Ptr("bool_input", d[2])

\* The loops that do not test for NULL.
Unchecked ==
  {Ptr("bool_input", i) : i \in 1..(MaxBits - 1)} \cup {Ptr("bool_output", i) : i \in 0..(MaxBits - 1)}
    \cup {Ptr("int_input", i) : i \in 0..(N - 1)} \cup {Ptr("int_output", i) : i \in 0..(N - 1)}

\* dnp3StartServer() calls it after its own mapUnusedIO().
update_vals ==
  /\ Serving("dnp3") /\ "dnp3" \in mapped
  /\ IF NULL \in Unchecked
     THEN crashed' = "update_vals" /\ UNCHANGED db
     ELSE /\ db' = [d \in DOMAIN db |->
                      IF PointPtr(d) \in {NULL, WILD} THEN db[d] ELSE mem[PointPtr(d)]]
          /\ UNCHANGED crashed
  /\ last' = Asked("update_vals", 0, 0, "ok")
  /\ UNCHANGED mem

\* updateBuffersIn() of a hardware layer, for the first discrete input.
updateBuffersIn ==
  /\ crashed = "no" /\ requests < MaxRequests /\ Ptr("bool_input", 0) # NULL
  /\ mem' = [mem EXCEPT ![Ptr("bool_input", 0)] = 1 - @]
  /\ requests' = requests + 1
  /\ last' = Idle
  /\ UNCHANGED <<layout, ptr, glued, since, started, mapped, crashed, db>>

Next ==
  \/ glueVars \/ mapUnusedIO("modbus") \/ mapUnusedIO("dnp3")
  \/ WriteRegister \/ WriteMultipleRegisters
  \/ ReadCoils \/ ReadDiscreteInputs \/ WriteMultipleCoils \/ WriteCoil
  \/ ReadHoldingRegisters \/ ReadInputRegisters
  \/ OperateLatch \/ OperateAnalog16 \/ OperateAnalogWide \/ update_vals \/ updateBuffersIn

Spec == Init /\ [][Next]_vars

-----------------------------------------------------------------------------
\* update_vals() never meets a NULL entry in the loops that do not test for
\* one, in any layout, whichever thread maps the spare cells first and
\* wherever the scan is in glueVars(): both threads map before they serve.
UpdateNeverMeetsNull == crashed # "update_vals"

\* The program's variables have all been bound since mapUnusedIO() last ran.
Attached == since = Len(Located)

\* main.cpp:217: after a call of glueVars() "the buffer pointers are correct
\* and attached to the user variables", also when mapUnusedIO() has written
\* over entries of the next array in between.
GlueAttaches ==
  Attached => \A k \in DOMAIN Located : ptr[OwnEntry(k)] = Variable(k)

\* The registers of located variables, as Modbus numbers them.
LocatedRegisters ==
  {p \in 0..(8 * N - 1) : \E k \in DOMAIN Located :
     Located[k][1] \notin BitArrays /\ RegisterPtr(p) = Variable(k)}

Did(fc) == requests' # requests /\ last'.fc = fc

\* A register written alone reads back, and no other register of a located
\* variable changes with it, once the variables are attached: the words of a
\* 32 or 64-bit variable do not overlap and no entry is shared.
WriteIsExact ==
  [][\A p \in LocatedRegisters :
     Attached /\ Did("WriteRegister") /\ last'.start = p
       => /\ ReadRegister(p)' = RequestWord(1, last'.count)
          /\ \A q \in LocatedRegisters \ {p} : ReadRegister(q)' = ReadRegister(q)]_vars

\* A DNP3 master and a Modbus one mean the same variable by a 16-bit analog
\* output and a register: what one writes the other reads, and a poll reports.
MastersAgree ==
  [][\A p \in LocatedRegisters \cap 0..(2 * N - 2) : Attached =>
       /\ Did("OperateAnalog16") /\ last'.start = p => ReadRegister(p)' = RequestWord(1, last'.count)
       /\ Did("update_vals") /\ crashed' = "no" => db'[<<"AO", p>>] = ReadRegister(p)[2]]_vars

\* A request for several coils that is answered without an exception has set
\* every coil it names, the ones of a last, incomplete byte included.
CoilsServed ==
  [][Did("WriteMultipleCoils") /\ last'.reply = "ok"
       => \A q \in last'.start..(last'.start + last'.count - 1) :
            q < MaxBits /\ mem'[Ptr("bool_output", q)] = 1]_vars

\* The registers of a request that one rule serves: 16-bit ones, 32-bit ones of
\* which all or none have a variable, or a single 64-bit one that has.
OneRule(start, count) ==
  LET registers == start..(start + count - 1) IN
  \/ registers \subseteq 0..(2 * N - 1)
  \/ /\ registers \subseteq (2 * N)..(4 * N - 1)
     /\ \A p, q \in registers : RegisterPtr(p) = NULL <=> RegisterPtr(q) = NULL
  \/ count = 1 /\ start \in (4 * N)..(8 * N - 1) /\ RegisterPtr(start) # NULL

\* modbus.cpp:702, "Implementation of Modbus/TCP Write Multiple Registers": the
\* request has the effect of writing its registers one after the other, where
\* one rule serves them, across the borders of 16-bit arrays and 32-bit entries.
MultipleIsSingles ==
  [][Did("WriteMultipleRegisters") /\ OneRule(last'.start, last'.count)
       => crashed' = "no" /\ mem' = StoreSingly(mem, last'.start, last'.count, 1)]_vars
=============================================================================
