-------------------------- MODULE ProcessMap_proofs --------------------------
(***************************************************************************)
(* The pointer arrays for buffers of any size, any program and any layout: *)
(* what they point to, and what the Modbus handlers do through them.       *)
(***************************************************************************)
EXTENDS ProcessMap, Induction

-----------------------------------------------------------------------------
(* Numbers. *)

LEMMA Dimensions ==
  /\ N \in Nat \ {0} /\ N * Row \in Nat /\ MaxBits \in Nat \ {0} /\ MaxBits <= N * Row
  /\ Len(Located) \in Nat \ {0} /\ DOMAIN Located = 1..Len(Located)
  /\ \A a \in Arrays : Length(a) \in Nat
<1>1. N \in Nat \ {0} /\ Row \in Nat \ {0} /\ MaxBits \in 1..(N * Row)
  BY MapAssumption
<1>2. N * Row \in Nat
  BY <1>1
<1>3. Len(Located) \in Nat \ {0} /\ DOMAIN Located = 1..Len(Located)
  BY MapAssumption
<1> QED BY <1>1, <1>2, <1>3 DEF Length

LEMMA Places ==
  /\ \A k \in 1..Len(Located) : Variable(k) \in Nat /\ Variable(k) >= Variable(1)
                               /\ Variable(k) # NULL
  /\ Variable(1) \in Nat \ {0} /\ Variable(1) > 18 * N + 2 * MaxBits /\ Variable(1) > 4 * N
  /\ \A j, k \in 1..Len(Located) : Variable(j) - Variable(k) = 8 * (j - k)
  /\ Addresses = 1..(Variable(Len(Located)) + 8)
<1>1. N \in Nat \ {0} /\ MaxBits \in Nat /\ Len(Located) \in Nat
  BY Dimensions
<1> QED BY <1>1 DEF Variable, Addresses, NULL

\* The variables' eight bytes are in memory.
LEMMA LastPlace ==
  \E z \in Nat : /\ Addresses = 1..(z + 8) /\ z >= Variable(1)
                /\ \A k \in DOMAIN Located : Variable(k) \in Nat \ {0} /\ Variable(k) <= z
<1>1. PICK n \in Nat \ {0} : n = Len(Located) /\ DOMAIN Located = 1..n
  BY Dimensions
<1>2. PICK x \in Nat \ {0} : x = 1 + 18 * N + 2 * MaxBits
  BY Dimensions
<1>3. \A k \in Nat : Variable(k) = x + 8 * (k - 1)
  BY <1>2 DEF Variable
<1> DEFINE z == x + 8 * (n - 1)
<1>4. z \in Nat /\ Addresses = 1..(z + 8)
  <2>1. Variable(n) = z
    BY <1>1, <1>3
  <2> QED BY <1>1, <2>1 DEF Addresses
<1>5. \A k \in 1..n : Variable(k) \in Nat \ {0} /\ Variable(k) <= z
  BY <1>2, <1>3
<1>6. Variable(1) <= z
  BY <1>5
<1>7. z >= Variable(1)
  BY <1>4, <1>5, <1>6
<1> QED BY <1>1, <1>4, <1>5, <1>7

\* Every located variable has an entry of its own.
LEMMA OwnEntries ==
  ASSUME Inside, layout \in Layouts
  PROVE  /\ \A k \in DOMAIN Located : OwnEntry(k) \in Entries
         /\ \A j, k \in DOMAIN Located : OwnEntry(j) = OwnEntry(k) => j = k
<1>1. \A k \in DOMAIN Located :
        /\ Located[k][1] \in Arrays /\ Located[k][2] \in 0..(Length(Located[k][1]) - 1)
        /\ Located[k] = <<Located[k][1], Located[k][2]>>
  <2> TAKE k \in DOMAIN Located
  <2>1. Located[k] \in Arrays \X Nat
    BY MapAssumption
  <2> QED BY <2>1, Dimensions DEF Inside
<1>2. \A a, b \in Arrays : \A i \in 0..(Length(a) - 1), j \in 0..(Length(b) - 1) :
        layout[a] + i \in Entries /\ (layout[a] + i = layout[b] + j => a = b /\ i = j)
  BY MapAssumption
<1>3. ASSUME NEW j \in DOMAIN Located, NEW k \in DOMAIN Located, OwnEntry(j) = OwnEntry(k)
      PROVE  j = k
  <2>1. Located[j][1] = Located[k][1] /\ Located[j][2] = Located[k][2]
    BY <1>1, <1>2, <1>3 DEF OwnEntry, Entry
  <2>2. Located[j] = Located[k]
    BY <1>1, <2>1
  <2> QED BY <2>2, MapAssumption
<1> QED BY <1>1, <1>2, <1>3 DEF OwnEntry, Entry

-----------------------------------------------------------------------------
(* The pointers. *)

Memory == [Addresses -> Int]

Shape ==
  /\ layout \in Layouts /\ ptr \in [Entries -> Int] /\ mem \in Memory
  /\ glued \in 0..(Len(Located) - 1) /\ since \in 0..Len(Located)
  /\ DOMAIN db = Points

\* A pointer is NULL, or a spare cell's, or a variable's in its own entry.
Owned ==
  \A e \in Entries : \/ ptr[e] \in 0..(Variable(1) - 1)
                     \/ \E k \in DOMAIN Located : e = OwnEntry(k) /\ ptr[e] = Variable(k)

\* How many of n that take turns have been served since k was, when i is the
\* one served last.
Turns(i, n, k) == IF k <= i THEN i - k ELSE i + n - k

\* How many variables have been bound since variable k was.
Age(k) == Turns(glued, Len(Located), k)

\* The variables bound since the spare cells were given out are bound.
Recent == \A k \in DOMAIN Located : Age(k) < since => ptr[OwnEntry(k)] = Variable(k)

SpareArrays == {"bool_input", "bool_output", "int_input", "int_output"}

\* Cell i of a is not left NULL in f.
Given(f, a) == \A i \in 0..(SpareCount(a) - 1) : Entry(a, i) \in Entries => f[Entry(a, i)] # NULL

Spare == mapped # {} => \A a \in SpareArrays : Given(ptr, a)

MapInv == Shape /\ Owned /\ Recent /\ Spare /\ UpdateNeverMeetsNull

\* g is f but for some entries of spare cells.
Keeps(f, g) ==
  /\ g \in [Entries -> Int]
  /\ \A e \in Entries : g[e] = f[e] \/ g[e] \in 1..(Variable(1) - 1)

LEMMA KeepsAgain ==
  ASSUME NEW f, NEW g, NEW h, Keeps(f, g), Keeps(g, h)
  PROVE  Keeps(f, h)
  BY DEF Keeps

LEMMA KeepsGiven ==
  ASSUME NEW f, NEW g, Keeps(f, g), NEW a \in SpareArrays, Given(f, a)
  PROVE  Given(g, a)
  BY DEF Keeps, Given, NULL

\* Spare cells are below the variables, and as many as a loop gives out.
LEMMA SpareCells ==
  \A a \in SpareArrays :
    /\ SpareCount(a) \in Nat
    /\ \A i \in 0..(SpareCount(a) - 1) : SpareCell(a, i) \in 1..(Variable(1) - 1)
<1>1. N \in Nat \ {0} /\ MaxBits \in Nat \ {0} /\ Variable(1) = 1 + 18 * N + 2 * MaxBits
  BY Dimensions DEF Variable
<1>2. /\ \A i : SpareCell("bool_input", i) = 1 + 18 * N + i
      /\ \A i : SpareCell("bool_output", i) = 1 + 18 * N + MaxBits + i
      /\ \A i : SpareCell("int_input", i) = 1 + 16 * N + 2 * i
      /\ \A i : SpareCell("int_output", i) = 1 + 2 * i
  BY DEF SpareCell, mb_holding_regs, mb_input_regs, mb_discrete_input, mb_coils
<1>3. /\ SpareCount("bool_input") = MaxBits /\ SpareCount("bool_output") = MaxBits
      /\ SpareCount("int_input") = N /\ SpareCount("int_output") = N
  BY DEF SpareCount, BitArrays
<1>4. /\ \A i \in 0..(MaxBits - 1) : SpareCell("bool_input", i) \in 1..(Variable(1) - 1)
      /\ \A i \in 0..(MaxBits - 1) : SpareCell("bool_output", i) \in 1..(Variable(1) - 1)
  BY <1>1, <1>2
<1>5. /\ \A i \in 0..(N - 1) : SpareCell("int_input", i) \in 1..(Variable(1) - 1)
      /\ \A i \in 0..(N - 1) : SpareCell("int_output", i) \in 1..(Variable(1) - 1)
  BY <1>1, <1>2
<1> QED BY <1>1, <1>3, <1>4, <1>5 DEF SpareArrays

\* A loop over one array.
LEMMA FilledGives ==
  ASSUME layout \in Layouts, NEW f \in [Entries -> Int], NEW a \in SpareArrays
  PROVE  Keeps(f, Filled(f, a)) /\ Given(Filled(f, a), a)
<1>1. SpareCount(a) \in Nat /\ \A i \in 0..(SpareCount(a) - 1) : SpareCell(a, i) \in 1..(Variable(1) - 1)
  BY SpareCells
<1>2. \A e \in Entries : \/ Filled(f, a)[e] = f[e] /\ f[e] \in Int
                         \/ Filled(f, a)[e] \in 1..(Variable(1) - 1)
  BY <1>1 DEF Filled
<1>3. Filled(f, a) \in [Entries -> Int]
  <2>1. \A e \in Entries : Filled(f, a)[e] \in Int
    BY <1>2, Places
  <2> QED BY <2>1 DEF Filled
<1>4. layout[a] \in Nat
  BY MapAssumption DEF SpareArrays, Arrays, BitArrays
<1>5. ASSUME NEW i \in 0..(SpareCount(a) - 1), Entry(a, i) \in Entries
      PROVE  Filled(f, a)[Entry(a, i)] # NULL
  <2>1. Entry(a, i) - layout[a] = i
    BY <1>4, <1>1 DEF Entry
  <2> QED BY <1>1, <1>5, <2>1 DEF Filled, NULL
<1> QED BY <1>2, <1>3, <1>5 DEF Keeps, Given

\* One round of the loop over the memory.
MemoryStep(i, g) ==
  IF g[Entry("int_memory", i - 1)] = NULL
    THEN [g EXCEPT ![Entry("int_memory", N + i - 1)] = mb_holding_regs(N + i - 1)]
    ELSE g

LEMMA MemoryStepKeeps ==
  ASSUME NEW g \in [Entries -> Int], NEW i \in 1..N
  PROVE  Keeps(g, MemoryStep(i, g))
<1> DEFINE x == Entry("int_memory", N + i - 1)
           y == mb_holding_regs(N + i - 1)
           h == [g EXCEPT ![x] = y]
<1>1. y \in 1..(Variable(1) - 1)
  BY Dimensions, Places DEF mb_holding_regs, Variable
<1>0. y \in Int
  BY <1>1, Places
<1> HIDE DEF x, y
<1>2. h \in [Entries -> Int] /\ \A e \in Entries : h[e] = g[e] \/ h[e] = y
  BY <1>0
<1>3. Keeps(g, h) /\ Keeps(g, g)
  BY <1>1, <1>2 DEF Keeps
<1> QED BY <1>3 DEF MemoryStep, x, y

\* The whole loop.
LEMMA MemoryKeeps ==
  ASSUME NEW f \in [Entries -> Int]
  PROVE  Keeps(f, MemoryFilled(f))
<1> DEFINE S == [Entries -> Int]
           F == [i \in 1..N |-> [g \in S |-> MemoryStep(i, g)]]
           memory == CHOOSE memory : memory = [i \in 0..N |->
             IF i = 0 THEN f
             ELSE IF memory[i - 1][Entry("int_memory", i - 1)] = NULL
               THEN [memory[i - 1] EXCEPT ![Entry("int_memory", N + i - 1)] = mb_holding_regs(N + i - 1)]
               ELSE memory[i - 1]]
<1>1. MemoryFilled(f) = memory[N]
  BY DEF MemoryFilled
<1>2. memory = CHOOSE m : m = [i \in 0..N |-> IF i = 0 THEN f ELSE MemoryStep(i, m[i - 1])]
  BY DEF MemoryStep
<1> HIDE DEF memory
<1>3. \A i \in 1..N, g \in S : MemoryStep(i, g) \in S /\ Keeps(g, MemoryStep(i, g))
  BY MemoryStepKeeps DEF Keeps
<1>4. F \in [1..N -> [S -> S]] /\ \A i \in 1..N, g \in S : F[i][g] = MemoryStep(i, g)
  BY <1>3
<1>5. f \in S /\ N \in Nat
  BY Dimensions
<1> HIDE DEF F, S
<1>6. PICK g \in [0..N -> S] : Iterates(g, f, F, N)
  BY <1>4, <1>5, Recursion
<1>7. \A i \in 0..N : i # 0 => g[i] = MemoryStep(i, g[i - 1])
  <2> SUFFICES ASSUME NEW i \in 0..N, i # 0 PROVE g[i] = MemoryStep(i, g[i - 1])
    OBVIOUS
  <2>1. i \in 1..N /\ i - 1 \in 0..N
    BY <1>5
  <2>2. g[i - 1] \in S /\ DOMAIN F = 1..N
    BY <2>1, <1>4
  <2> QED BY <1>4, <1>6, <2>1, <2>2 DEF Iterates
<1>8. g = [i \in 0..N |-> IF i = 0 THEN f ELSE MemoryStep(i, g[i - 1])]
  BY <1>6, <1>7 DEF Iterates
<1>9. memory = [i \in 0..N |-> IF i = 0 THEN f ELSE MemoryStep(i, memory[i - 1])]
  BY <1>2, <1>8
<1> DEFINE T == {n \in Nat : n \in 0..N => memory[n] \in S /\ Keeps(f, memory[n])}
<1>10. 0 \in T
  BY <1>5, <1>9 DEF Keeps, S
<1>11. ASSUME NEW n \in Nat, n \in T PROVE n + 1 \in T
  <2> SUFFICES ASSUME n + 1 \in 0..N PROVE memory[n + 1] \in S /\ Keeps(f, memory[n + 1])
    OBVIOUS
  <2>1. n \in 0..N /\ n + 1 \in 1..N /\ (n + 1) - 1 = n /\ n + 1 # 0
    BY <1>5
  <2>2. memory[n] \in S /\ Keeps(f, memory[n])
    BY <1>11, <2>1
  <2>3. memory[n + 1] = MemoryStep(n + 1, memory[n])
    BY <1>9, <2>1
  <2> QED BY <1>3, <2>1, <2>2, <2>3, KeepsAgain
<1> HIDE DEF T
<1>12. N \in T
  BY <1>5, <1>10, <1>11, SetInduction
<1> QED BY <1>1, <1>5, <1>12 DEF T
-----------------------------------------------------------------------------
(* The memory. *)

LEMMA PutTyped ==
  ASSUME NEW m \in Memory, NEW at
  PROVE  /\ \A v \in Int : [m EXCEPT ![at] = v] \in Memory
         /\ [m EXCEPT ![at] = 1 - m[at]] \in Memory
<1>1. ASSUME NEW v, at \in Addresses => v \in Int PROVE [m EXCEPT ![at] = v] \in Memory
  BY <1>1 DEF Memory
<1>2. at \in Addresses => 1 - m[at] \in Int
  BY DEF Memory
<1> QED BY <1>1, <1>2

LEMMA PutWordTyped ==
  ASSUME NEW m \in Memory, NEW at, NEW u \in Int, NEW v \in Int
  PROVE  PutWord(m, at, <<u, v>>) \in Memory
<1>1. <<u, v>>[1] = u /\ <<u, v>>[2] = v
  OBVIOUS
<1> QED BY <1>1 DEF PutWord, Memory

LEMMA StoreRegisterTyped ==
  ASSUME NEW m \in Memory, NEW p, NEW u \in Int, NEW v \in Int
  PROVE  StoreRegister(m, p, <<u, v>>) \in Memory
  BY PutWordTyped DEF StoreRegister

LEMMA StoreOneOfManyTyped ==
  ASSUME NEW m \in Memory, NEW start, NEW count \in Int, NEW p, NEW u \in Int, NEW v \in Int
  PROVE  StoreOneOfMany(m, start, count, p, <<u, v>>) \in Memory
<1>1. \A at : PutWord(m, at, <<u, v>>) \in Memory /\ PutWord(m, at, <<0, count>>) \in Memory
  BY PutWordTyped
<1>2. StoreRegister(m, p, <<u, v>>) \in Memory
  BY StoreRegisterTyped
<1> QED BY <1>1, <1>2 DEF StoreOneOfMany

\* The loops over the registers of a request, as functions of the round.
Many(after, m, start, count, v) ==
  after = [i \in 0..count |-> IF i = 0 THEN m
             ELSE StoreOneOfMany(after[i - 1], start, count, start + i - 1, RequestWord(i, v))]

LEMMA ManyExists ==
  ASSUME NEW m \in Memory, NEW start, NEW count \in Nat, NEW v \in Int
  PROVE  \E after \in [0..count -> Memory] :
           /\ Many(after, m, start, count, v)
           /\ StoreMany(m, start, count, v) = after[count]
<1> DEFINE F == [i \in 1..count |-> [g \in Memory |->
                  StoreOneOfMany(g, start, count, start + i - 1, RequestWord(i, v))]]
           after == CHOOSE after : Many(after, m, start, count, v)
<1>1. \A i \in 1..count, g \in Memory :
        StoreOneOfMany(g, start, count, start + i - 1, RequestWord(i, v)) \in Memory
  BY StoreOneOfManyTyped DEF RequestWord
<1>2. /\ F \in [1..count -> [Memory -> Memory]]
      /\ \A i \in 1..count, g \in Memory :
           F[i][g] = StoreOneOfMany(g, start, count, start + i - 1, RequestWord(i, v))
  BY <1>1
<1> HIDE DEF F
<1>3. PICK g \in [0..count -> Memory] : Iterates(g, m, F, count)
  BY <1>2, Recursion
<1>4. \A i \in 0..count : i # 0 =>
        g[i] = StoreOneOfMany(g[i - 1], start, count, start + i - 1, RequestWord(i, v))
  <2> SUFFICES ASSUME NEW i \in 0..count, i # 0
               PROVE  g[i] = StoreOneOfMany(g[i - 1], start, count, start + i - 1, RequestWord(i, v))
    OBVIOUS
  <2>1. i \in 1..count /\ i - 1 \in 0..count /\ DOMAIN F = 1..count
    BY <1>2
  <2>2. g[i - 1] \in Memory
    BY <2>1
  <2> QED BY <1>2, <1>3, <2>1, <2>2 DEF Iterates
<1>5. Many(g, m, start, count, v)
  BY <1>3, <1>4 DEF Many, Iterates
<1>6. Many(after, m, start, count, v)
  BY <1>5
<1>7. StoreMany(m, start, count, v) = after[count]
  BY DEF StoreMany, Many
<1> HIDE DEF after
<1>8. DOMAIN after = 0..count /\ \A i \in 0..count : after[i] =
        IF i = 0 THEN m
        ELSE StoreOneOfMany(after[i - 1], start, count, start + i - 1, RequestWord(i, v))
  BY <1>6 DEF Many
<1> DEFINE T == {n \in Nat : n \in 0..count => after[n] \in Memory}
<1>9. 0 \in T
  BY <1>8
<1>10. ASSUME NEW n \in Nat, n \in T PROVE n + 1 \in T
  <2> SUFFICES ASSUME n + 1 \in 0..count PROVE after[n + 1] \in Memory
    OBVIOUS
  <2>1. n \in 0..count /\ n + 1 \in 1..count /\ (n + 1) - 1 = n /\ n + 1 # 0
    OBVIOUS
  <2> QED BY <1>1, <1>8, <1>10, <2>1
<1> HIDE DEF T
<1>11. Nat \subseteq T
  BY <1>9, <1>10, SetInduction
<1>12. \A i \in 0..count : after[i] \in Memory
  BY <1>11 DEF T
<1>13. after \in [0..count -> Memory]
  BY <1>6, <1>12 DEF Many
<1> QED BY <1>6, <1>7, <1>13

-----------------------------------------------------------------------------
(* The pointers stay in order. *)

LEMMA NextTurn ==
  ASSUME NEW n \in Nat \ {0}, NEW i \in 0..(n - 1), NEW j, j = (i + 1) % n
  PROVE  /\ i + 1 \in 1..n /\ j \in 0..(n - 1)
         /\ \A k \in 1..n : k # i + 1 => /\ Turns(i, n, k) \in 0..(n - 1)
                                        /\ Turns(j, n, k) = Turns(i, n, k) + 1
<1>1. j = IF i + 1 = n THEN 0 ELSE i + 1
  OBVIOUS
<1> QED BY <1>1 DEF Turns

LEMMA InitMap ==
  ASSUME Init
  PROVE  MapInv
<1>1. mem \in Memory
  BY DEF Init, Memory, InitialByte
<1>2. Shape
  <2>1. Len(Located) \in Nat \ {0}
    BY Dimensions
  <2> QED BY <1>1, <2>1 DEF Init, Shape, NULL
<1>3. Owned
  BY Places DEF Init, Owned, NULL
<1>4. Recent
  BY Dimensions DEF Init, Recent, Age, Turns
<1> QED BY <1>2, <1>3, <1>4 DEF Init, MapInv, Spare, UpdateNeverMeetsNull

\* One assignment of glueVars() makes its variable the one bound last.
LEMMA GlueMap ==
  ASSUME Inside, MapInv, glueVars
  PROVE  MapInv'
<1> DEFINE c == glued + 1
           L == Len(Located)
<1>1. /\ ptr' = [ptr EXCEPT ![OwnEntry(c)] = Variable(c)]
      /\ glued' = c % L /\ since' = IF since < L THEN since + 1 ELSE since
      /\ UNCHANGED <<layout, mem, mapped, crashed, db>>
  BY DEF glueVars
<1>2. /\ layout \in Layouts /\ ptr \in [Entries -> Int] /\ mem \in Memory
      /\ DOMAIN db = Points
      /\ glued \in 0..(L - 1) /\ since \in 0..L /\ L \in Nat \ {0} /\ DOMAIN Located = 1..L
  BY Dimensions DEF MapInv, Shape
<1>3. /\ c \in 1..L /\ glued' \in 0..(L - 1)
      /\ \A k \in 1..L : k # c => Age(k) \in Nat /\ Age(k)' = Age(k) + 1
  <2>1. PICK n \in Nat \ {0} : n = L
    BY <1>2
  <2>2. glued \in 0..(n - 1) /\ glued' = (glued + 1) % n
    BY <1>1, <1>2, <2>1
  <2>3. /\ glued + 1 \in 1..n /\ glued' \in 0..(n - 1)
        /\ \A k \in 1..n : k # glued + 1 => /\ Turns(glued, n, k) \in 0..(n - 1)
                                           /\ Turns(glued', n, k) = Turns(glued, n, k) + 1
    BY <2>2, NextTurn
  <2> QED BY <2>1, <2>3 DEF Age
<1>4. /\ \A k \in 1..L : OwnEntry(k) \in Entries
      /\ \A j, k \in 1..L : OwnEntry(j) = OwnEntry(k) => j = k
  BY <1>2, OwnEntries
<1>5. \A k \in 1..L : OwnEntry(k)' = OwnEntry(k)
  BY <1>1 DEF OwnEntry, Entry
<1>6. /\ Variable(c) \in Int /\ Variable(c) # NULL
  BY <1>3, Places
<1>7. Shape'
  <2>1. ptr' \in [Entries -> Int]
    BY <1>1, <1>2, <1>6
  <2>2. since' \in 0..L
    BY <1>1, <1>2
  <2> QED BY <1>1, <1>2, <1>3, <2>1, <2>2 DEF Shape
<1>8. Owned'
  <2> SUFFICES ASSUME NEW e \in Entries
               PROVE  \/ ptr'[e] \in 0..(Variable(1) - 1)
                      \/ \E k \in DOMAIN Located : e = OwnEntry(k)' /\ ptr'[e] = Variable(k)
    BY DEF Owned
  <2>1. CASE e = OwnEntry(c)
    BY <2>1, <1>1, <1>2, <1>3, <1>4, <1>5
  <2>2. CASE e # OwnEntry(c)
    BY <2>2, <1>1, <1>2, <1>5 DEF MapInv, Owned
  <2> QED BY <2>1, <2>2
<1>9. Recent'
  <2> SUFFICES ASSUME NEW k \in 1..L, Age(k)' < since' PROVE ptr'[OwnEntry(k)'] = Variable(k)
    BY <1>2 DEF Recent
  <2>1. CASE k = c
    BY <2>1, <1>1, <1>2, <1>3, <1>4, <1>5
  <2>2. CASE k # c
    <3>1. Age(k)' = Age(k) + 1 /\ Age(k) \in Nat
      BY <2>2, <1>3
    <3>2. Age(k) < since
      <4>1. since' <= since + 1 /\ since \in Nat /\ since' \in Nat
        BY <1>1, <1>2
      <4> QED BY <3>1, <4>1
    <3>3. ptr[OwnEntry(k)] = Variable(k)
      BY <1>2, <3>2 DEF MapInv, Recent
    <3> QED BY <2>2, <3>3, <1>1, <1>2, <1>3, <1>4, <1>5
  <2> QED BY <2>1, <2>2
<1>10. Spare'
  <2>1. \A e \in Entries : ptr[e] # NULL => ptr'[e] # NULL
    BY <1>1, <1>2, <1>6
  <2>2. \A a \in SpareArrays : Given(ptr, a) => Given(ptr, a)'
    BY <1>1, <2>1 DEF Given, Entry
  <2> QED BY <1>1, <2>2 DEF MapInv, Spare
<1> QED BY <1>1, <1>7, <1>8, <1>9, <1>10 DEF MapInv, UpdateNeverMeetsNull

\* mapUnusedIO() leaves no entry NULL that it is to map, and may take variables'
\* entries away.
LEMMA SpareMap ==
  ASSUME MapInv, NEW t, mapUnusedIO(t)
  PROVE  MapInv'
<1> DEFINE f1 == Filled(ptr, "bool_input")
           f2 == Filled(f1, "bool_output")
           f3 == Filled(f2, "int_input")
           f4 == Filled(f3, "int_output")
<1>1. ptr' = MemoryFilled(f4) /\ since' = 0 /\ UNCHANGED <<layout, mem, glued, crashed, db>>
  BY DEF mapUnusedIO
<1>2. layout \in Layouts /\ ptr \in [Entries -> Int]
  BY DEF MapInv, Shape
<1>3. "bool_input" \in SpareArrays /\ "bool_output" \in SpareArrays
      /\ "int_input" \in SpareArrays /\ "int_output" \in SpareArrays
  BY DEF SpareArrays
<1>4. Keeps(ptr, f1) /\ Given(f1, "bool_input")
  BY <1>2, <1>3, FilledGives
<1> HIDE DEF f1
<1>5. Keeps(f1, f2) /\ Given(f2, "bool_output")
  BY <1>2, <1>3, <1>4, FilledGives DEF Keeps
<1> HIDE DEF f2
<1>6. Keeps(f2, f3) /\ Given(f3, "int_input")
  BY <1>2, <1>3, <1>5, FilledGives DEF Keeps
<1> HIDE DEF f3
<1>7. Keeps(f3, f4) /\ Given(f4, "int_output")
  BY <1>2, <1>3, <1>6, FilledGives DEF Keeps
<1> HIDE DEF f4
<1>8. Keeps(f4, ptr')
  BY <1>1, <1>7, MemoryKeeps DEF Keeps
<1>9. Keeps(ptr, ptr')
  BY <1>4, <1>5, <1>6, <1>7, <1>8, KeepsAgain
<1>10. \A a \in SpareArrays : Given(ptr', a)
  <2>1. Given(ptr', "bool_input")
    BY <1>3, <1>4, <1>5, <1>6, <1>7, <1>8, KeepsGiven
  <2>2. Given(ptr', "bool_output")
    BY <1>3, <1>5, <1>6, <1>7, <1>8, KeepsGiven
  <2>3. Given(ptr', "int_input")
    BY <1>3, <1>6, <1>7, <1>8, KeepsGiven
  <2>4. Given(ptr', "int_output")
    BY <1>3, <1>7, <1>8, KeepsGiven
  <2> QED BY <2>1, <2>2, <2>3, <2>4 DEF SpareArrays
<1>11. Shape'
  BY <1>1, <1>9, Dimensions DEF MapInv, Shape, Keeps
<1>12. Owned'
  <2>1. \A k \in DOMAIN Located : OwnEntry(k)' = OwnEntry(k)
    BY <1>1 DEF OwnEntry, Entry
  <2>2. \A e \in Entries : ptr'[e] = ptr[e] \/ ptr'[e] \in 0..(Variable(1) - 1)
    BY <1>9, Places DEF Keeps
  <2> QED BY <2>1, <2>2 DEF MapInv, Owned
<1>13. Recent'
  BY <1>1, <1>11, Dimensions DEF Recent, Age, Turns, Shape
<1>14. Spare'
  BY <1>1, <1>10 DEF Spare, Given, Entry
<1> QED BY <1>1, <1>11, <1>12, <1>13, <1>14 DEF MapInv, UpdateNeverMeetsNull

\* A step that leaves the pointers alone.
LEMMA PointersStay ==
  ASSUME MapInv, UNCHANGED <<layout, ptr, glued, since, mapped>>,
         mem' \in Memory, DOMAIN db' = DOMAIN db, crashed' # "update_vals"
  PROVE  MapInv'
<1>1. \A k : OwnEntry(k)' = OwnEntry(k) /\ Age(k)' = Age(k)
  BY DEF OwnEntry, Entry, Age
<1>2. Shape' /\ Owned' /\ Recent'
  BY <1>1 DEF MapInv, Shape, Owned, Recent
<1>3. Spare'
  BY DEF MapInv, Spare, Given, Entry
<1> QED BY <1>2, <1>3 DEF MapInv, UpdateNeverMeetsNull

\* What update_vals() does not test has been given a cell by its own thread.
LEMMA UncheckedGiven ==
  ASSUME MapInv, mapped # {}
  PROVE  NULL \notin Unchecked
<1>1. \A a \in SpareArrays : \A i \in 0..(SpareCount(a) - 1) : Ptr(a, i) # NULL
  BY DEF MapInv, Spare, Given, Ptr, NULL, WILD
<1>2. /\ "bool_input" \in SpareArrays /\ "bool_output" \in SpareArrays
      /\ "int_input" \in SpareArrays /\ "int_output" \in SpareArrays
      /\ SpareCount("bool_input") = MaxBits /\ SpareCount("bool_output") = MaxBits
      /\ SpareCount("int_input") = N /\ SpareCount("int_output") = N
  BY DEF SpareArrays, SpareCount, BitArrays
<1>3. 1..(MaxBits - 1) \subseteq 0..(MaxBits - 1)
  BY Dimensions
<1> QED BY <1>1, <1>2, <1>3 DEF Unchecked

LEMMA NextMap ==
  ASSUME Inside, MapInv, [Next]_vars
  PROVE  MapInv'
<1>0. mem \in Memory /\ crashed # "update_vals"
  BY DEF MapInv, Shape, UpdateNeverMeetsNull
<1>1. CASE glueVars
  BY <1>1, GlueMap
<1>2. ASSUME NEW t, mapUnusedIO(t) PROVE MapInv'
  BY <1>2, SpareMap
<1>3. CASE WriteRegister
  <2>1. PICK p \in 0..(8 * N), v \in {1, 2} :
          mem' = IF ValidRegister(p) THEN StoreRegister(mem, p, RequestWord(1, v)) ELSE mem
    BY <1>3 DEF WriteRegister
  <2>2. mem' \in Memory
    BY <1>0, <2>1, StoreRegisterTyped DEF RequestWord
  <2> QED BY <1>0, <1>3, <2>2, PointersStay DEF WriteRegister, Serving
<1>4. CASE WriteMultipleRegisters
  <2>1. PICK p \in 0..(8 * N), n \in 1..MaxCount :
          /\ mem' = mem \/ mem' = StoreMany(mem, p, n, 1)
          /\ crashed' = "WriteMultipleRegisters" \/ UNCHANGED crashed
    BY <1>4 DEF WriteMultipleRegisters
  <2>2. n \in Nat
    BY MapAssumption
  <2>3. PICK after \in [0..n -> Memory] : StoreMany(mem, p, n, 1) = after[n]
    BY <1>0, <2>2, ManyExists
  <2>4. mem' \in Memory
    BY <1>0, <2>1, <2>2, <2>3
  <2> QED BY <1>0, <1>4, <2>1, <2>4, PointersStay DEF WriteMultipleRegisters, Serving
<1>5. CASE ReadCoils \/ ReadDiscreteInputs \/ ReadHoldingRegisters \/ ReadInputRegisters
  BY <1>0, <1>5, PointersStay DEF ReadCoils, ReadDiscreteInputs, ReadHoldingRegisters,
     ReadInputRegisters, ReadBits, Serving
<1>6. CASE WriteMultipleCoils
  <2>1. mem' \in Memory
    BY <1>0, <1>6 DEF WriteMultipleCoils, Memory
  <2> QED BY <1>0, <1>6, <2>1, PointersStay DEF WriteMultipleCoils, Serving
<1>7. CASE WriteCoil
  <2>1. PICK p \in 0..MaxBits, v \in {0, 1} :
          mem' = IF p < MaxBits /\ Ptr("bool_output", p) # NULL
                   THEN [mem EXCEPT ![Ptr("bool_output", p)] = v] ELSE mem
    BY <1>7 DEF WriteCoil
  <2>2. v \in Int
    OBVIOUS
  <2>3. [mem EXCEPT ![Ptr("bool_output", p)] = v] \in Memory
    BY <1>0, <2>2, PutTyped
  <2>4. mem' \in Memory
    BY <1>0, <2>1, <2>3
  <2> QED BY <1>0, <1>7, <2>4, PointersStay DEF WriteCoil, Serving
<1>8. CASE OperateLatch
  <2>1. PICK p \in 0..(N * Row + 2 * N), v \in {0, 1} :
          mem' = IF Ptr("bool_output", p) \notin {NULL, WILD}
                   THEN [mem EXCEPT ![Ptr("bool_output", p)] = v] ELSE mem
    BY <1>8 DEF OperateLatch
  <2>2. v \in Int
    OBVIOUS
  <2>3. [mem EXCEPT ![Ptr("bool_output", p)] = v] \in Memory
    BY <1>0, <2>2, PutTyped
  <2>4. mem' \in Memory
    BY <1>0, <2>1, <2>3
  <2> QED BY <1>0, <1>8, <2>4, PointersStay DEF OperateLatch, Serving
<1>9. CASE OperateAnalog16
  <2>1. mem' \in Memory
    BY <1>0, <1>9, PutWordTyped DEF OperateAnalog16, RequestWord
  <2> QED BY <1>0, <1>9, <2>1, PointersStay DEF OperateAnalog16, Serving
<1>10. CASE OperateAnalogWide
  <2>1. \A p, v \in Int : PutWide(mem, p, RequestWord(1, v)) \in Memory
    <3> SUFFICES ASSUME NEW p \in Int, NEW v \in Int
                 PROVE  PutWide(mem, p, RequestWord(1, v)) \in Memory
      OBVIOUS
    <3>1. PutWord(mem, WidePtr(p), RequestWord(1, v)) \in Memory
      BY <1>0, PutWordTyped DEF RequestWord
    <3> QED BY <3>1 DEF PutWide, Memory
  <2>2. PICK p \in (2 * N)..(8 * N - 2), v \in {1, 2} :
          mem' = mem \/ mem' = PutWide(mem, p, RequestWord(1, v))
    BY <1>10 DEF OperateAnalogWide
  <2>3. mem' \in Memory
    BY <1>0, <2>1, <2>2
  <2> QED BY <1>0, <1>10, <2>3, PointersStay DEF OperateAnalogWide, Serving
<1>11. CASE update_vals
  <2>1. NULL \notin Unchecked
    BY <1>11, UncheckedGiven DEF update_vals
  <2> QED BY <1>0, <1>11, <2>1, PointersStay DEF update_vals, Serving
<1>12. CASE updateBuffersIn
  <2>1. mem' \in Memory
    BY <1>0, <1>12, PutTyped DEF updateBuffersIn
  <2> QED BY <1>0, <1>12, <2>1, PointersStay DEF updateBuffersIn
<1>13. CASE UNCHANGED vars
  BY <1>0, <1>13, PointersStay DEF vars
<1> QED BY <1>1, <1>2, <1>3, <1>4, <1>5, <1>6, <1>7, <1>8, <1>9, <1>10, <1>11, <1>12,
          <1>13 DEF Next

LEMMA MapInduction ==
  ASSUME Inside
  PROVE  Spec => []MapInv
<1>1. Init => MapInv
  BY InitMap
<1>2. MapInv /\ [Next]_vars => MapInv'
  BY NextMap
<1> QED BY <1>1, <1>2, PTL DEF Spec

\* update_vals() never reads through a NULL pointer, for buffers of any size, in
\* any layout and at any point of glueVars(): the DNP3 thread maps the spare
\* cells itself, and neither thread sets an entry back to NULL.
THEOREM MapUpdateNeverMeetsNull ==
  ASSUME Inside
  PROVE  Spec => []UpdateNeverMeetsNull
<1>1. MapInv => UpdateNeverMeetsNull
  BY DEF MapInv
<1> QED BY <1>1, MapInduction, PTL

\* Every located variable is in its entry once glueVars() has gone round since
\* mapUnusedIO() last ran, whatever that has written over and however far the
\* round had come.
THEOREM MapGlueAttaches ==
  ASSUME Inside
  PROVE  Spec => []GlueAttaches
<1>1. MapInv => GlueAttaches
  <2> SUFFICES ASSUME MapInv, Attached, NEW k \in DOMAIN Located
               PROVE  ptr[OwnEntry(k)] = Variable(k)
    BY DEF GlueAttaches
  <2>1. PICK n \in Nat \ {0} : n = Len(Located) /\ DOMAIN Located = 1..n
    BY Dimensions
  <2>2. glued \in 0..(n - 1) /\ since = n
    BY <2>1 DEF MapInv, Shape, Attached
  <2>3. Age(k) < since
    BY <2>1, <2>2 DEF Age, Turns
  <2> QED BY <2>3 DEF MapInv, Recent
<1> QED BY <1>1, MapInduction, PTL

-----------------------------------------------------------------------------
(* Requests. *)

\* The last request was answered by its own handler.
LEMMA DidIt ==
  ASSUME [Next]_vars
  PROVE  /\ Did("WriteRegister") => WriteRegister
         /\ Did("WriteMultipleRegisters") => WriteMultipleRegisters
         /\ Did("WriteMultipleCoils") => WriteMultipleCoils
         /\ Did("OperateAnalog16") => OperateAnalog16
         /\ Did("update_vals") => update_vals
<1> DEFINE Answers(fc) == last'.fc = fc
<1>1. WriteRegister => Answers("WriteRegister")
  BY DEF WriteRegister, Asked
<1>2. WriteMultipleRegisters => Answers("WriteMultipleRegisters")
  BY DEF WriteMultipleRegisters, Asked
<1>3. WriteMultipleCoils => Answers("WriteMultipleCoils")
  BY DEF WriteMultipleCoils, Asked
<1>4. OperateAnalog16 => Answers("OperateAnalog16")
  BY DEF OperateAnalog16, Asked
<1>5. update_vals => Answers("update_vals")
  BY DEF update_vals, Asked
<1>6. ReadCoils \/ ReadDiscreteInputs => Answers("ReadCoils") \/ Answers("ReadDiscreteInputs")
  BY DEF ReadCoils, ReadDiscreteInputs, ReadBits, Asked
<1>7. ReadHoldingRegisters \/ ReadInputRegisters
        => Answers("ReadHoldingRegisters") \/ Answers("ReadInputRegisters")
  BY DEF ReadHoldingRegisters, ReadInputRegisters, Asked
<1>8. WriteCoil \/ OperateLatch \/ OperateAnalogWide
        => Answers("WriteCoil") \/ Answers("OperateLatch") \/ Answers("OperateAnalogWide")
  BY DEF WriteCoil, OperateLatch, OperateAnalogWide, Asked
<1>9. updateBuffersIn => Answers("none")
  BY DEF updateBuffersIn, Idle, Asked
<1>10. glueVars \/ mapUnusedIO("modbus") \/ mapUnusedIO("dnp3") \/ UNCHANGED vars
         => requests' = requests
  BY DEF glueVars, mapUnusedIO, vars
<1> QED BY <1>1, <1>2, <1>3, <1>4, <1>5, <1>6, <1>7, <1>8, <1>9, <1>10 DEF Next, Did

-----------------------------------------------------------------------------
(* Registers and variables. *)

\* The cell of an array that serves register p.
Serves(a, i, p) ==
  \/ a = "int_output" /\ i = p /\ p < N
  \/ a = "int_memory" /\ i = p - N /\ p >= N /\ p < 2 * N
  \/ a = "dint_memory" /\ i = (p - 2 * N) \div 2 /\ p >= 2 * N /\ p < 4 * N
  \/ a = "lint_memory" /\ i = (p - 4 * N) \div 4 /\ p >= 4 * N

LEMMA ServingCell ==
  ASSUME NEW p \in 0..(8 * N - 1), p # N \/ layout["int_output"] + N = layout["int_memory"],
         layout \in Layouts
  PROVE  \E a \in Arrays \ BitArrays, i \in 0..(N - 1) : Serves(a, i, p) /\ RegisterPtr(p) = Ptr(a, i)
<1>1. N \in Nat \ {0} /\ layout["int_output"] \in Nat /\ layout["int_memory"] \in Nat
  <2>1. layout \in [Arrays -> Nat] /\ "int_output" \in Arrays /\ "int_memory" \in Arrays
    BY MapAssumption DEF Arrays
  <2> QED BY <2>1, Dimensions
<1>2. CASE p < N
  <2>1. RegisterPtr(p) = Ptr("int_output", p)
    BY <1>1, <1>2 DEF RegisterPtr
  <2> QED BY <1>1, <1>2, <2>1 DEF Serves, Arrays, BitArrays
<1>3. CASE p = N
  <2>1. RegisterPtr(p) = Ptr("int_output", N)
    BY <1>1, <1>3 DEF RegisterPtr
  <2>2. Ptr("int_output", N) = Ptr("int_memory", 0)
    BY <1>1, <1>3 DEF Ptr, Entry
  <2> QED BY <1>1, <1>3, <2>1, <2>2 DEF Serves, Arrays, BitArrays
<1>4. CASE p > N /\ p < 2 * N
  <2>1. RegisterPtr(p) = Ptr("int_memory", p - N)
    BY <1>1, <1>4 DEF RegisterPtr
  <2> QED BY <1>1, <1>4, <2>1 DEF Serves, Arrays, BitArrays
<1>5. CASE p >= 2 * N /\ p < 4 * N
  <2>1. RegisterPtr(p) = Ptr("dint_memory", (p - 2 * N) \div 2)
    BY <1>1, <1>5 DEF RegisterPtr
  <2>2. (p - 2 * N) \div 2 \in 0..(N - 1)
    BY <1>1, <1>5
  <2> QED BY <1>1, <1>5, <2>1, <2>2 DEF Serves, Arrays, BitArrays
<1>6. CASE p >= 4 * N
  <2>1. RegisterPtr(p) = Ptr("lint_memory", (p - 4 * N) \div 4)
    BY <1>1, <1>6 DEF RegisterPtr
  <2>2. (p - 4 * N) \div 4 \in 0..(N - 1)
    BY <1>1, <1>6
  <2> QED BY <1>1, <1>6, <2>1, <2>2 DEF Serves, Arrays, BitArrays
<1> QED BY <1>1, <1>2, <1>3, <1>4, <1>5, <1>6

LEMMA LowBytes == \A p \in Nat : LowByte(p) \in {0, 2, 4, 6}
<1>1. N \in Nat
  BY Dimensions
<1>2. \A p \in Nat : p % 2 \in {0, 1} /\ p % 4 \in {0, 1, 2, 3}
  OBVIOUS
<1> QED BY <1>1, <1>2 DEF LowByte

\* The registers that one cell serves are different words of it.
LEMMA WordsOfCell ==
  ASSUME NEW p \in 0..(8 * N - 1), NEW q \in 0..(8 * N - 1), p # q,
         NEW a, NEW i \in 0..(N - 1), Serves(a, i, p), Serves(a, i, q)
  PROVE  LowByte(p) - LowByte(q) \notin (-1)..1
<1>1. N \in Nat
  BY Dimensions
<1>2. a = "dint_memory" \/ a = "lint_memory"
  BY <1>1 DEF Serves
<1>3. CASE a = "dint_memory"
  <2>1. /\ p >= 2 * N /\ p < 4 * N /\ q >= 2 * N /\ q < 4 * N
        /\ (p - 2 * N) \div 2 = (q - 2 * N) \div 2
    BY <1>3 DEF Serves
  <2>2. p % 2 # q % 2 /\ p % 2 \in {0, 1} /\ q % 2 \in {0, 1}
    BY <1>1, <2>1
  <2>3. LowByte(p) = 2 * (1 - (p % 2)) /\ LowByte(q) = 2 * (1 - (q % 2))
    BY <1>1, <2>1 DEF LowByte
  <2> QED BY <2>2, <2>3
<1>4. CASE a = "lint_memory"
  <2>1. p >= 4 * N /\ q >= 4 * N /\ (p - 4 * N) \div 4 = (q - 4 * N) \div 4
    BY <1>4 DEF Serves
  <2>2. p % 4 # q % 4 /\ p % 4 \in 0..3 /\ q % 4 \in 0..3
    BY <1>1, <2>1
  <2>3. LowByte(p) = 2 * (3 - (p % 4)) /\ LowByte(q) = 2 * (3 - (q % 4))
    BY <1>1, <2>1 DEF LowByte
  <2> QED BY <2>2, <2>3
<1> QED BY <1>2, <1>3, <1>4

\* The variable of a register is in the cell that serves the register.
LEMMA VariableOfRegister ==
  ASSUME Inside, Neighbour, MapInv, NEW p \in LocatedRegisters
  PROVE  \E k \in DOMAIN Located :
           /\ RegisterPtr(p) = Variable(k)
           /\ \E a \in Arrays \ BitArrays, i \in 0..(N - 1) :
                Serves(a, i, p) /\ Entry(a, i) = OwnEntry(k)
           /\ p # N \/ layout["int_output"] + N = layout["int_memory"]
<1>1. p \in 0..(8 * N - 1) /\ \E k \in DOMAIN Located : RegisterPtr(p) = Variable(k)
  BY DEF LocatedRegisters
<1>2. PICK k \in DOMAIN Located : RegisterPtr(p) = Variable(k)
  BY <1>1
<1>3. k \in 1..Len(Located) /\ layout \in Layouts /\ N \in Nat \ {0}
  BY Dimensions DEF MapInv, Shape
<1>4. Variable(k) \in Nat /\ Variable(k) >= Variable(1) /\ Variable(1) \in Nat
  BY <1>3, Places
<1>5. ASSUME NEW e \in Entries, ptr[e] = Variable(k) PROVE e = OwnEntry(k)
  <2>1. PICK j \in DOMAIN Located : e = OwnEntry(j) /\ Variable(j) = Variable(k)
    BY <1>4, <1>5 DEF MapInv, Owned
  <2>2. j = k
    <3>1. j \in 1..Len(Located) /\ Variable(j) - Variable(k) = 8 * (j - k) /\ Variable(j) \in Nat
      BY <1>3, Dimensions, Places
    <3> QED BY <2>1, <3>1, <1>3, <1>4
  <2> QED BY <2>1, <2>2
<1>6. \A a, i : Ptr(a, i) = Variable(k) => Entry(a, i) = OwnEntry(k)
  BY <1>4, <1>5 DEF Ptr, WILD
<1>7. p # N \/ layout["int_output"] + N = layout["int_memory"]
  <2> SUFFICES ASSUME p = N PROVE layout["int_output"] + N = layout["int_memory"]
    OBVIOUS
  <2>1. RegisterPtr(p) = Ptr("int_output", N)
    BY <1>3 DEF RegisterPtr
  <2>2. Entry("int_output", N) = OwnEntry(k)
    BY <1>2, <1>6, <2>1
  <2> QED BY <1>3, <2>2 DEF Neighbour, OwnEntry, Entry
<1>8. PICK a \in Arrays \ BitArrays, i \in 0..(N - 1) : Serves(a, i, p) /\ RegisterPtr(p) = Ptr(a, i)
  BY <1>1, <1>3, <1>7, ServingCell
<1> QED BY <1>2, <1>6, <1>7, <1>8

\* Words of variables that are eight bytes apart, or at the same place.
LEMMA Distances ==
  \A x, y \in Int, u, w \in {0, 2, 4, 6} :
    /\ x = y => (x + u) - (y + w) = u - w
    /\ x - y >= 8 \/ x - y <= -8 => (x + u) - (y + w) \notin (-1)..1
  OBVIOUS

\* Words of a variable that is followed by eight bytes.
LEMMA Within ==
  \A x \in Nat \ {0}, z \in Nat, u \in {0, 2, 4, 6} :
    z >= x => x + u \in 1..(z + 8) /\ x + u + 1 \in 1..(z + 8)
  OBVIOUS

\* The words of different registers do not overlap.
Word(p) == RegisterPtr(p) + LowByte(p)

LEMMA WordsApart ==
  ASSUME Inside, Neighbour, MapInv, NEW p \in LocatedRegisters, NEW q \in LocatedRegisters, p # q
  PROVE  Word(p) - Word(q) \notin (-1)..1
<1>1. p \in 0..(8 * N - 1) /\ q \in 0..(8 * N - 1) /\ N \in Nat
  BY Dimensions DEF LocatedRegisters
<1>2. PICK k \in DOMAIN Located, a \in Arrays \ BitArrays, i \in 0..(N - 1) :
        RegisterPtr(p) = Variable(k) /\ Serves(a, i, p) /\ Entry(a, i) = OwnEntry(k)
  BY VariableOfRegister
<1>3. PICK j \in DOMAIN Located, b \in Arrays \ BitArrays, n \in 0..(N - 1) :
        RegisterPtr(q) = Variable(j) /\ Serves(b, n, q) /\ Entry(b, n) = OwnEntry(j)
  BY VariableOfRegister
<1>4. LowByte(p) \in {0, 2, 4, 6} /\ LowByte(q) \in {0, 2, 4, 6}
  BY <1>1, LowBytes
<1>5. /\ j \in 1..Len(Located) /\ k \in 1..Len(Located)
      /\ Variable(k) - Variable(j) = 8 * (k - j) /\ Variable(j) \in Nat /\ Variable(k) \in Nat
  BY Dimensions, Places
<1>8. Word(p) = Variable(k) + LowByte(p) /\ Word(q) = Variable(j) + LowByte(q)
  BY <1>2, <1>3 DEF Word
<1>6. CASE k = j
  <2>1. a = b /\ i = n
    <3>1. layout \in Layouts /\ Entry(a, i) = Entry(b, n)
      BY <1>2, <1>3, <1>6 DEF MapInv, Shape
    <3>2. Length(a) = N /\ Length(b) = N
      BY DEF Length
    <3>3. layout[a] + i = layout[b] + n
      BY <3>1 DEF Entry
    <3>4. a \in Arrays /\ b \in Arrays /\ i \in 0..(Length(a) - 1) /\ n \in 0..(Length(b) - 1)
      BY <3>2
    <3> QED BY <3>1, <3>3, <3>4, MapAssumption
  <2>2. LowByte(p) - LowByte(q) \notin (-1)..1
    BY <1>1, <1>2, <1>3, <2>1, WordsOfCell
  <2>3. Word(p) - Word(q) = LowByte(p) - LowByte(q)
    <3>1. Variable(k) = Variable(j) /\ Variable(k) \in Int
      BY <1>5, <1>6
    <3> QED BY <1>8, <1>4, <3>1, Distances
  <2> QED BY <2>2, <2>3
<1>7. CASE k # j
  <2>1. Variable(k) - Variable(j) >= 8 \/ Variable(k) - Variable(j) <= -8
    BY <1>5, <1>7
  <2>2. Variable(k) \in Int /\ Variable(j) \in Int
    BY <1>5
  <2> QED BY <1>8, <1>4, <2>1, <2>2, Distances
<1> QED BY <1>6, <1>7

\* A word of a variable has its two bytes.
LEMMA WordInMemory ==
  ASSUME Inside, Neighbour, MapInv, NEW p \in LocatedRegisters
  PROVE  /\ RegisterPtr(p) # NULL /\ Word(p) \in Addresses /\ Word(p) + 1 \in Addresses
         /\ ReadRegister(p) = <<mem[Word(p) + 1], mem[Word(p)]>>
<1>1. PICK k \in DOMAIN Located : RegisterPtr(p) = Variable(k)
  BY DEF LocatedRegisters
<1>2. PICK z \in Nat : /\ Addresses = 1..(z + 8)
                      /\ \A j \in DOMAIN Located : Variable(j) \in Nat \ {0} /\ Variable(j) <= z
  BY LastPlace
<1>3. Variable(k) \in Nat \ {0} /\ z >= Variable(k)
  BY <1>2
<1>4. LowByte(p) \in {0, 2, 4, 6}
  BY LowBytes, Dimensions DEF LocatedRegisters
<1>5. Word(p) \in Addresses /\ Word(p) + 1 \in Addresses
  BY <1>1, <1>2, <1>3, <1>4, Within DEF Word
<1> QED BY <1>1, <1>3, <1>5 DEF ReadRegister, Word, NULL

LEMMA SameRegisters ==
  ASSUME UNCHANGED <<layout, ptr>>
  PROVE  \A p : RegisterPtr(p)' = RegisterPtr(p)
  BY DEF RegisterPtr, Ptr, Entry

\* What is read of a word after a step that moves no pointer.
LEMMA ReadAfter ==
  ASSUME Inside, Neighbour, MapInv, UNCHANGED <<layout, ptr>>, NEW p \in LocatedRegisters
  PROVE  ReadRegister(p)' = <<mem'[Word(p) + 1], mem'[Word(p)]>>
<1>1. RegisterPtr(p)' = RegisterPtr(p) /\ RegisterPtr(p) # NULL
  BY SameRegisters, WordInMemory
<1> QED BY <1>1 DEF ReadRegister, Word, LowByte

\* A word put on a register of a variable.
LEMMA WordPut ==
  ASSUME Inside, Neighbour, MapInv, NEW p \in LocatedRegisters, NEW u \in Int, NEW v \in Int,
         UNCHANGED <<layout, ptr>>, mem' = PutWord(mem, Word(p), <<u, v>>)
  PROVE  /\ ReadRegister(p)' = <<u, v>>
         /\ \A q \in LocatedRegisters \ {p} : ReadRegister(q)' = ReadRegister(q)
<1>1. Word(p) \in Addresses /\ Word(p) + 1 \in Addresses /\ DOMAIN mem = Addresses
  BY WordInMemory DEF MapInv, Shape, Memory
<1>2. Word(p) \in Int
  BY <1>1, Places DEF Addresses
<1>3. PICK x \in Int : x = Word(p)
  BY <1>2
<1>4. /\ mem'[x + 1] = u /\ mem'[x] = v
      /\ \A y \in Addresses : y # x /\ y # x + 1 => mem'[y] = mem[y]
  <2>1. <<u, v>>[1] = u /\ <<u, v>>[2] = v
    OBVIOUS
  <2>2. mem' = [mem EXCEPT ![x + 1] = u, ![x] = v]
    BY <1>3, <2>1 DEF PutWord
  <2>3. x + 1 # x
    BY <1>3
  <2> QED BY <1>1, <1>3, <2>2, <2>3
<1>5. ReadRegister(p)' = <<u, v>>
  BY <1>3, <1>4, ReadAfter
<1>6. ASSUME NEW q \in LocatedRegisters \ {p} PROVE ReadRegister(q)' = ReadRegister(q)
  <2>1. Word(q) \in Addresses /\ Word(q) + 1 \in Addresses
    BY WordInMemory
  <2>2. Word(q) \in Int
    BY <2>1 DEF Addresses
  <2>3. Word(q) - x \notin (-1)..1
    BY <1>3, WordsApart
  <2>4. Word(q) # x /\ Word(q) # x + 1 /\ Word(q) + 1 # x /\ Word(q) + 1 # x + 1
    BY <1>3, <2>2, <2>3
  <2>5. mem'[Word(q)] = mem[Word(q)] /\ mem'[Word(q) + 1] = mem[Word(q) + 1]
    BY <1>4, <2>1, <2>4
  <2>6. ReadRegister(q) = <<mem[Word(q) + 1], mem[Word(q)]>>
    BY WordInMemory
  <2>7. ReadRegister(q)' = <<mem'[Word(q) + 1], mem'[Word(q)]>>
    BY ReadAfter
  <2> QED BY <2>5, <2>6, <2>7
<1> QED BY <1>5, <1>6

LEMMA ExactStep ==
  ASSUME Inside, Neighbour, MapInv, NEW p \in LocatedRegisters, WriteRegister, last'.start = p
  PROVE  /\ ReadRegister(p)' = RequestWord(1, last'.count)
         /\ \A q \in LocatedRegisters \ {p} : ReadRegister(q)' = ReadRegister(q)
<1>1. PICK r \in 0..(8 * N), v \in {1, 2} :
        /\ last' = Asked("WriteRegister", r, v, IF ValidRegister(r) THEN "ok" ELSE "exception")
        /\ mem' = IF ValidRegister(r) THEN StoreRegister(mem, r, RequestWord(1, v)) ELSE mem
  BY DEF WriteRegister
<1>2. r = p /\ last'.count = v
  BY <1>1 DEF Asked
<1>3. ValidRegister(p)
  <2>1. p \in 0..(8 * N - 1) /\ N \in Nat
    BY Dimensions DEF LocatedRegisters
  <2> QED BY <2>1 DEF ValidRegister
<1>4. mem' = PutWord(mem, Word(p), <<1, v>>)
  BY <1>1, <1>2, <1>3, WordInMemory DEF StoreRegister, Word, RequestWord
<1>5. UNCHANGED <<layout, ptr>> /\ v \in Int /\ 1 \in Int
  BY DEF WriteRegister, Serving
<1> QED BY <1>2, <1>4, <1>5, WordPut DEF RequestWord

\* A write to a register of a located variable reads back and changes no other
\* one: a cell serves one word of 16 bits, two of 32 or four of 64, which do not
\* overlap, and two variables have two cells.
THEOREM MapWriteIsExact ==
  ASSUME Inside, Neighbour
  PROVE  Spec => WriteIsExact
<1> DEFINE A == \A p \in LocatedRegisters :
                  Attached /\ Did("WriteRegister") /\ last'.start = p
                    => /\ ReadRegister(p)' = RequestWord(1, last'.count)
                       /\ \A q \in LocatedRegisters \ {p} : ReadRegister(q)' = ReadRegister(q)
<1>1. MapInv /\ [Next]_vars => [A]_vars
  <2> SUFFICES ASSUME MapInv, [Next]_vars PROVE A
    OBVIOUS
  <2> QED BY DidIt, ExactStep
<1> QED BY <1>1, MapInduction, PTL DEF Spec, WriteIsExact

-----------------------------------------------------------------------------
(* Coils. *)

LEMMA WholeBytes ==
  ASSUME NEW n \in Nat
  PROVE  Rounded(n) \in Nat /\ Rounded(n) >= n
<1>1. PICK r \in Nat \ {0} : r = Row
  BY MapAssumption
<1>2. PICK x \in Nat : x = n + r - 1
  BY <1>1
<1>3. x \div r \in Nat /\ r * (x \div r) + r > x
  BY <1>1
<1>4. PICK y \in Nat : y = r * (x \div r)
  BY <1>1, <1>3
<1> QED BY <1>1, <1>2, <1>3, <1>4 DEF Rounded

\* A coil within the range has an entry, and the entry a byte, once the thread
\* has mapped the spare cells.
LEMMA CoilInMemory ==
  ASSUME MapInv, mapped # {}, NEW q \in 0..(MaxBits - 1)
  PROVE  Ptr("bool_output", q) # NULL /\ Ptr("bool_output", q) \in Addresses
<1>1. /\ "bool_output" \in SpareArrays /\ SpareCount("bool_output") = MaxBits
      /\ Length("bool_output") = N * Row /\ "bool_output" \in Arrays
  BY DEF SpareArrays, SpareCount, Length, Arrays, BitArrays
<1>2. q \in 0..(N * Row - 1)
  BY Dimensions
<1>3. Entry("bool_output", q) \in Entries
  <2>1. layout \in Layouts
    BY DEF MapInv, Shape
  <2> QED BY <1>1, <1>2, <2>1, MapAssumption DEF Entry
<1>4. PICK e \in Entries : e = Entry("bool_output", q) /\ Ptr("bool_output", q) = ptr[e]
  BY <1>3 DEF Ptr
<1>5. ptr[e] # NULL
  BY <1>1, <1>4 DEF MapInv, Spare, Given
<1>6. PICK z \in Nat : /\ Addresses = 1..(z + 8) /\ z >= Variable(1)
                      /\ \A k \in DOMAIN Located : Variable(k) \in Nat \ {0} /\ Variable(k) <= z
  BY LastPlace
<1>7. ptr[e] \in Addresses
  <2>1. CASE ptr[e] \in 0..(Variable(1) - 1)
    BY <1>5, <1>6, <2>1, Places DEF NULL
  <2>2. CASE \E k \in DOMAIN Located : ptr[e] = Variable(k)
    BY <1>6, <2>2
  <2> QED BY <2>1, <2>2 DEF MapInv, Owned
<1> QED BY <1>4, <1>5, <1>7

LEMMA CoilsStep ==
  ASSUME MapInv, WriteMultipleCoils, last'.reply = "ok",
         NEW q \in last'.start..(last'.start + last'.count - 1)
  PROVE  q < MaxBits /\ mem'[Ptr("bool_output", q)] = 1
<1> DEFINE Hit(p, n) == {c \in CoilRange(p, n) : c < MaxBits /\ Ptr("bool_output", c) # NULL}
<1>1. PICK p \in 0..MaxBits, n \in 1..MaxCount :
        /\ mem' = [a \in Addresses |->
             IF \E c \in Hit(p, n) : Ptr("bool_output", c) = a
               THEN (IF \E c \in Hit(p, n) : Ptr("bool_output", c) = a /\ c < p + n THEN 1 ELSE 0)
               ELSE mem[a]]
        /\ last' = Asked("WriteMultipleCoils", p, n,
                         IF CoilRange(p, n) \subseteq 0..(MaxBits - 1) THEN "ok" ELSE "exception")
  BY DEF WriteMultipleCoils
<1>2. last'.start = p /\ last'.count = n /\ CoilRange(p, n) \subseteq 0..(MaxBits - 1)
  BY <1>1 DEF Asked
<1>3. n \in Nat /\ p \in Nat /\ MaxBits \in Nat
  BY MapAssumption, Dimensions
<1>4. q \in CoilRange(p, n) /\ q < p + n
  <2>1. PICK x \in Nat : x = Rounded(n) /\ x >= n
    BY <1>3, WholeBytes
  <2> QED BY <1>2, <1>3, <2>1 DEF CoilRange
<1>5. q \in 0..(MaxBits - 1) /\ q < MaxBits
  BY <1>2, <1>3, <1>4
<1>6. mapped # {}
  BY DEF WriteMultipleCoils, Serving
<1>7. Ptr("bool_output", q) # NULL /\ Ptr("bool_output", q) \in Addresses
  BY <1>5, <1>6, CoilInMemory
<1>8. q \in Hit(p, n)
  BY <1>4, <1>5, <1>7
<1> QED BY <1>1, <1>4, <1>5, <1>7, <1>8

\* A request for several coils that is answered has set all of them: its range
\* is rounded up, and every coil inside MAX_COILS has an entry when it is served.
THEOREM MapCoilsServed ==
  ASSUME Inside
  PROVE  Spec => CoilsServed
<1> DEFINE A == Did("WriteMultipleCoils") /\ last'.reply = "ok"
                  => \A q \in last'.start..(last'.start + last'.count - 1) :
                       q < MaxBits /\ mem'[Ptr("bool_output", q)] = 1
<1>1. MapInv /\ [Next]_vars => [A]_vars
  <2> SUFFICES ASSUME MapInv, [Next]_vars PROVE A
    OBVIOUS
  <2> QED BY DidIt, CoilsStep
<1> QED BY <1>1, MapInduction, PTL DEF Spec, CoilsServed

-----------------------------------------------------------------------------
(* The two masters. *)

\* The three ways to a 16-bit register lead to the same entry.
LEMMA SameEntry ==
  ASSUME Inside, Neighbour, MapInv, NEW p \in LocatedRegisters \cap 0..(2 * N - 2)
  PROVE  AnalogPtr(p) = Word(p) /\ OutputPtr(p) = Word(p) /\ Word(p) \notin {NULL, WILD}
<1>1. N \in Nat \ {0} /\ p \in 0..(2 * N - 2)
  BY Dimensions
<1>2. RegisterPtr(p) \in Nat \ {0}
  <2>1. PICK k \in DOMAIN Located : RegisterPtr(p) = Variable(k)
    BY DEF LocatedRegisters
  <2> QED BY <2>1, LastPlace
<1>3. LowByte(p) = 0 /\ Word(p) = RegisterPtr(p)
  <2>1. LowByte(p) = 0
    BY <1>1 DEF LowByte
  <2> QED BY <1>2, <2>1 DEF Word
<1>4. CASE p < N
  <2>1. RegisterPtr(p) = Ptr("int_output", p) /\ OutputPtr(p) = Ptr("int_output", p)
    BY <1>1, <1>4 DEF RegisterPtr, OutputPtr
  <2> QED BY <1>2, <1>3, <1>4, <2>1 DEF AnalogPtr, NULL, WILD
<1>5. CASE p >= N
  <2>1. AnalogPtr(p) = Ptr("int_memory", p - N) /\ OutputPtr(p) = Ptr("int_memory", p - N)
    BY <1>1, <1>5 DEF AnalogPtr, OutputPtr
  <2>2. RegisterPtr(p) = Ptr("int_memory", p - N)
    <3>1. CASE p > N
      BY <1>1, <3>1 DEF RegisterPtr
    <3>2. CASE p = N
      <4>1. layout["int_output"] + N = layout["int_memory"]
        BY <3>2, VariableOfRegister
      <4>2. layout["int_memory"] \in Nat
        <5>1. layout \in [Arrays -> Nat] /\ "int_memory" \in Arrays
          BY MapAssumption DEF MapInv, Shape, Arrays
        <5> QED BY <5>1
      <4>3. Entry("int_output", N) = Entry("int_memory", 0)
        BY <4>1, <4>2 DEF Entry
      <4>4. RegisterPtr(p) = Ptr("int_output", N) /\ p - N = 0
        BY <1>1, <3>2 DEF RegisterPtr
      <4> QED BY <4>3, <4>4 DEF Ptr
    <3> QED BY <1>1, <1>5, <3>1, <3>2
  <2> QED BY <1>2, <1>3, <2>1, <2>2 DEF NULL, WILD
<1> QED BY <1>1, <1>4, <1>5

LEMMA AnalogStep ==
  ASSUME Inside, Neighbour, MapInv, NEW p \in LocatedRegisters \cap 0..(2 * N - 2),
         OperateAnalog16, last'.start = p
  PROVE  ReadRegister(p)' = RequestWord(1, last'.count)
<1>1. PICK r \in 0..(2 * N - 1), v \in {1, 2} :
        /\ mem' = IF AnalogPtr(r) # NULL THEN PutWord(mem, AnalogPtr(r), RequestWord(1, v)) ELSE mem
        /\ last' = Asked("OperateAnalog16", r, v, "ok")
  BY DEF OperateAnalog16
<1>2. r = p /\ last'.count = v
  BY <1>1 DEF Asked
<1>3. mem' = PutWord(mem, Word(p), <<1, v>>)
  BY <1>1, <1>2, SameEntry DEF RequestWord
<1>4. UNCHANGED <<layout, ptr>> /\ v \in Int /\ 1 \in Int /\ p \in LocatedRegisters
  BY DEF OperateAnalog16, Serving
<1> QED BY <1>2, <1>3, <1>4, WordPut DEF RequestWord

LEMMA PollStep ==
  ASSUME Inside, Neighbour, MapInv, NEW p \in LocatedRegisters \cap 0..(2 * N - 2),
         update_vals, crashed' = "no"
  PROVE  db'[<<"AO", p>>] = ReadRegister(p)[2]
<1>1. db' = [d \in DOMAIN db |->
               IF PointPtr(d) \in {NULL, WILD} THEN db[d] ELSE mem[PointPtr(d)]]
  BY DEF update_vals
<1>2. <<"AO", p>> \in DOMAIN db
  <2>1. p \in 0..(8 * N - 1)
    BY DEF LocatedRegisters
  <2> QED BY <2>1 DEF MapInv, Shape, Points
<1>3. PointPtr(<<"AO", p>>) = Word(p) /\ Word(p) \notin {NULL, WILD}
  BY SameEntry DEF PointPtr
<1>4. ReadRegister(p)[2] = mem[Word(p)]
  BY WordInMemory
<1> QED BY <1>1, <1>2, <1>3, <1>4

\* A DNP3 analog output and the Modbus register of its number are the same 16-bit
\* variable, for every program and layout with Inside and Neighbour.
THEOREM MapMastersAgree ==
  ASSUME Inside, Neighbour
  PROVE  Spec => MastersAgree
<1> DEFINE A == \A p \in LocatedRegisters \cap 0..(2 * N - 2) : Attached =>
       /\ Did("OperateAnalog16") /\ last'.start = p => ReadRegister(p)' = RequestWord(1, last'.count)
       /\ Did("update_vals") /\ crashed' = "no" => db'[<<"AO", p>>] = ReadRegister(p)[2]
<1>1. MapInv /\ [Next]_vars => [A]_vars
  <2> SUFFICES ASSUME MapInv, [Next]_vars PROVE A
    OBVIOUS
  <2> QED BY DidIt, AnalogStep, PollStep
<1> QED BY <1>1, MapInduction, PTL DEF Spec, MastersAgree

-----------------------------------------------------------------------------
(* Several registers. *)

\* A round of the loop, where one rule serves all registers, is WriteRegister().
LEMMA RoundIsWrite ==
  ASSUME NEW start \in Nat, NEW count \in Nat, OneRule(start, count),
         NEW i \in 1..count, NEW m, NEW w
  PROVE  /\ ValidRegister(start + i - 1)
         /\ StoreOneOfMany(m, start, count, start + i - 1, w) = StoreRegister(m, start + i - 1, w)
<1>1. PICK q \in Nat : q = start + i - 1 /\ q \in start..(start + count - 1)
  OBVIOUS
<1> SUFFICES ValidRegister(q) /\ StoreOneOfMany(m, start, count, q, w) = StoreRegister(m, q, w)
  BY <1>1
<1>2. N \in Nat \ {0}
  BY Dimensions
<1>3. CASE start..(start + count - 1) \subseteq 0..(2 * N - 1)
  <2>1. q \in 0..(2 * N - 1)
    BY <1>1, <1>3
  <2>2. q < 2 * N /\ q < 8 * N /\ ~(q >= 2 * N) /\ ~(q >= 4 * N)
    BY <1>2, <2>1
  <2> QED BY <2>2 DEF ValidRegister, StoreOneOfMany
<1>4. CASE /\ start..(start + count - 1) \subseteq (2 * N)..(4 * N - 1)
           /\ \A r, s \in start..(start + count - 1) : RegisterPtr(r) = NULL <=> RegisterPtr(s) = NULL
  <2>1. q >= 2 * N /\ q < 4 * N /\ q < 8 * N /\ ~(q < 2 * N) /\ ~(q >= 4 * N)
    BY <1>1, <1>2, <1>4
  <2>2. start >= 2 * N /\ start < 4 * N /\ start \in start..(start + count - 1)
    BY <1>1, <1>2, <1>4
  <2>3. Tested(start) = RegisterPtr(start)
    BY <1>2, <2>2 DEF Tested, Quotient, RegisterPtr
  <2>4. Tested(start) = NULL <=> RegisterPtr(q) = NULL
    BY <1>1, <1>4, <2>2, <2>3
  <2>5. StoreOneOfMany(m, start, count, q, w) =
          IF Tested(start) = NULL THEN PutWord(m, mb_holding_regs(q), w)
          ELSE PutWord(m, RegisterPtr(q) + LowByte(q), w)
    BY <2>1 DEF StoreOneOfMany
  <2>6. StoreRegister(m, q, w) =
          IF RegisterPtr(q) # NULL THEN PutWord(m, RegisterPtr(q) + LowByte(q), w)
          ELSE PutWord(m, mb_holding_regs(q), w)
    BY <2>1 DEF StoreRegister
  <2> QED BY <2>1, <2>4, <2>5, <2>6 DEF ValidRegister
<1>5. CASE count = 1 /\ start \in (4 * N)..(8 * N - 1) /\ RegisterPtr(start) # NULL
  <2>1. q = start /\ q >= 4 * N /\ q < 8 * N /\ ~(q < 2 * N) /\ ~(q < 4 * N)
    BY <1>1, <1>2, <1>5
  <2>2. q % 4 \in 0..3 /\ (q - 4 * N) % 4 = q % 4
    BY <1>2, <2>1
  <2>3. Remainder(start - 4 * N, 4) = q % 4
    BY <1>2, <2>1, <2>2 DEF Remainder, Quotient
  <2>4. LowByte(q) = 2 * (3 - (q % 4))
    BY <1>2, <2>1 DEF LowByte
  <2>5. PICK c \in 0..3 : c = q % 4
    BY <2>2
  <2>6. (IF c = 0 THEN 0 ELSE c) = c /\ (c = 0 \/ c \in 1..3)
    BY <2>5
  <2>7. StoreOneOfMany(m, start, count, q, w) = PutWord(m, RegisterPtr(q) + 2 * (3 - c), w)
    BY <1>5, <2>1, <2>3, <2>5, <2>6 DEF StoreOneOfMany
  <2>8. StoreRegister(m, q, w) = PutWord(m, RegisterPtr(q) + 2 * (3 - c), w)
    BY <1>5, <2>1, <2>4, <2>5 DEF StoreRegister
  <2> QED BY <2>1, <2>7, <2>8 DEF ValidRegister
<1> QED BY <1>3, <1>4, <1>5 DEF OneRule

\* The loop through valid registers, one at a time.
Single(after, m, start, count, v) ==
  after = [i \in 0..count |-> IF i = 0 \/ ~ValidRegister(start + i - 1)
             THEN (IF i = 0 THEN m ELSE after[i - 1])
             ELSE StoreRegister(after[i - 1], start + i - 1, RequestWord(i, v))]

LEMMA ManyIsSingly ==
  ASSUME NEW m \in Memory, NEW start \in Nat, NEW count \in Nat, NEW v \in Int,
         OneRule(start, count)
  PROVE  StoreMany(m, start, count, v) = StoreSingly(m, start, count, v)
<1>1. PICK many \in [0..count -> Memory] :
        Many(many, m, start, count, v) /\ StoreMany(m, start, count, v) = many[count]
  BY ManyExists
<1>2. DOMAIN many = 0..count /\ \A i \in 0..count : many[i] =
        IF i = 0 THEN m
        ELSE StoreOneOfMany(many[i - 1], start, count, start + i - 1, RequestWord(i, v))
  BY <1>1 DEF Many
<1>3. \A i \in 0..count : i # 0 =>
        /\ ValidRegister(start + i - 1)
        /\ many[i] = StoreRegister(many[i - 1], start + i - 1, RequestWord(i, v))
  <2> SUFFICES ASSUME NEW i \in 0..count, i # 0
               PROVE  /\ ValidRegister(start + i - 1)
                      /\ many[i] = StoreRegister(many[i - 1], start + i - 1, RequestWord(i, v))
    OBVIOUS
  <2>1. i \in 1..count
    OBVIOUS
  <2> QED BY <1>2, <2>1, RoundIsWrite
<1>4. Single(many, m, start, count, v)
  BY <1>2, <1>3 DEF Single
<1> DEFINE one == CHOOSE after : Single(after, m, start, count, v)
<1>5. Single(one, m, start, count, v)
  BY <1>4
<1>6. StoreSingly(m, start, count, v) = one[count]
  BY DEF StoreSingly, Single
<1> HIDE DEF one
<1>7. \A i \in 0..count : one[i] = IF i = 0 THEN m
        ELSE StoreRegister(one[i - 1], start + i - 1, RequestWord(i, v))
  BY <1>3, <1>5 DEF Single
<1> DEFINE T == {n \in Nat : n \in 0..count => one[n] = many[n]}
<1>8. 0 \in T
  BY <1>2, <1>7
<1>9. ASSUME NEW n \in Nat, n \in T PROVE n + 1 \in T
  <2> SUFFICES ASSUME n + 1 \in 0..count PROVE one[n + 1] = many[n + 1]
    OBVIOUS
  <2>1. n \in 0..count /\ n + 1 # 0 /\ (n + 1) - 1 = n
    OBVIOUS
  <2> QED BY <1>3, <1>7, <1>9, <2>1
<1> HIDE DEF T
<1>10. Nat \subseteq T
  BY <1>8, <1>9, SetInduction
<1>11. one[count] = many[count]
  BY <1>10 DEF T
<1> QED BY <1>1, <1>6, <1>11

\* What is tested is what is written through, where one rule serves.
LEMMA OneRuleIsSafe ==
  ASSUME NEW start \in Nat, NEW count \in Nat, OneRule(start, count)
  PROVE  ~StoreManyCrashes(start, count)
<1> SUFFICES ASSUME NEW q \in start..(start + count - 1), q \in (2 * N)..(4 * N - 1),
                    Tested(start) # NULL, RegisterPtr(q) = NULL
             PROVE  FALSE
  BY DEF StoreManyCrashes
<1>1. N \in Nat \ {0}
  BY Dimensions
<1>2. /\ start..(start + count - 1) \subseteq (2 * N)..(4 * N - 1)
      /\ \A r, s \in start..(start + count - 1) : RegisterPtr(r) = NULL <=> RegisterPtr(s) = NULL
  <2>1. ~(start..(start + count - 1) \subseteq 0..(2 * N - 1))
    BY <1>1
  <2>2. ~(count = 1 /\ start \in (4 * N)..(8 * N - 1))
    BY <1>1
  <2> QED BY <2>1, <2>2 DEF OneRule
<1>3. start \in start..(start + count - 1) /\ start >= 2 * N /\ start < 4 * N
  BY <1>1, <1>2
<1>4. Tested(start) = RegisterPtr(start)
  BY <1>1, <1>3 DEF Tested, Quotient, RegisterPtr
<1> QED BY <1>2, <1>3, <1>4

LEMMA ManyStep ==
  ASSUME MapInv, WriteMultipleRegisters, OneRule(last'.start, last'.count)
  PROVE  crashed' = "no" /\ mem' = StoreSingly(mem, last'.start, last'.count, 1)
<1>1. PICK p \in 0..(8 * N), n \in 1..MaxCount :
        /\ last'.start = p /\ last'.count = n
        /\ ~StoreManyCrashes(p, n) => mem' = StoreMany(mem, p, n, 1) /\ UNCHANGED crashed
  BY DEF WriteMultipleRegisters, Asked
<1>2. p \in Nat /\ n \in Nat /\ mem \in Memory /\ 1 \in Int
  BY MapAssumption DEF MapInv, Shape
<1>3. mem' = StoreMany(mem, p, n, 1) /\ UNCHANGED crashed
  BY <1>1, <1>2, OneRuleIsSafe
<1>4. StoreMany(mem, p, n, 1) = StoreSingly(mem, p, n, 1)
  BY <1>1, <1>2, ManyIsSingly
<1> QED BY <1>1, <1>3, <1>4 DEF WriteMultipleRegisters, Serving

\* A request for several registers that one rule serves does what the requests
\* for them one at a time would do, and never writes through NULL, however long
\* it is and wherever it starts.
THEOREM MapMultipleIsSingles ==
  ASSUME Inside
  PROVE  Spec => MultipleIsSingles
<1> DEFINE A == Did("WriteMultipleRegisters") /\ OneRule(last'.start, last'.count)
                  => crashed' = "no" /\ mem' = StoreSingly(mem, last'.start, last'.count, 1)
<1>1. MapInv /\ [Next]_vars => [A]_vars
  <2> SUFFICES ASSUME MapInv, [Next]_vars PROVE A
    OBVIOUS
  <2> QED BY DidIt, ManyStep
<1> QED BY <1>1, MapInduction, PTL DEF Spec, MultipleIsSingles
=============================================================================
