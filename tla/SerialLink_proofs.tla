------------------------- MODULE SerialLink_proofs --------------------------
(***************************************************************************)
(* The serial link for data of any size and any bytes: what sendPacket()   *)
(* codes parseBuffer() decodes; what the board gets are the outputs of one *)
(* scan; and, as long as no read() cuts a frame, the inputs of the program *)
(* are those of one frame of the board and never go back.                  *)
(***************************************************************************)
EXTENDS SerialLink, Induction

-----------------------------------------------------------------------------
(* What sendPacket() writes. *)

\* A byte takes one place or, escaped, two.
Places(b) == IF b \in Special THEN 2 ELSE 1

\* The byte b stands in s behind place i.
Stands(s, i, b) ==
  IF b \in Special THEN s[i + 1] = Escape /\ s[i + 2] = b ELSE s[i + 1] = b

LEMMA EscapedPlaces ==
  ASSUME NEW b \in Nat
  PROVE  Escaped(b) \in Seq(Nat) /\ Len(Escaped(b)) = Places(b) /\ Stands(Escaped(b), 0, b)
BY DEF Escaped, Places, Stands, Special, S, E, Escape

\* Appending moves nothing.
LEMMA Appended ==
  ASSUME NEW s \in Seq(Nat), NEW t \in Seq(Nat)
  PROVE  /\ s \o t \in Seq(Nat) /\ Len(s \o t) = Len(s) + Len(t)
         /\ \A i \in 1..Len(s) : (s \o t)[i] = s[i]
         /\ \A i \in 1..Len(t) : (s \o t)[Len(s) + i] = t[i]
OBVIOUS

LEMMA StandsAfter ==
  ASSUME NEW s, NEW t, NEW n \in Nat, NEW b \in Nat,
         \A j \in 1..Places(b) : t[n + j] = s[j], Stands(s, 0, b)
  PROVE  Stands(t, n, b)
BY DEF Stands, Places

\* The bytes done after each turn of the loop.
Turns(done, data) ==
  done = [i \in 0..Len(data) |-> IF i = 0 THEN << >> ELSE done[i - 1] \o Escaped(data[i])]

LEMMA TurnsExist ==
  ASSUME NEW data \in Seq(Nat)
  PROVE  \E done \in [0..Len(data) -> Seq(Nat)] : Turns(done, data) /\ Body(data) = done[Len(data)]
<1> DEFINE F == [i \in 1..Len(data) |-> [u \in Seq(Nat) |-> u \o Escaped(data[i])]]
           done == CHOOSE done : Turns(done, data)
<1>1. \A i \in 1..Len(data), u \in Seq(Nat) : u \o Escaped(data[i]) \in Seq(Nat)
  <2> SUFFICES ASSUME NEW i \in 1..Len(data), NEW u \in Seq(Nat)
               PROVE  u \o Escaped(data[i]) \in Seq(Nat)
    OBVIOUS
  <2>1. data[i] \in Nat
    OBVIOUS
  <2> QED BY <2>1, EscapedPlaces, Appended
<1>2. /\ F \in [1..Len(data) -> [Seq(Nat) -> Seq(Nat)]]
      /\ \A i \in 1..Len(data), u \in Seq(Nat) : F[i][u] = u \o Escaped(data[i])
  BY <1>1
<1>3. << >> \in Seq(Nat) /\ Len(data) \in Nat
  OBVIOUS
<1> HIDE DEF F
<1>4. PICK g \in [0..Len(data) -> Seq(Nat)] : Iterates(g, << >>, F, Len(data))
  BY <1>2, <1>3, Recursion
<1>5. \A i \in 0..Len(data) : i # 0 => g[i] = g[i - 1] \o Escaped(data[i])
  <2> SUFFICES ASSUME NEW i \in 0..Len(data), i # 0
               PROVE  g[i] = g[i - 1] \o Escaped(data[i])
    OBVIOUS
  <2>1. i \in 1..Len(data) /\ i - 1 \in 0..Len(data) /\ DOMAIN F = 1..Len(data)
    BY <1>2
  <2>2. g[i - 1] \in Seq(Nat)
    BY <2>1
  <2> QED BY <1>2, <1>4, <2>1, <2>2 DEF Iterates
<1>6. Turns(g, data)
  BY <1>4, <1>5 DEF Turns, Iterates
<1>7. Turns(done, data)
  BY <1>6
<1>8. Body(data) = done[Len(data)]
  BY DEF Body, Turns
<1> HIDE DEF done
<1>9. DOMAIN done = 0..Len(data) /\ \A i \in 0..Len(data) :
        done[i] = IF i = 0 THEN << >> ELSE done[i - 1] \o Escaped(data[i])
  BY <1>7 DEF Turns
<1> DEFINE T == {n \in Nat : n \in 0..Len(data) => done[n] \in Seq(Nat)}
<1>10. 0 \in T
  BY <1>3, <1>9
<1>11. ASSUME NEW n \in Nat, n \in T PROVE n + 1 \in T
  <2> SUFFICES ASSUME n + 1 \in 0..Len(data) PROVE done[n + 1] \in Seq(Nat)
    OBVIOUS
  <2>1. n \in 0..Len(data) /\ n + 1 \in 1..Len(data) /\ (n + 1) - 1 = n /\ n + 1 # 0
    BY <1>3
  <2>2. done[n + 1] = done[n] \o Escaped(data[n + 1])
    BY <1>9, <2>1
  <2> QED BY <1>1, <1>11, <2>1, <2>2
<1> HIDE DEF T
<1>12. Nat \subseteq T
  BY <1>10, <1>11, SetInduction
<1>13. done \in [0..Len(data) -> Seq(Nat)]
  <2>1. \A n \in 0..Len(data) : done[n] \in Seq(Nat)
    BY <1>3, <1>12 DEF T
  <2>2. done = [i \in 0..Len(data) |-> done[i]]
    BY <1>7 DEF Turns
  <2> QED BY <2>1, <2>2
<1> QED BY <1>7, <1>8, <1>13

\* The first n bytes of data stand in s; the k-th ends at place at[k].
Codes(s, data, at, n) ==
  /\ s \in Seq(Nat) /\ Len(s) = at[n]
  /\ \A k \in 1..n : /\ at[k] = at[k - 1] + Places(data[k]) /\ at[k] <= at[n]
                     /\ Stands(s, at[k - 1], data[k])

LEMMA CodesMore ==
  ASSUME NEW m \in Nat, NEW data \in [1..m -> Nat], NEW at \in [0..m -> Nat],
         NEW n \in 0..(m - 1), NEW s, Codes(s, data, at, n),
         NEW t, t = s \o Escaped(data[n + 1]), at[n + 1] = Len(t)
  PROVE  Codes(t, data, at, n + 1)
<1>0. /\ n + 1 \in 1..m /\ data[n + 1] \in Nat /\ at[n] \in Nat /\ at[n + 1] \in Nat
      /\ \A k \in 1..n : data[k] \in Nat /\ at[k - 1] \in Nat /\ at[k] \in Nat
  OBVIOUS
<1>1. s \in Seq(Nat) /\ Len(s) = at[n]
  BY DEF Codes
<1>b. PICK b \in Nat : b = data[n + 1]
  BY <1>0
<1>2. Escaped(b) \in Seq(Nat) /\ Len(Escaped(b)) = Places(b) /\ Stands(Escaped(b), 0, b)
  BY EscapedPlaces
<1>3. /\ t \in Seq(Nat) /\ Len(t) = at[n] + Places(b)
      /\ \A i \in 1..at[n] : t[i] = s[i]
      /\ \A i \in 1..Places(b) : t[at[n] + i] = Escaped(b)[i]
  <2>1. PICK u \in Seq(Nat) : u = Escaped(b)
    BY <1>2
  <2>2. t = s \o u /\ Len(u) = Places(b)
    BY <1>b, <1>2, <2>1
  <2>3. /\ s \o u \in Seq(Nat) /\ Len(s \o u) = Len(s) + Len(u)
        /\ \A i \in 1..Len(s) : (s \o u)[i] = s[i]
        /\ \A i \in 1..Len(u) : (s \o u)[Len(s) + i] = u[i]
    BY <1>1, Appended
  <2> QED BY <1>1, <2>1, <2>2, <2>3
<1>4. Places(b) \in {1, 2}
  BY DEF Places
<1>5. Stands(t, at[n], b)
  <2>1. PICK q \in Nat : q = at[n]
    BY <1>0
  <2>2. \A j \in 1..Places(b) : t[q + j] = Escaped(b)[j]
    BY <1>3, <2>1
  <2>3. PICK e : e = Escaped(b)
    OBVIOUS
  <2>4. Stands(t, q, b)
    BY ZenonT(60), <1>2, <2>2, <2>3, StandsAfter
  <2> QED BY <2>1, <2>4
<1>7. at[n + 1] = at[n] + Places(b) /\ (n + 1) - 1 = n
  BY <1>3
<1>6. ASSUME NEW k \in 1..n
      PROVE  /\ at[k] = at[k - 1] + Places(data[k]) /\ at[k] <= at[n + 1]
             /\ Stands(t, at[k - 1], data[k])
  <2>1. PICK i \in Nat, c \in Nat, q \in Nat : i = at[k - 1] /\ c = data[k] /\ q = at[n]
    BY <1>0
  <2>2. at[k] = i + Places(c) /\ at[k] <= q /\ Stands(s, i, c)
    BY <2>1 DEF Codes
  <2>0. at[k] \in Nat /\ Places(c) \in Nat /\ at[n + 1] \in Nat
    BY <1>0 DEF Places
  <2>6. i + Places(c) <= q
    BY <2>0, <2>2
  <2>3. \A j \in 1..q : t[j] = s[j]
    BY <1>3, <2>1
  <2>4. Stands(t, i, c)
    <3>1. CASE c \in Special
      <4>1. i + 2 <= q
        BY <3>1, <2>6 DEF Places
      <4>2. i + 1 \in 1..q /\ i + 2 \in 1..q
        BY <4>1
      <4> QED BY <3>1, <4>2, <2>2, <2>3 DEF Stands
    <3>2. CASE c \notin Special
      <4>1. i + 1 <= q
        BY <3>2, <2>6 DEF Places
      <4>2. i + 1 \in 1..q
        BY <4>1
      <4> QED BY <3>2, <4>2, <2>2, <2>3 DEF Stands
    <3> QED BY <3>1, <3>2
  <2>5. at[k] <= at[n + 1]
    <3>1. PICK v \in Nat : v = Places(b)
      BY <1>4
    <3>2. at[n + 1] = q + v /\ at[k] <= q /\ at[k] \in Nat
      BY <1>7, <2>0, <2>1, <2>2, <3>1
    <3> QED BY <3>2
  <2> QED BY <2>1, <2>2, <2>4, <2>5
<1>8. ASSUME NEW k \in 1..(n + 1)
      PROVE  /\ at[k] = at[k - 1] + Places(data[k]) /\ at[k] <= at[n + 1]
             /\ Stands(t, at[k - 1], data[k])
  <2>1. CASE k \in 1..n
    BY <2>1, <1>6
  <2>2. CASE k = n + 1
    BY <2>2, <1>0, <1>5, <1>7, <1>b
  <2> QED BY <2>1, <2>2
<1>9. Len(t) = at[n + 1]
  OBVIOUS
<1> QED BY <1>3, <1>8, <1>9 DEF Codes

LEMMA Sized ==
  ASSUME NEW m \in Nat, NEW data \in [1..m -> Nat]
  PROVE  data \in Seq(Nat) /\ Len(data) = m
OBVIOUS

LEMMA Unsized ==
  ASSUME NEW n \in Nat, NEW s \in Seq(Nat), Len(s) = n
  PROVE  s \in [1..n -> Nat]
OBVIOUS

\* The body of a packet is the code of its data.
LEMMA BodyCodes ==
  ASSUME NEW m \in Nat, NEW data \in [1..m -> Nat]
  PROVE  \E at \in [0..m -> Nat] : at[0] = 0 /\ Codes(Body(data), data, at, m)
<1>1. data \in Seq(Nat) /\ Len(data) = m
  BY Sized
<1>2. PICK done \in [0..m -> Seq(Nat)] : Turns(done, data) /\ Body(data) = done[m]
  BY <1>1, TurnsExist
<1> DEFINE at == [i \in 0..m |-> Len(done[i])]
<1>3. at \in [0..m -> Nat] /\ \A i \in 0..m : at[i] = Len(done[i])
  <2>1. \A u \in Seq(Nat) : Len(u) \in Nat
    OBVIOUS
  <2> QED BY <1>2, <2>1
<1>4. done[0] = << >> /\ \A i \in 0..m : i # 0 => done[i] = done[i - 1] \o Escaped(data[i])
  BY <1>1, <1>2 DEF Turns
<1>5. at[0] = 0
  BY <1>3, <1>4
<1> HIDE DEF at
<1> DEFINE T == {n \in Nat : n \in 0..m => Codes(done[n], data, at, n)}
<1>6. 0 \in T
  BY <1>2, <1>3 DEF Codes
<1>7. ASSUME NEW n \in Nat, n \in T PROVE n + 1 \in T
  <2> SUFFICES ASSUME n + 1 \in 0..m PROVE Codes(done[n + 1], data, at, n + 1)
    OBVIOUS
  <2>1. n \in 0..(m - 1) /\ (n + 1) - 1 = n /\ n + 1 # 0 /\ n \in 0..m
    OBVIOUS
  <2>2. Codes(done[n], data, at, n)
    BY <1>7, <2>1
  <2>3. done[n + 1] = done[n] \o Escaped(data[n + 1]) /\ at[n + 1] = Len(done[n + 1])
    BY <1>3, <1>4, <2>1
  <2> QED BY <1>3, <2>1, <2>2, <2>3, CodesMore
<1> HIDE DEF T
<1>8. m \in T
  BY <1>6, <1>7, SetInduction
<1>9. Codes(done[m], data, at, m)
  BY <1>8 DEF T
<1> QED BY <1>2, <1>3, <1>5, <1>9

\* A packet.
LEMMA PacketBytes ==
  ASSUME NEW m \in Nat, NEW data \in [1..m -> Nat]
  PROVE  LET body == Body(data) p == Packet(data) IN
         /\ body \in Seq(Nat) /\ p \in Seq(Nat) /\ Len(p) = Len(body) + 2 /\ Len(body) \in Nat
         /\ p[1] = S /\ p[Len(p)] = E /\ \A i \in 1..Len(body) : p[i + 1] = body[i]
<1>1. Body(data) \in Seq(Nat)
  BY BodyCodes DEF Codes
<1> QED BY <1>1 DEF Packet, S, E

-----------------------------------------------------------------------------
(* What parseBuffer() makes of bytes. *)

\* The state of the loop over n bytes.
Parsers(n) == [begin : BOOLEAN, escape : BOOLEAN, received : BOOLEAN, index : Nat, buf : [1..n -> Nat]]

\* One turn changes no more than it has to.
LEMMA Passed ==
  ASSUME NEW n \in Nat, NEW r \in Parsers(n), ~r.begin, NEW b \in Nat, NEW s, s = Parsed(r, b)
  PROVE  /\ s \in Parsers(n) /\ s.begin = (b = S) /\ s.escape = r.escape
         /\ s.received = r.received /\ s.index = r.index /\ s.buf = r.buf
<1>2. PICK c \in BOOLEAN : c = (b = S)
  BY Zenon
<1>3. s = [r EXCEPT !.begin = c]
  BY <1>2 DEF Parsed
<1>4. /\ s \in Parsers(n) /\ s.begin = c /\ s.escape = r.escape
      /\ s.received = r.received /\ s.index = r.index /\ s.buf = r.buf
  BY <1>3 DEF Parsers
<1> QED BY <1>2, <1>4

LEMMA Restarted ==
  ASSUME NEW n \in Nat, NEW r \in Parsers(n), r.begin, ~r.escape, NEW s, s = Parsed(r, S)
  PROVE  s \in Parsers(n) /\ s.begin /\ ~s.escape /\ ~s.received /\ s.index = 0 /\ s.buf = r.buf
<1>1. s = [r EXCEPT !.received = FALSE, !.index = 0]
  BY DEF Parsed, Special, S, E, Escape
<1>2. s \in Parsers(n)
  <2>1. PICK d \in BOOLEAN, i \in Nat : d = FALSE /\ i = 0
    OBVIOUS
  <2>2. s = [r EXCEPT !.received = d, !.index = i]
    BY <1>1, <2>1
  <2> QED BY <2>2 DEF Parsers
<1>3. s.index = 0 /\ s.buf = r.buf
  BY <1>1 DEF Parsers
<1>4. s.begin = r.begin /\ s.escape = r.escape /\ s.received = FALSE
  BY <1>1 DEF Parsers
<1> QED BY <1>2, <1>3, <1>4

LEMMA Ended ==
  ASSUME NEW n \in Nat, NEW r \in Parsers(n), r.begin, ~r.escape, NEW s, s = Parsed(r, E)
  PROVE  s \in Parsers(n) /\ ~s.begin /\ ~s.escape /\ s.received /\ s.index = 0 /\ s.buf = r.buf
<1>1. s = [r EXCEPT !.begin = FALSE, !.received = TRUE, !.index = 0]
  BY DEF Parsed, Special, S, E, Escape
<1>2. s \in Parsers(n)
  <2>1. PICK c \in BOOLEAN, d \in BOOLEAN, i \in Nat : c = FALSE /\ d = TRUE /\ i = 0
    OBVIOUS
  <2>2. s = [r EXCEPT !.begin = c, !.received = d, !.index = i]
    BY <1>1, <2>1
  <2> QED BY <2>2 DEF Parsers
<1>3. s.index = 0 /\ s.buf = r.buf
  BY <1>1 DEF Parsers
<1>4. s.begin = FALSE /\ s.escape = r.escape /\ s.received = TRUE
  BY <1>1 DEF Parsers
<1> QED BY <1>2, <1>3, <1>4

LEMMA Escapes ==
  ASSUME NEW n \in Nat, NEW r \in Parsers(n), r.begin, ~r.escape, NEW s, s = Parsed(r, Escape)
  PROVE  /\ s \in Parsers(n) /\ s.begin /\ s.escape
         /\ s.received = r.received /\ s.index = r.index /\ s.buf = r.buf
<1>1. s = [r EXCEPT !.escape = TRUE]
  BY DEF Parsed, Special, S, E, Escape
<1> QED BY <1>1 DEF Parsers

LEMMA Stores ==
  ASSUME NEW n \in Nat, NEW r \in Parsers(n), r.begin, NEW b \in Nat, b \in Special <=> r.escape,
         NEW s, s = Parsed(r, b)
  PROVE  /\ s \in Parsers(n) /\ s.begin /\ ~s.escape
         /\ s.received = r.received /\ s.index = r.index + 1
         /\ s.buf = [r.buf EXCEPT ![r.index + 1] = b]
<1>1. s = [r EXCEPT !.buf[r.index + 1] = b, !.index = r.index + 1, !.escape = FALSE]
  BY DEF Parsed, Stored, Special, S, E, Escape
<1>2. PICK v \in [1..n -> Nat], i \in Nat : v = [r.buf EXCEPT ![r.index + 1] = b] /\ i = r.index + 1
  <2>1. r.index \in Nat /\ r.buf \in [1..n -> Nat]
    BY DEF Parsers
  <2>2. PICK w \in [1..n -> Nat], i \in Nat : w = r.buf /\ i = r.index + 1
    BY <2>1
  <2>3. PICK v : v = [w EXCEPT ![i] = b]
    OBVIOUS
  <2>4. v \in [1..n -> Nat]
    BY <2>3
  <2>5. v = [r.buf EXCEPT ![r.index + 1] = b]
    BY <2>2, <2>3, Zenon
  <2> QED BY <2>2, <2>4, <2>5, Zenon
<1>3. s = [r EXCEPT !.buf = v, !.index = i, !.escape = FALSE]
  BY <1>1, <1>2
<1>4. s \in Parsers(n)
  BY <1>3 DEF Parsers
<1>5. s.index = i /\ s.buf = v
  BY <1>3 DEF Parsers
<1>6. s.begin = r.begin /\ s.escape = FALSE /\ s.received = r.received
  BY <1>3 DEF Parsers
<1> QED BY <1>2, <1>4, <1>5, <1>6

LEMMA ParsedTyped ==
  ASSUME NEW n \in Nat, NEW r \in Parsers(n), NEW b \in Nat
  PROVE  Parsed(r, b) \in Parsers(n)
<1>1. PICK s : s = Parsed(r, b)
  OBVIOUS
<1>0. r.begin \in BOOLEAN /\ r.escape \in BOOLEAN
  BY DEF Parsers
<1>2. CASE ~r.begin
  BY <1>1, <1>2, Passed
<1>3. CASE r.begin /\ (b \in Special <=> r.escape)
  BY <1>1, <1>3, Stores
<1>4. CASE r.begin /\ r.escape /\ b \notin Special
  <2>1. s = [r EXCEPT !.begin = FALSE, !.escape = FALSE, !.received = FALSE, !.index = 0]
    BY <1>1, <1>4 DEF Parsed
  <2>2. s \in Parsers(n)
    BY <2>1 DEF Parsers
  <2> QED BY <1>1, <2>2
<1>5. CASE r.begin /\ ~r.escape /\ b \in Special
  BY <1>1, <1>5, Restarted, Ended, Escapes DEF Special
<1> QED BY <1>0, <1>2, <1>3, <1>4, <1>5

\* The set holds one state only.
Turn(r, b) == CHOOSE s \in {Parsed(x, b) : x \in {r}} : TRUE

LEMMA TurnIsParsed ==
  ASSUME NEW r, NEW b
  PROVE  Turn(r, b) = Parsed(r, b)
<1>1. {Parsed(x, b) : x \in {r}} = {Parsed(r, b)}
  OBVIOUS
<1> QED BY <1>1 DEF Turn

Fresh(buf) == [begin |-> FALSE, escape |-> FALSE, received |-> FALSE, index |-> 0, buf |-> buf]

\* The loop over buf as a function of the turn.
Loop(after, buf) ==
  after = [i \in 0..Len(buf) |-> IF i = 0 THEN Fresh(buf) ELSE Turn(after[i - 1], buf[i])]

\* a holds the states of the loop over the n bytes of buf.
Run(a, n, buf) ==
  /\ a \in [0..n -> Parsers(n)]
  /\ a[0] = Fresh(buf) /\ \A i \in 1..n : a[i] = Parsed(a[i - 1], buf[i])

LEMMA FreshTyped ==
  ASSUME NEW n \in Nat, NEW buf \in [1..n -> Nat]
  PROVE  Fresh(buf) \in Parsers(n)
BY DEF Fresh, Parsers

LEMMA RunExists ==
  ASSUME NEW n \in Nat, NEW buf \in [1..n -> Nat]
  PROVE  \E a : Run(a, n, buf) /\ parseBuffer(buf) = a[n]
<1> DEFINE F == [i \in 1..n |-> [r \in Parsers(n) |-> Parsed(r, buf[i])]]
           after == CHOOSE after : Loop(after, buf)
<1>0. buf \in Seq(Nat) /\ Len(buf) = n
  BY Sized
<1>1. \A i \in 1..n, r \in Parsers(n) : Parsed(r, buf[i]) \in Parsers(n)
  <2> SUFFICES ASSUME NEW i \in 1..n, NEW r \in Parsers(n) PROVE Parsed(r, buf[i]) \in Parsers(n)
    OBVIOUS
  <2>1. buf[i] \in Nat
    OBVIOUS
  <2> QED BY <2>1, ParsedTyped
<1>2. /\ F \in [1..n -> [Parsers(n) -> Parsers(n)]]
      /\ \A i \in 1..n, r \in Parsers(n) : F[i][r] = Parsed(r, buf[i])
  BY <1>1
<1>3. Fresh(buf) \in Parsers(n)
  BY FreshTyped
<1> HIDE DEF F
<1>4. PICK g \in [0..n -> Parsers(n)] : Iterates(g, Fresh(buf), F, n)
  BY <1>2, <1>3, Recursion
<1>5. \A i \in 0..n : i # 0 => g[i] = Turn(g[i - 1], buf[i])
  <2> SUFFICES ASSUME NEW i \in 0..n, i # 0 PROVE g[i] = Turn(g[i - 1], buf[i])
    OBVIOUS
  <2>1. i \in 1..n /\ i - 1 \in 0..n /\ DOMAIN F = 1..n
    BY <1>2
  <2>2. g[i - 1] \in Parsers(n)
    BY <2>1
  <2>3. g[i] = Parsed(g[i - 1], buf[i])
    BY <1>2, <1>4, <2>1, <2>2 DEF Iterates
  <2> QED BY <2>3, TurnIsParsed
<1>6. Loop(g, buf)
  BY <1>0, <1>4, <1>5 DEF Loop, Iterates
<1>7. Loop(after, buf)
  BY <1>6
<1>8. parseBuffer(buf) = after[n]
  BY <1>0 DEF parseBuffer, Loop, Fresh, Turn
<1> HIDE DEF after
<1>9. DOMAIN after = 0..n /\ \A i \in 0..n :
        after[i] = IF i = 0 THEN Fresh(buf) ELSE Parsed(after[i - 1], buf[i])
  BY <1>0, <1>7, TurnIsParsed DEF Loop
<1> DEFINE T == {k \in Nat : k \in 0..n => after[k] \in Parsers(n)}
<1>10. 0 \in T
  BY <1>3, <1>9
<1>11. ASSUME NEW k \in Nat, k \in T PROVE k + 1 \in T
  <2> SUFFICES ASSUME k + 1 \in 0..n PROVE after[k + 1] \in Parsers(n)
    OBVIOUS
  <2>1. k \in 0..n /\ k + 1 \in 1..n /\ (k + 1) - 1 = k /\ k + 1 # 0
    OBVIOUS
  <2>2. after[k + 1] = Parsed(after[k], buf[k + 1])
    BY <1>9, <2>1
  <2> QED BY <1>1, <1>11, <2>1, <2>2
<1> HIDE DEF T
<1>12. Nat \subseteq T
  BY <1>10, <1>11, SetInduction
<1>13. after \in [0..n -> Parsers(n)]
  <2>1. \A k \in 0..n : after[k] \in Parsers(n)
    BY <1>12 DEF T
  <2>2. after = [k \in 0..n |-> after[k]]
    BY <1>0, <1>7 DEF Loop
  <2> QED BY <2>1, <2>2
<1>14. after[0] = Fresh(buf) /\ \A i \in 1..n : after[i] = Parsed(after[i - 1], buf[i])
  BY <1>9
<1> QED BY <1>8, <1>13, <1>14 DEF Run

\* s is r with the byte c stored.
Grown(s, r, c, n) ==
  /\ s.begin /\ ~s.escape /\ s.received = r.received /\ s.index = r.index + 1
  /\ s.buf[r.index + 1] = c /\ \A j \in 1..n : j # r.index + 1 => s.buf[j] = r.buf[j]

LEMMA StoresGrown ==
  ASSUME NEW n \in Nat, NEW r \in Parsers(n), r.begin, NEW b \in Nat, b \in Special <=> r.escape,
         r.index + 1 \in 1..n, NEW s, s = Parsed(r, b)
  PROVE  Grown(s, r, b, n)
<1>1. /\ s.begin /\ ~s.escape /\ s.received = r.received /\ s.index = r.index + 1
      /\ s.buf = [r.buf EXCEPT ![r.index + 1] = b]
  BY Stores
<1>2. r.buf \in [1..n -> Nat]
  BY DEF Parsers
<1>3. s.buf[r.index + 1] = b /\ \A j \in 1..n : j # r.index + 1 => s.buf[j] = r.buf[j]
  BY <1>1, <1>2
<1> QED BY <1>1, <1>3 DEF Grown

\* One byte of the data, escaped or not.
LEMMA DatumParsed ==
  ASSUME NEW n \in Nat, NEW buf \in [1..n -> Nat], NEW a, Run(a, n, buf),
         NEW i \in Nat, NEW c \in Nat, i + Places(c) <= n, Stands(buf, i, c),
         a[i].begin, ~a[i].escape, a[i].index + 1 \in 1..n
  PROVE  Grown(a[i + Places(c)], a[i], c, n)
<1>1. CASE c \in Special
  <2>1. i + 2 <= n /\ Places(c) = 2 /\ buf[i + 1] = Escape /\ buf[i + 2] = c
    BY <1>1 DEF Places, Stands
  <2>2. i \in 0..n /\ i + 1 \in 1..n /\ i + 2 \in 1..n /\ (i + 1) - 1 = i /\ (i + 2) - 1 = i + 1
    BY <2>1
  <2>3. a[i] \in Parsers(n) /\ a[i + 1] = Parsed(a[i], Escape)
    BY <2>1, <2>2 DEF Run
  <2>4. PICK r \in Parsers(n) : r = a[i]
    BY <2>3
  <2>5. PICK s : s = a[i + 1]
    OBVIOUS
  <2>6. /\ s \in Parsers(n) /\ s.begin /\ s.escape
        /\ s.received = r.received /\ s.index = r.index /\ s.buf = r.buf
    BY <2>3, <2>4, <2>5, Escapes
  <2>7. a[i + 2] = Parsed(s, c)
    BY <2>1, <2>2, <2>5 DEF Run
  <2>8. Grown(a[i + 2], s, c, n)
    BY <1>1, <2>4, <2>6, <2>7, StoresGrown
  <2> QED BY <2>1, <2>4, <2>6, <2>8 DEF Grown
<1>2. CASE c \notin Special
  <2>1. i + 1 <= n /\ Places(c) = 1 /\ buf[i + 1] = c
    BY <1>2 DEF Places, Stands
  <2>2. i \in 0..n /\ i + 1 \in 1..n /\ (i + 1) - 1 = i
    BY <2>1
  <2>3. a[i] \in Parsers(n) /\ a[i + 1] = Parsed(a[i], c)
    BY <2>1, <2>2 DEF Run
  <2>4. PICK r \in Parsers(n) : r = a[i]
    BY <2>3
  <2>5. Grown(a[i + 1], r, c, n)
    BY <1>2, <2>3, <2>4, StoresGrown
  <2> QED BY <2>1, <2>4, <2>5
<1> QED BY <1>1, <1>2

\* s is r with the first k bytes of data stored.
InBody(s, r, data, k) ==
  /\ s.begin /\ ~s.escape /\ s.received = r.received /\ s.index = r.index + k
  /\ \A j \in 1..r.index : s.buf[j] = r.buf[j]
  /\ \A j \in 1..k : s.buf[r.index + j] = data[j]

LEMMA BodyGrown ==
  ASSUME NEW n \in Nat, NEW k \in Nat, NEW data, NEW r \in Parsers(n), NEW s, InBody(s, r, data, k),
         NEW t, NEW c, Grown(t, s, c, n), c = data[k + 1], r.index + k + 1 <= n
  PROVE  InBody(t, r, data, k + 1)
<1>1. PICK x \in Nat : x = r.index
  BY DEF Parsers
<1>2. s.index = x + k /\ x + k + 1 <= n
  BY <1>1 DEF InBody
<1>3. t.begin /\ ~t.escape /\ t.received = r.received
  BY DEF InBody, Grown
<1>4. t.index = x + (k + 1)
  BY <1>2 DEF Grown
<1>5. t.buf[x + (k + 1)] = c /\ \A j \in 1..n : j # x + (k + 1) => t.buf[j] = s.buf[j]
  <2>1. s.index + 1 = x + (k + 1)
    BY <1>2
  <2> QED BY <2>1 DEF Grown
<1>6. \A j \in 1..x : t.buf[j] = r.buf[j]
  BY <1>1, <1>2, <1>5 DEF InBody
<1>7. ASSUME NEW j \in 1..(k + 1) PROVE t.buf[x + j] = data[j]
  <2>1. CASE j \in 1..k
    <3>1. x + j \in 1..n /\ x + j # x + (k + 1)
      BY <2>1, <1>2
    <3>2. s.buf[x + j] = data[j]
      BY <2>1, <1>1 DEF InBody
    <3> QED BY <3>1, <3>2, <1>5
  <2>2. CASE j = k + 1
    BY <2>2, <1>5
  <2> QED BY <2>1, <2>2
<1> QED BY <1>1, <1>3, <1>4, <1>6, <1>7 DEF InBody

\* Data take no more room than their code.
LEMMA Room ==
  ASSUME NEW p \in Nat, NEW l \in Nat, NEW n \in Nat, p + l <= n,
         NEW i \in Nat, NEW j \in Nat, NEW v \in Nat, j = i + v, v >= 1, j <= l,
         NEW k \in Nat, k <= i, NEW x \in Nat, x <= p
  PROVE  k + 1 <= j /\ p + i + v <= n /\ p + j = p + i + v /\ x + k + 1 <= n
OBVIOUS

\* After its first p places buf goes on with the first l of s.
Carries(buf, p, s, l) == \A i \in 1..l : buf[p + i] = s[i]

\* The body of a packet, which is no shorter than its data, stores them.
LEMMA BodyParsed ==
  ASSUME NEW n \in Nat, NEW buf \in [1..n -> Nat], NEW a, Run(a, n, buf),
         NEW m \in Nat, NEW data \in [1..m -> Nat], NEW l \in Nat, l = Len(Body(data)),
         NEW p \in Nat, p + l <= n, Carries(buf, p, Body(data), l),
         a[p].begin, ~a[p].escape, a[p].index <= p
  PROVE  m <= l /\ InBody(a[p + l], a[p], data, m)
<1>1. PICK at \in [0..m -> Nat] : at[0] = 0 /\ Codes(Body(data), data, at, m)
  BY BodyCodes
<1>2. a[p] \in Parsers(n)
  BY DEF Run
<1>3. PICK r \in Parsers(n), x \in Nat : r = a[p] /\ x = r.index
  BY <1>2 DEF Parsers
<1>4. PICK body : body = Body(data)
  OBVIOUS
<1>5. l = at[m] /\ \A k \in 1..m : /\ at[k] = at[k - 1] + Places(data[k]) /\ at[k] <= l
                                 /\ Stands(body, at[k - 1], data[k])
  BY <1>1, <1>4 DEF Codes
<1> DEFINE T == {k \in Nat : k \in 0..m => k <= at[k] /\ InBody(a[p + at[k]], r, data, k)}
<1>6. 0 \in T
  <2>1. p + at[0] = p
    BY <1>1
  <2>2. InBody(r, r, data, 0)
    BY <1>3 DEF InBody
  <2> QED BY <1>1, <1>3, <2>1, <2>2
<1>7. ASSUME NEW k \in Nat, k \in T PROVE k + 1 \in T
  <2> SUFFICES ASSUME k + 1 \in 0..m
               PROVE  k + 1 <= at[k + 1] /\ InBody(a[p + at[k + 1]], r, data, k + 1)
    OBVIOUS
  <2>1. k \in 0..m /\ k + 1 \in 1..m /\ (k + 1) - 1 = k
    OBVIOUS
  <2>2. k <= at[k] /\ InBody(a[p + at[k]], r, data, k)
    BY <1>7, <2>1
  <2>3. PICK i \in Nat, j \in Nat, c \in Nat : i = at[k] /\ j = at[k + 1] /\ c = data[k + 1]
    BY <2>1
  <2>4. j = i + Places(c) /\ j <= l /\ Stands(body, i, c) /\ k <= i
    BY <1>5, <2>1, <2>2, <2>3
  <2>5. Places(c) \in {1, 2}
    BY DEF Places
  <2>6. k + 1 <= j /\ p + i + Places(c) <= n /\ p + j = p + i + Places(c) /\ x <= p /\ x + k + 1 <= n
    <3>1. PICK v \in Nat : v = Places(c) /\ v >= 1
      BY <2>5
    <3>2. j = i + v /\ x <= p
      BY <1>3, <2>4, <3>1
    <3>4. j <= l /\ k <= i
      BY <2>4
    <3>3. k + 1 <= j /\ p + i + v <= n /\ p + j = p + i + v /\ x + k + 1 <= n
      BY <3>1, <3>2, <3>4, Room
    <3> QED BY <3>1, <3>2, <3>3
  <2>7. Stands(buf, p + i, c)
    <3>1. CASE c \in Special
      <4>1. Places(c) = 2
        BY <3>1 DEF Places
      <4>2. i + 1 \in 1..l /\ i + 2 \in 1..l /\ p + i + 1 = p + (i + 1) /\ p + i + 2 = p + (i + 2)
        BY <2>4, <4>1
      <4>3. buf[p + i + 1] = body[i + 1] /\ buf[p + i + 2] = body[i + 2]
        BY <1>4, <4>2 DEF Carries
      <4> QED BY <3>1, <4>3, <2>4 DEF Stands
    <3>2. CASE c \notin Special
      <4>1. Places(c) = 1
        BY <3>2 DEF Places
      <4>2. i + 1 \in 1..l /\ p + i + 1 = p + (i + 1)
        BY <2>4, <4>1
      <4>3. buf[p + i + 1] = body[i + 1]
        BY <1>4, <4>2 DEF Carries
      <4> QED BY <3>2, <4>3, <2>4 DEF Stands
    <3> QED BY <3>1, <3>2
  <2>8. PICK s : s = a[p + i]
    OBVIOUS
  <2>9. InBody(s, r, data, k)
    BY <2>2, <2>3, <2>8
  <2>10. s.begin /\ ~s.escape /\ s.index + 1 \in 1..n
    <3>1. s.begin /\ ~s.escape
      BY <2>9 DEF InBody
    <3>2. s.index = x + k
      BY <1>3, <2>9 DEF InBody
    <3>3. s.index + 1 \in 1..n
      BY <2>6, <3>2
    <3> QED BY <3>1, <3>3
  <2>11. PICK q \in Nat : q = p + i
    OBVIOUS
  <2>12. Grown(a[q + Places(c)], a[q], c, n)
    BY <2>6, <2>7, <2>8, <2>10, <2>11, DatumParsed
  <2>13. Grown(a[p + j], s, c, n)
    BY <2>6, <2>8, <2>11, <2>12
  <2>14. InBody(a[p + j], r, data, k + 1)
    BY <1>3, <2>3, <2>6, <2>9, <2>13, BodyGrown
  <2> QED BY <2>3, <2>6, <2>14
<1> HIDE DEF T
<1>8. m \in T
  BY <1>6, <1>7, SetInduction
<1> QED BY <1>3, <1>5, <1>8 DEF T

\* s holds data at the start of its buffer.
Holds(s, data, m) == \A j \in 1..m : s.buf[j] = data[j]

LEMMA PrefixHeld ==
  ASSUME NEW n \in Nat, NEW m \in Nat, m <= n, NEW data \in [1..m -> Nat],
         NEW s, s.buf \in [1..n -> Nat], Holds(s, data, m)
  PROVE  FirstBytes(s.buf, m) = data
<1>1. PICK b \in [1..n -> Nat] : b = s.buf
  OBVIOUS
<1>2. Len(b) = n
  BY Sized
<1>3. FirstBytes(b, m) = [i \in 1..m |-> b[i]]
  BY <1>2 DEF FirstBytes
<1>4. \A i \in 1..m : b[i] = data[i]
  BY <1>1 DEF Holds
<1> QED BY <1>1, <1>3, <1>4

\* Between two packets, the last perhaps without its end, of data of size m.
Between(s, m) == ~s.escape /\ s.index = IF s.begin THEN m ELSE 0

\* After its first p places buf goes on with a start and the code of data, up to q.
Opens(buf, p, data, q) ==
  /\ q = p + 1 + Len(Body(data)) /\ buf[p + 1] = S
  /\ Carries(buf, p + 1, Body(data), Len(Body(data)))

LEMMA BodyLength ==
  ASSUME NEW m \in Nat, NEW data \in [1..m -> Nat]
  PROVE  Len(Body(data)) \in Nat
BY PacketBytes

\* What a start and a body leave.
LEMMA Opened ==
  ASSUME NEW n \in Nat, NEW buf \in [1..n -> Nat], NEW a, Run(a, n, buf),
         NEW m \in Nat, NEW data \in [1..m -> Nat],
         NEW p \in Nat, Between(a[p], m), NEW q \in Nat, Opens(buf, p, data, q), q <= n
  PROVE  m <= q /\ a[q].begin /\ Between(a[q], m) /\ Holds(a[q], data, m)
<1>0. PICK l \in Nat : l = Len(Body(data))
  BY BodyLength
<1>o. PICK o \in Nat : o = p + 1
  OBVIOUS
<1>1. p \in 0..n /\ o \in 1..n /\ o - 1 = p /\ q = o + l /\ l <= q
  <2>1. q = p + 1 + l
    BY <1>0 DEF Opens
  <2> QED BY <1>o, <2>1
<1>2. a[p] \in Parsers(n) /\ a[o] = Parsed(a[p], S)
  <2>1. buf[o] = S
    BY <1>o DEF Opens
  <2> QED BY <1>1, <2>1 DEF Run
<1>3. PICK r \in Parsers(n) : r = a[p]
  BY <1>2
<1>s. PICK s : s = a[o]
  OBVIOUS
<1>4. s.begin /\ ~s.escape /\ s.index = 0
  <2>1. CASE r.begin
    BY <2>1, <1>2, <1>3, <1>s, Restarted DEF Between
  <2>2. CASE ~r.begin
    <3>1. S \in Nat
      BY DEF S
    <3>2. s.begin = (S = S) /\ s.escape = r.escape /\ s.index = r.index
      BY <2>2, <3>1, <1>2, <1>3, <1>s, Passed
    <3> QED BY <2>2, <3>2, <1>3 DEF Between
  <2> QED BY <2>1, <2>2
<1>7. m <= l /\ InBody(a[o + l], a[o], data, m)
  <2>1. a[o].begin /\ ~a[o].escape /\ a[o].index <= o
    BY <1>4, <1>s
  <2>2. Carries(buf, o, Body(data), l) /\ o + l <= n
    BY <1>0, <1>1, <1>o DEF Opens
  <2> QED BY <1>0, <2>1, <2>2, BodyParsed
<1>8. InBody(a[q], s, data, m)
  BY <1>s, <1>1, <1>7
<1>9. PICK t : t = a[q]
  OBVIOUS
<1>10. t.begin /\ ~t.escape /\ t.index = s.index + m /\ \A j \in 1..m : t.buf[s.index + j] = data[j]
  BY <1>8, <1>9 DEF InBody
<1>11. t.index = m /\ Holds(t, data, m)
  <2>1. 0 + m = m /\ \A j \in 1..m : 0 + j = j
    OBVIOUS
  <2> QED BY <1>4, <1>10, <2>1 DEF Holds
<1>12. Between(t, m)
  BY <1>10, <1>11 DEF Between
<1>13. m <= q
  BY <1>1, <1>7
<1> QED BY <1>9, <1>10, <1>11, <1>12, <1>13

\* buf goes on after its first q places with an end.
Ends(buf, q, e) == e = q + 1 /\ buf[e] = E

\* What an end leaves.
LEMMA Closed ==
  ASSUME NEW n \in Nat, NEW buf \in [1..n -> Nat], NEW a, Run(a, n, buf),
         NEW m \in Nat, NEW data, NEW q \in Nat, NEW e \in Nat, Ends(buf, q, e), e <= n,
         a[q].begin, ~a[q].escape, Holds(a[q], data, m)
  PROVE  ~a[e].begin /\ Between(a[e], m) /\ a[e].received /\ Holds(a[e], data, m)
<1>1. q \in 0..n /\ e \in 1..n /\ e - 1 = q /\ buf[e] = E
  BY DEF Ends
<1>2. a[q] \in Parsers(n) /\ a[e] = Parsed(a[q], E)
  BY <1>1 DEF Run
<1>3. PICK r \in Parsers(n) : r = a[q]
  BY <1>2
<1>s. PICK s : s = a[e]
  OBVIOUS
<1>4. ~s.begin /\ ~s.escape /\ s.received /\ s.index = 0 /\ s.buf = r.buf
  BY <1>2, <1>3, <1>s, Ended
<1>5. Holds(s, data, m) /\ Between(s, m)
  BY <1>3, <1>4 DEF Holds, Between
<1> QED BY <1>s, <1>4, <1>5

\* A packet as a function on its places.
LEMMA PacketSized ==
  ASSUME NEW m \in Nat, NEW data \in [1..m -> Nat]
  PROVE  \E q \in Nat, n \in Nat :
           /\ n = q + 1 /\ Packet(data) \in [1..n -> Nat] /\ Packet(data)[n] = E
           /\ Opens(Packet(data), 0, data, q)
<1>1. PICK body \in Seq(Nat), l \in Nat, buf \in Seq(Nat) :
        body = Body(data) /\ l = Len(body) /\ buf = Packet(data)
  BY PacketBytes
<1>2. /\ Len(buf) = l + 2 /\ buf[1] = S /\ buf[Len(buf)] = E
      /\ \A i \in 1..l : buf[i + 1] = body[i]
  BY <1>1, PacketBytes
<1>3. PICK q \in Nat, n \in Nat : q = l + 1 /\ n = l + 2
  OBVIOUS
<1>4. buf \in [1..n -> Nat]
  BY <1>2, <1>3, Unsized
<1>5. Carries(buf, 1, body, l)
  <2>1. \A i \in 1..l : 1 + i = i + 1
    OBVIOUS
  <2> QED BY <1>2, <2>1 DEF Carries
<1>6. Opens(buf, 0, data, q)
  <2>1. 0 + 1 = 1 /\ q = 1 + l
    BY <1>3
  <2> QED BY <1>1, <1>2, <1>5, <2>1 DEF Opens
<1>7. n = q + 1
  BY <1>3
<1> QED BY <1>1, <1>2, <1>3, <1>4, <1>6, <1>7

\* parseBuffer() gets back the data of a packet.
LEMMA RoundTrip ==
  ASSUME NEW m \in Nat, NEW data \in [1..m -> Nat]
  PROVE  LET result == parseBuffer(Packet(data)) IN
         result.received /\ FirstBytes(result.buf, m) = data
<1>1. PICK q \in Nat, n \in Nat :
        /\ n = q + 1 /\ Packet(data) \in [1..n -> Nat] /\ Packet(data)[n] = E
        /\ Opens(Packet(data), 0, data, q)
  BY PacketSized
<1>2. PICK buf \in [1..n -> Nat] : buf = Packet(data)
  BY <1>1
<1>3. PICK a : Run(a, n, buf) /\ parseBuffer(buf) = a[n]
  BY RunExists
<1>4. PICK p \in Nat : p = 0
  OBVIOUS
<1>5. Between(a[p], m)
  BY <1>3, <1>4 DEF Run, Fresh, Between
<1>6. m <= q /\ a[q].begin /\ Between(a[q], m) /\ Holds(a[q], data, m)
  <2>1. Opens(buf, p, data, q) /\ q <= n
    BY <1>1, <1>2, <1>4
  <2> QED BY <1>3, <1>5, <2>1, Opened
<1>7. a[n].received /\ Holds(a[n], data, m)
  <2>1. n <= n /\ Ends(buf, q, n)
    BY <1>1, <1>2 DEF Ends
  <2>2. ~a[q].escape
    BY <1>6 DEF Between
  <2> QED BY <1>3, <1>6, <2>1, <2>2, Closed
<1>8. a[n].buf \in [1..n -> Nat]
  <2>1. n \in 0..n
    OBVIOUS
  <2>2. a[n] \in Parsers(n)
    BY <1>3, <2>1 DEF Run
  <2> QED BY <2>2 DEF Parsers
<1>9. PICK s : s = a[n]
  OBVIOUS
<1>10. m <= n
  BY <1>1, <1>6
<1>11. FirstBytes(s.buf, m) = data
  BY <1>7, <1>8, <1>9, <1>10, PrefixHeld
<1> QED BY <1>2, <1>3, <1>7, <1>9, <1>11

-----------------------------------------------------------------------------
(* What a read() brings: frames, of which the line may have lost an end. *)

\* BoardSends(): what is left of a frame.
Remains(data, lost) ==
  IF lost = "start" THEN Tail(Packet(data))
  ELSE IF lost = "end" THEN Front(Packet(data)) ELSE Packet(data)

\* The bytes of the body are those of the data and escapes.
LEMMA BodyBytes ==
  ASSUME NEW m \in Nat, NEW data \in [1..m -> Nat], \A k \in 1..m : data[k] # S
  PROVE  \A i \in 1..Len(Body(data)) : Body(data)[i] # S
<1>1. PICK at \in [0..m -> Nat] : at[0] = 0 /\ Codes(Body(data), data, at, m)
  BY BodyCodes
<1>2. PICK body : body = Body(data)
  OBVIOUS
<1>3. /\ Len(body) = at[m]
      /\ \A k \in 1..m : at[k] = at[k - 1] + Places(data[k]) /\ Stands(body, at[k - 1], data[k])
  BY <1>1, <1>2 DEF Codes
<1> DEFINE T == {k \in Nat : k \in 0..m => \A i \in 1..at[k] : body[i] # S}
<1>4. 0 \in T
  BY <1>1
<1>5. ASSUME NEW k \in Nat, k \in T PROVE k + 1 \in T
  <2> SUFFICES ASSUME k + 1 \in 0..m, NEW i \in 1..at[k + 1] PROVE body[i] # S
    OBVIOUS
  <2>1. k \in 0..m /\ k + 1 \in 1..m /\ (k + 1) - 1 = k
    OBVIOUS
  <2>2. \A x \in 1..at[k] : body[x] # S
    BY <1>5, <2>1
  <2>3. PICK j \in Nat, c \in Nat : j = at[k] /\ c = data[k + 1] /\ c # S
    BY <2>1
  <2>4. at[k + 1] = j + Places(c) /\ Stands(body, j, c)
    BY <1>3, <2>1, <2>3
  <2>5. CASE c \in Special
    <3>1. at[k + 1] = j + 2 /\ body[j + 1] = Escape /\ body[j + 2] = c
      BY <2>4, <2>5 DEF Places, Stands
    <3>2. i \in 1..j \/ i = j + 1 \/ i = j + 2
      BY <3>1
    <3>3. Escape # S
      BY DEF Escape, S
    <3> QED BY <2>2, <2>3, <3>1, <3>2, <3>3
  <2>6. CASE c \notin Special
    <3>1. at[k + 1] = j + 1 /\ body[j + 1] = c
      BY <2>4, <2>6 DEF Places, Stands
    <3>2. i \in 1..j \/ i = j + 1
      BY <3>1
    <3> QED BY <2>2, <2>3, <3>1, <3>2
  <2> QED BY <2>5, <2>6
<1> HIDE DEF T
<1>6. m \in T
  BY <1>4, <1>5, SetInduction
<1> QED BY <1>2, <1>3, <1>6 DEF T

LEMMA TailBytes ==
  ASSUME NEW p \in Seq(Nat), NEW k \in Nat, Len(p) = k + 1
  PROVE  Tail(p) \in Seq(Nat) /\ Len(Tail(p)) = k /\ \A i \in 1..k : Tail(p)[i] = p[i + 1]
OBVIOUS

LEMMA FrontBytes ==
  ASSUME NEW p \in Seq(Nat), NEW k \in Nat, Len(p) = k + 1
  PROVE  Front(p) \in Seq(Nat) /\ Len(Front(p)) = k /\ \A i \in 1..k : Front(p)[i] = p[i]
<1>1. Front(p) = SubSeq(p, 1, k)
  <2>1. Len(p) - 1 = k
    OBVIOUS
  <2> QED BY <2>1 DEF Front
<1>2. /\ SubSeq(p, 1, k) \in Seq(Nat) /\ Len(SubSeq(p, 1, k)) = k
      /\ \A i \in 1..k : SubSeq(p, 1, k)[i] = p[i]
  OBVIOUS
<1> QED BY <1>1, <1>2

\* What the line leaves of the l bytes of p: w, of z bytes.
LeftOf(p, l, w, z, lost) ==
  /\ lost \in {"start", "end"} => l = z + 1
  /\ lost \notin {"start", "end"} => l = z
  /\ lost = "start" => \A i \in 1..z : w[i] = p[i + 1]
  /\ lost # "start" => \A i \in 1..z : w[i] = p[i]

LEMMA RemainsBytes ==
  ASSUME NEW m \in Nat, NEW data \in [1..m -> Nat], NEW lost, NEW p \in Seq(Nat), p = Packet(data),
         NEW l \in Nat, l = Len(p)
  PROVE  \E w \in Seq(Nat), z \in Nat :
           w = Remains(data, lost) /\ z = Len(w) /\ LeftOf(p, l, w, z, lost)
<1>1. PICK k \in Nat : l = k + 1
  <2>1. PICK j \in Nat : l = j + 2
    BY PacketBytes
  <2>2. j + 1 \in Nat /\ j + 2 = (j + 1) + 1
    OBVIOUS
  <2> QED BY <2>1, <2>2
<1>2. CASE lost = "start"
  <2>1. Remains(data, lost) = Tail(p)
    BY <1>2 DEF Remains
  <2>2. PICK w \in Seq(Nat) : w = Tail(p) /\ Len(w) = k /\ \A i \in 1..k : w[i] = p[i + 1]
    BY ZenonT(60), <1>1, TailBytes
  <2>3. LeftOf(p, l, w, k, lost)
    BY <1>1, <1>2, <2>2 DEF LeftOf
  <2> QED BY <2>1, <2>2, <2>3
<1>3. CASE lost = "end"
  <2>1. Remains(data, lost) = Front(p)
    BY <1>3 DEF Remains
  <2>2. PICK w \in Seq(Nat) : w = Front(p) /\ Len(w) = k /\ \A i \in 1..k : w[i] = p[i]
    BY ZenonT(60), <1>1, FrontBytes
  <2>3. LeftOf(p, l, w, k, lost)
    BY <1>1, <1>3, <2>2 DEF LeftOf
  <2> QED BY <2>1, <2>2, <2>3
<1>4. CASE lost \notin {"start", "end"}
  <2>1. Remains(data, lost) = p
    BY <1>4 DEF Remains
  <2>2. LeftOf(p, l, p, l, lost)
    BY <1>4 DEF LeftOf
  <2> QED BY <2>1, <2>2
<1> QED BY <1>2, <1>3, <1>4

LEMMA RemainsTyped ==
  ASSUME NEW m \in Nat, NEW data \in [1..m -> Nat], NEW lost
  PROVE  Remains(data, lost) \in Seq(Nat) /\ Len(Remains(data, lost)) \in Nat
<1>1. PICK p \in Seq(Nat) : p = Packet(data)
  BY PacketBytes
<1>2. PICK l \in Nat : l = Len(p)
  BY <1>1
<1>3. PICK w \in Seq(Nat), z \in Nat :
        w = Remains(data, lost) /\ z = Len(w) /\ LeftOf(p, l, w, z, lost)
  BY <1>1, <1>2, RemainsBytes
<1> QED BY <1>3

\* After its first p places buf goes on, up to q, with what is left of a frame.  A
\* frame that has lost its start has no 'S' among its data.
Piece(buf, p, data, lost, q) ==
  /\ q = p + Len(Remains(data, lost))
  /\ Carries(buf, p, Remains(data, lost), Len(Remains(data, lost)))
  /\ lost = "start" => \A k \in DOMAIN data : data[k] # S

LEMMA PieceBytes ==
  ASSUME NEW m \in Nat, NEW data \in [1..m -> Nat], NEW buf, NEW p \in Nat, NEW lost, NEW q \in Nat,
         Piece(buf, p, data, lost, q)
  PROVE  \E l \in Nat :
           /\ l = Len(Body(data))
           /\ lost = "start" => /\ q = p + l + 1 /\ buf[q] = E
                                /\ Carries(buf, p, Body(data), l)
           /\ lost # "start" => buf[p + 1] = S /\ Carries(buf, p + 1, Body(data), l)
           /\ lost = "end" => q = p + 1 + l
           /\ lost \notin {"start", "end"} => q = p + l + 2 /\ buf[q] = E
<1>1. PICK body \in Seq(Nat), l \in Nat, pk \in Seq(Nat) :
        body = Body(data) /\ l = Len(body) /\ pk = Packet(data)
  BY PacketBytes
<1>2. /\ Len(pk) = l + 2 /\ pk[1] = S /\ pk[l + 2] = E /\ \A i \in 1..l : pk[i + 1] = body[i]
  BY <1>1, PacketBytes
<1>k. PICK k \in Nat : k = l + 2
  OBVIOUS
<1>w. PICK w \in Seq(Nat), z \in Nat :
        w = Remains(data, lost) /\ z = Len(w) /\ LeftOf(pk, k, w, z, lost)
  BY <1>1, <1>2, <1>k, RemainsBytes
<1>3. /\ w = Remains(data, lost) /\ z = Len(w)
      /\ lost \in {"start", "end"} => l + 2 = z + 1
      /\ lost \notin {"start", "end"} => l + 2 = z
      /\ lost = "start" => \A i \in 1..z : w[i] = pk[i + 1]
      /\ lost # "start" => \A i \in 1..z : w[i] = pk[i]
  BY <1>k, <1>w DEF LeftOf
<1>4. q = p + z /\ \A i \in 1..z : buf[p + i] = w[i]
  BY <1>3 DEF Piece, Carries
<1>5. CASE lost = "start"
  <2>1. z = l + 1 /\ \A i \in 1..z : w[i] = pk[i + 1]
    <3>1. l + 2 = z + 1
      BY <1>3, <1>5
    <3> QED BY SMTT(30), <1>3, <1>5, <3>1
  <2>2. q = p + l + 1 /\ buf[q] = E
    <3>1. z \in 1..z /\ q = p + z /\ z + 1 = l + 2
      BY <1>4, <2>1
    <3>2. buf[q] = pk[l + 2]
      BY <1>4, <2>1, <3>1
    <3> QED BY <1>2, <2>1, <3>1, <3>2
  <2>3. \A i \in 1..l : buf[p + i] = body[i]
    <3> SUFFICES ASSUME NEW i \in 1..l PROVE buf[p + i] = body[i]
      OBVIOUS
    <3>1. i \in 1..z
      BY <2>1
    <3> QED BY <3>1, <1>2, <1>4, <2>1
  <2> QED BY <1>1, <1>5, <2>2, <2>3 DEF Carries
<1>6. CASE lost # "start"
  <2>1. \A i \in 1..z : buf[p + i] = pk[i]
    BY <1>3, <1>4, <1>6
  <2>2. CASE lost = "end"
    <3>1. z = l + 1 /\ q = p + 1 + l
      <4>1. l + 2 = z + 1
        BY <1>3, <2>2
      <4> QED BY <1>4, <4>1
    <3>2. 1 \in 1..z /\ \A i \in 1..l : i + 1 \in 1..z
      BY <3>1
    <3>3. buf[p + 1] = S /\ \A i \in 1..l : buf[p + (i + 1)] = body[i]
      BY <1>2, <2>1, <3>2
    <3>4. \A i \in 1..l : p + (i + 1) = p + 1 + i
      OBVIOUS
    <3> QED BY <1>1, <2>2, <3>1, <3>3, <3>4 DEF Carries
  <2>3. CASE lost # "end"
    <3>1. z = l + 2 /\ q = p + l + 2
      <4>1. z = l + 2
        BY <1>3, <1>6, <2>3
      <4> QED BY <1>4, <4>1
    <3>2. 1 \in 1..z /\ l + 2 \in 1..z /\ p + (l + 2) = q /\ \A i \in 1..l : i + 1 \in 1..z
      BY <3>1
    <3>3. buf[p + 1] = S /\ buf[q] = E /\ \A i \in 1..l : buf[p + (i + 1)] = body[i]
      BY <1>2, <2>1, <3>2
    <3>4. \A i \in 1..l : p + (i + 1) = p + 1 + i
      OBVIOUS
    <3> QED BY <1>1, <1>6, <2>3, <3>1, <3>3, <3>4 DEF Carries
  <2> QED BY <2>2, <2>3
<1> QED BY <1>5, <1>6

\* The places of s from p to q are those of t from x to y.
Moved(s, p, q, t, x, y) == y + p = x + q /\ \A i \in 1..(q - p) : t[x + i] = s[p + i]

\* A piece may be moved with its bytes.
LEMMA PieceMoved ==
  ASSUME NEW s, NEW t, NEW p \in Nat, NEW q \in Nat, NEW x \in Nat, NEW y \in Nat,
         NEW m \in Nat, NEW data \in [1..m -> Nat], NEW lost, Piece(s, p, data, lost, q),
         Moved(s, p, q, t, x, y)
  PROVE  Piece(t, x, data, lost, y)
<1>1. PICK z \in Nat : z = Len(Remains(data, lost))
  BY RemainsTyped
<1>2. q = p + z
  BY <1>1 DEF Piece
<1>3. y = x + z /\ q - p = z
  BY <1>2 DEF Moved
<1>4. Carries(t, x, Remains(data, lost), z)
  BY <1>1, <1>3 DEF Piece, Carries, Moved
<1> QED BY <1>1, <1>3, <1>4 DEF Piece

\* s is r, which waits for a start.
Same(s, r) ==
  ~s.begin /\ s.escape = r.escape /\ s.received = r.received /\ s.index = r.index /\ s.buf = r.buf

\* Without a start nothing happens.
LEMMA PassedOver ==
  ASSUME NEW n \in Nat, NEW buf \in [1..n -> Nat], NEW a, Run(a, n, buf),
         NEW p \in Nat, NEW z \in Nat, p + z <= n, \A i \in 1..z : buf[p + i] # S, ~a[p].begin
  PROVE  Same(a[p + z], a[p])
<1> DEFINE T == {k \in Nat : k \in 0..z => Same(a[p + k], a[p])}
<1>1. 0 \in T
  <2>1. p + 0 = p
    OBVIOUS
  <2> QED BY <2>1 DEF Same
<1>2. ASSUME NEW k \in Nat, k \in T PROVE k + 1 \in T
  <2> SUFFICES ASSUME k + 1 \in 0..z PROVE Same(a[p + (k + 1)], a[p])
    OBVIOUS
  <2>1. PICK i \in Nat, j \in Nat : i = p + k /\ j = p + (k + 1)
    OBVIOUS
  <2>2. k \in 0..z /\ k + 1 \in 1..z /\ i \in 0..n /\ j \in 1..n /\ j - 1 = i
    BY <2>1
  <2>3. Same(a[i], a[p])
    BY <1>2, <2>1, <2>2
  <2>4. buf[j] # S /\ buf[j] \in Nat
    BY <2>1, <2>2
  <2>5. a[i] \in Parsers(n) /\ a[j] = Parsed(a[i], buf[j])
    BY <2>2 DEF Run
  <2>6. PICK r \in Parsers(n), b \in Nat : r = a[i] /\ b = buf[j] /\ ~r.begin
    BY <2>3, <2>4, <2>5 DEF Same
  <2>7. PICK s : s = a[j]
    OBVIOUS
  <2>8. s.begin = (b = S) /\ s.escape = r.escape /\ s.received = r.received /\ s.index = r.index
    BY <2>5, <2>6, <2>7, Passed
  <2>9. s.buf = r.buf
    BY <2>5, <2>6, <2>7, Passed
  <2> QED BY <2>1, <2>3, <2>4, <2>6, <2>7, <2>8, <2>9 DEF Same
<1> HIDE DEF T
<1>3. z \in T
  BY <1>1, <1>2, SetInduction
<1> QED BY <1>3 DEF T

\* After p bytes: what the loop has stored, if anything, are data of D.
Seen(s, p, m, D) ==
  /\ Between(s, m)
  /\ s.begin \/ s.received => m <= p /\ \E d \in D : Holds(s, d, m)

\* A piece leaves its own data, or those of an earlier one.
LEMMA PieceParsed ==
  ASSUME NEW n \in Nat, NEW buf \in [1..n -> Nat], NEW a, Run(a, n, buf),
         NEW m \in Nat, NEW data \in [1..m -> Nat], NEW p \in Nat, NEW lost, NEW q \in Nat,
         Piece(buf, p, data, lost, q), q <= n, NEW D, Seen(a[p], p, m, D)
  PROVE  Seen(a[q], q, m, D \cup {data})
<1>1. PICK l \in Nat :
        /\ l = Len(Body(data))
        /\ lost = "start" => /\ q = p + l + 1 /\ buf[q] = E
                             /\ Carries(buf, p, Body(data), l)
        /\ lost # "start" => buf[p + 1] = S /\ Carries(buf, p + 1, Body(data), l)
        /\ lost = "end" => q = p + 1 + l
        /\ lost \notin {"start", "end"} => q = p + l + 2 /\ buf[q] = E
  BY PieceBytes
<1>2. Between(a[p], m)
  BY DEF Seen
<1>3. CASE lost = "end"
  <2>1. Opens(buf, p, data, q)
    BY <1>1, <1>3 DEF Opens
  <2>2. m <= q /\ a[q].begin /\ Between(a[q], m) /\ Holds(a[q], data, m)
    BY <1>2, <2>1, Opened
  <2> QED BY <2>2 DEF Seen
<1>4. CASE lost \notin {"start", "end"}
  <2>1. PICK e \in Nat : e = p + 1 + l /\ q = e + 1
    <3>1. p + 1 + l \in Nat /\ q = (p + 1 + l) + 1
      BY <1>1, <1>4
    <3> QED BY <3>1
  <2>2. Opens(buf, p, data, e) /\ e <= n /\ buf[q] = E
    BY <1>1, <1>4, <2>1 DEF Opens
  <2>3. m <= e /\ a[e].begin /\ Between(a[e], m) /\ Holds(a[e], data, m)
    BY <1>2, <2>2, Opened
  <2>4. ~a[e].escape
    BY <2>3 DEF Between
  <2>5. ~a[q].begin /\ Between(a[q], m) /\ a[q].received /\ Holds(a[q], data, m)
    <3>1. Ends(buf, e, q)
      BY <2>1, <2>2 DEF Ends
    <3> QED BY ZenonT(60), <2>3, <2>4, <3>1, Closed
  <2>6. m <= q
    BY <2>1, <2>3
  <2> QED BY <2>5, <2>6 DEF Seen
<1>5. CASE lost = "start"
  <2>1. PICK e \in Nat : e = p + l /\ q = e + 1
    <3>1. p + l \in Nat /\ q = (p + l) + 1
      BY <1>1, <1>5
    <3> QED BY <3>1
  <2>2. Carries(buf, p, Body(data), l) /\ buf[q] = E
    BY <1>1, <1>5
  <2>3. p + l <= n /\ p <= q
    BY <2>1
  <2>4. CASE a[p].begin
    <3>1. PICK d \in D : Holds(a[p], d, m)
      BY <2>4 DEF Seen
    <3>2. ~a[p].escape /\ a[p].index = m /\ m <= p
      BY <2>4 DEF Seen, Between
    <3>3. InBody(a[p + l], a[p], data, m)
      <4>1. a[p].index <= p
        BY <3>2
      <4> QED BY <1>1, <2>2, <2>3, <2>4, <3>2, <4>1, BodyParsed
    <3>4. PICK r, s : r = a[p] /\ s = a[e]
      OBVIOUS
    <3>5. InBody(s, r, data, m)
      BY <2>1, <3>3, <3>4
    <3>6. s.begin /\ ~s.escape /\ Holds(s, d, m)
      BY <3>1, <3>2, <3>4, <3>5 DEF InBody, Holds
    <3>7. ~a[q].begin /\ Between(a[q], m) /\ a[q].received /\ Holds(a[q], d, m)
      <4>1. Ends(buf, e, q)
        BY <2>1, <2>2 DEF Ends
      <4>2. a[e].begin /\ ~a[e].escape /\ Holds(a[e], d, m)
        BY <3>4, <3>6
      <4> QED BY ZenonT(60), <4>1, <4>2, Closed
    <3>8. m <= q
      BY <2>3, <3>2
    <3> QED BY <3>7, <3>8 DEF Seen
  <2>5. CASE ~a[p].begin
    <3>1. PICK z \in Nat : z = l + 1
      OBVIOUS
    <3>2. q = p + z /\ p + z <= n
      BY <2>1, <3>1
    <3>3. \A i \in 1..z : buf[p + i] # S
      <4> SUFFICES ASSUME NEW i \in 1..z PROVE buf[p + i] # S
        OBVIOUS
      <4>1. CASE i \in 1..l
        <5>1. \A k \in 1..m : data[k] # S
          BY <1>5 DEF Piece
        <5>2. Body(data)[i] # S
          BY <1>1, <4>1, <5>1, BodyBytes
        <5> QED BY <2>2, <4>1, <5>2 DEF Carries
      <4>2. CASE i = l + 1
        <5>1. p + i = q
          BY <3>1, <3>2, <4>2
        <5>2. buf[q] # S
          BY <2>2 DEF S, E
        <5> QED BY <5>1, <5>2
      <4> QED BY <3>1, <4>1, <4>2
    <3>4. PICK r, s : r = a[p] /\ s = a[q]
      OBVIOUS
    <3>5. Same(s, r)
      <4>1. Same(a[p + z], a[p])
        BY <2>5, <3>2, <3>3, PassedOver
      <4> QED BY <3>2, <3>4, <4>1
    <3>6. ~s.begin /\ Between(s, m) /\ s.received = r.received
      BY <1>2, <2>5, <3>4, <3>5 DEF Same, Between
    <3>7. ASSUME s.received PROVE m <= q /\ \E d \in D : Holds(s, d, m)
      <4>1. r.received
        BY <3>6, <3>7
      <4>2. PICK d \in D : Holds(r, d, m) /\ m <= p
        BY <3>4, <4>1 DEF Seen
      <4>3. Holds(s, d, m)
        BY <3>5, <4>2 DEF Holds, Same
      <4>4. m <= q
        BY <2>3, <4>2
      <4> QED BY <4>3, <4>4
    <3> QED BY <3>4, <3>6, <3>7 DEF Seen
  <2> QED BY <2>4, <2>5
<1> QED BY <1>3, <1>4, <1>5

Pieces(buf, pos, data, z, n, m) ==
  /\ pos \in [0..z -> 0..n] /\ pos[0] = 0 /\ pos[z] = n /\ data \in [1..z -> [1..m -> Nat]]
  /\ \A j \in 1..z : \E lost : Piece(buf, pos[j - 1], data[j], lost, pos[j])

\* The bytes of several pieces: what parseBuffer() finds in them, it finds whole.
LEMMA PiecesParsed ==
  ASSUME NEW n \in Nat, NEW buf \in [1..n -> Nat], NEW m \in Nat, NEW z \in Nat,
         NEW data, NEW pos, Pieces(buf, pos, data, z, n, m), parseBuffer(buf).received
  PROVE  \E j \in 1..z : FirstBytes(parseBuffer(buf).buf, m) = data[j]
<1>0. /\ pos \in [0..z -> 0..n] /\ pos[0] = 0 /\ pos[z] = n /\ data \in [1..z -> [1..m -> Nat]]
      /\ \A j \in 1..z : \E lost : Piece(buf, pos[j - 1], data[j], lost, pos[j])
  BY DEF Pieces
<1>1. PICK a : Run(a, n, buf) /\ parseBuffer(buf) = a[n]
  BY RunExists
<1> DEFINE D(j) == {data[i] : i \in 1..j}
           T == {j \in Nat : j \in 0..z => Seen(a[pos[j]], pos[j], m, D(j))}
<1>2. 0 \in T
  <2>1. PICK s : s = Fresh(buf)
    OBVIOUS
  <2>2. ~s.begin /\ ~s.received /\ ~s.escape /\ s.index = 0
    BY <2>1 DEF Fresh
  <2>3. a[pos[0]] = s
    BY <1>0, <1>1, <2>1 DEF Run
  <2>4. Seen(s, pos[0], m, D(0))
    BY <2>2 DEF Seen, Between
  <2> QED BY <2>3, <2>4
<1>3. ASSUME NEW j \in Nat, j \in T PROVE j + 1 \in T
  <2> SUFFICES ASSUME j + 1 \in 0..z PROVE Seen(a[pos[j + 1]], pos[j + 1], m, D(j + 1))
    OBVIOUS
  <2>1. j \in 0..z /\ j + 1 \in 1..z /\ (j + 1) - 1 = j
    OBVIOUS
  <2>2. PICK p \in Nat, q \in Nat : p = pos[j] /\ q = pos[j + 1] /\ q <= n
    <3>1. pos[j] \in 0..n /\ pos[j + 1] \in 0..n
      BY <1>0, <2>1
    <3> QED BY <3>1
  <2>3. PICK d \in [1..m -> Nat] : d = data[j + 1]
    BY <1>0, <2>1
  <2>4. PICK lost : Piece(buf, p, d, lost, q)
    BY <1>0, <2>1, <2>2, <2>3
  <2>5. Seen(a[p], p, m, D(j))
    BY <1>3, <2>1, <2>2
  <2>6. PICK C : C = D(j)
    OBVIOUS
  <2>7. Seen(a[q], q, m, C \cup {d})
    BY <1>1, <2>2, <2>4, <2>5, <2>6, PieceParsed
  <2>8. C \cup {d} = D(j + 1)
    <3>1. \A i : i \in 1..(j + 1) <=> i \in 1..j \/ i = j + 1
      OBVIOUS
    <3> QED BY <2>3, <2>6, <3>1
  <2> QED BY <2>2, <2>7, <2>8
<1> HIDE DEF T
<1>4. z \in T
  BY <1>2, <1>3, SetInduction
<1>5. PICK s : s = a[n]
  OBVIOUS
<1>6. Seen(s, n, m, D(z))
  <2>1. Seen(a[pos[z]], pos[z], m, D(z))
    BY <1>4 DEF T
  <2>2. PICK C : C = D(z)
    OBVIOUS
  <2>3. pos[z] = n
    BY <1>0
  <2> QED BY <1>5, <2>1, <2>2, <2>3
<1>7. m <= n /\ \E d \in D(z) : Holds(s, d, m)
  BY <1>1, <1>5, <1>6 DEF Seen
<1>8. PICK j \in 1..z : Holds(s, data[j], m)
  BY <1>7
<1>9. s.buf \in [1..n -> Nat]
  <2>1. n \in 0..n
    OBVIOUS
  <2>2. a[n] \in Parsers(n)
    BY <1>1, <2>1 DEF Run
  <2> QED BY <1>5, <2>2 DEF Parsers
<1>10. PICK d \in [1..m -> Nat] : d = data[j]
  BY <1>0
<1>11. FirstBytes(s.buf, m) = d
  BY <1>7, <1>8, <1>9, <1>10, PrefixHeld
<1> QED BY <1>1, <1>5, <1>10, <1>11

-----------------------------------------------------------------------------
(* What is written to the line. *)

Scans == {Outputs[1], Outputs[2]}

\* The thread holds ioLock while it copies, and no longer.
Locked ==
  /\ thread \in {"send", "copy out", "write", "read", "received", "copy in"}
  /\ ioLock \in {"free", "thread"}
  /\ ioLock = "thread" <=> thread \in {"copy out", "copy in"}

\* What the thread has of the outputs: nothing, their first bytes, all of them.
Copied ==
  /\ thread \in {"send", "read"} => temp = << >>
  /\ thread = "copy out" => /\ temp \in Seq(Nat) /\ Len(temp) <= OutputSize
                            /\ \A i \in 1..Len(temp) : temp[i] = output_data[i]
  /\ thread = "write" => temp \in Scans

OutputsKept ==
  /\ scanNo \in {1, 2} /\ output_data \in Scans
  /\ Locked /\ Copied
  /\ \E d \in Scans : sent = Packet(d)

LEMMA ScansTyped == Scans \subseteq [1..OutputSize -> Nat] /\ OutputSize \in Nat
<1>1. PICK F : F = [1..OutputSize -> Nat]
  OBVIOUS
<1>2. PICK s \in Seq(F) : s = Outputs /\ Len(s) = 2
  BY <1>1, LinkAssumption
<1>3. s[1] \in F /\ s[2] \in F
  BY <1>2
<1> QED BY <1>1, <1>2, <1>3, LinkAssumption DEF Scans

LEMMA OutputsInit == Init => OutputsKept
<1> SUFFICES ASSUME Init PROVE OutputsKept
  OBVIOUS
<1>1. output_data \in Scans /\ sent = Packet(output_data)
  BY DEF Init, Scans
<1>2. scanNo = 1 /\ thread = "send" /\ ioLock = "free" /\ temp = << >>
  BY DEF Init
<1>3. Locked /\ Copied
  BY <1>2 DEF Locked, Copied
<1> QED BY <1>1, <1>2, <1>3 DEF OutputsKept

LEMMA OutputsStay ==
  ASSUME OutputsKept, UNCHANGED <<output_data, ioLock, thread, temp, sent>>, scanNo' \in {1, 2}
  PROVE  OutputsKept'
BY DEF OutputsKept, Locked, Copied, Scans

\* The thread's steps leave the outputs to the scan.
LEMMA OutputsMove ==
  ASSUME OutputsKept, UNCHANGED <<output_data, scanNo>>, Locked', Copied',
         \E d \in Scans : sent' = Packet(d)
  PROVE  OutputsKept'
BY DEF OutputsKept, Scans

LEMMA OutputsNext == OutputsKept /\ [Next]_vars => OutputsKept'
<1> SUFFICES ASSUME OutputsKept, [Next]_vars PROVE OutputsKept'
  OBVIOUS
<1>0. /\ scanNo \in {1, 2} /\ output_data \in Scans /\ Scans' = Scans
      /\ Locked /\ Copied /\ \E d \in Scans : sent = Packet(d)
  BY DEF OutputsKept, Scans
<1>1. ASSUME NEW p \in Payloads, NEW lost \in Losses, BoardSends(p, lost) PROVE OutputsKept'
  BY <1>1, <1>0, OutputsStay DEF BoardSends, scanVars
<1>2. CASE updateBuffersIn
  BY <1>2, <1>0, OutputsStay DEF updateBuffersIn
<1>3. CASE RunProgram
  <2>1. 3 - scanNo \in {1, 2}
    BY <1>0
  <2> QED BY <1>3, <2>1, OutputsStay DEF RunProgram
<1>4. CASE updateBuffersOut
  <2>1. output_data' \in Scans /\ thread # "copy out" /\ scanNo' = scanNo
    BY <1>4, <1>0 DEF updateBuffersOut, Scans, Locked
  <2>2. UNCHANGED <<ioLock, thread, temp, sent>>
    BY <1>4 DEF updateBuffersOut
  <2>3. Locked' /\ Copied'
    BY <2>1, <2>2, <1>0 DEF Locked, Copied
  <2> QED BY <2>1, <2>2, <2>3, <1>0 DEF OutputsKept
<1>5. CASE TakeLock
  <2>1. UNCHANGED <<output_data, scanNo, sent>>
    BY <1>5 DEF TakeLock, scanVars
  <2>2. thread' = "copy out" => temp' = << >>
    BY <1>5, <1>0 DEF TakeLock, Copied
  <2>3. << >> \in Seq(Nat) /\ Len(<< >>) = 0 /\ 0 <= OutputSize
    BY ScansTyped
  <2>4. thread' \in {"copy out", "copy in"} /\ ioLock' = "thread"
    BY <1>5 DEF TakeLock
  <2>5. Locked'
    BY <2>4 DEF Locked
  <2>6. \A i \in 1..0 : FALSE
    OBVIOUS
  <2>7. Copied'
    BY <2>2, <2>3, <2>4, <2>6 DEF Copied
  <2> QED BY <2>1, <2>5, <2>7, <1>0, OutputsMove
<1>6. CASE CopyOut
  <2>0. UNCHANGED <<output_data, scanNo, sent, ioLock, thread>> /\ thread = "copy out"
    BY <1>6 DEF CopyOut, scanVars
  <2>1. PICK k \in Nat, d \in [1..OutputSize -> Nat] : k = Len(temp) /\ d = output_data
    <3>1. \A u \in Seq(Nat) : Len(u) \in Nat
      OBVIOUS
    <3>2. temp \in Seq(Nat)
      BY <2>0, <1>0 DEF Copied
    <3>3. PICK k \in Nat : k = Len(temp)
      BY <3>1, <3>2
    <3> QED BY <3>3, <1>0, ScansTyped
  <2>2. k + 1 \in 1..OutputSize /\ d[k + 1] \in Nat /\ temp' = Append(temp, d[k + 1])
    <3>1. k < OutputSize /\ temp' = Append(temp, d[k + 1])
      BY <1>6, <2>1 DEF CopyOut
    <3>2. k + 1 \in 1..OutputSize
      BY <3>1, ScansTyped
    <3> QED BY <3>1, <3>2
  <2>3. PICK c \in Nat : c = d[k + 1]
    BY <2>2
  <2>4. PICK s \in Seq(Nat) : s = temp /\ \A i \in 1..k : s[i] = d[i]
    BY <2>0, <2>1, <1>0 DEF Copied
  <2>5. /\ Append(s, c) \in Seq(Nat) /\ Len(Append(s, c)) = k + 1 /\ Append(s, c)[k + 1] = c
        /\ \A i \in 1..k : Append(s, c)[i] = s[i]
    BY <2>1, <2>4
  <2>6. temp' = Append(s, c)
    BY <2>2, <2>3, <2>4
  <2>7. \A i \in 1..(k + 1) : temp'[i] = d[i]
    <3> SUFFICES ASSUME NEW i \in 1..(k + 1) PROVE temp'[i] = d[i]
      OBVIOUS
    <3>1. CASE i \in 1..k
      BY <3>1, <2>4, <2>5, <2>6
    <3>2. CASE i = k + 1
      BY <3>2, <2>3, <2>5, <2>6
    <3> QED BY <3>1, <3>2
  <2>8. temp' \in Seq(Nat) /\ Len(temp') = k + 1 /\ k + 1 <= OutputSize
    BY <2>2, <2>5, <2>6, ScansTyped
  <2>9. output_data' = d /\ thread' = "copy out"
    BY <2>0, <2>1
  <2>10. Copied'
    BY <2>7, <2>8, <2>9 DEF Copied
  <2>11. Locked'
    BY <2>0, <1>0 DEF Locked
  <2> QED BY <2>0, <2>10, <2>11, <1>0, OutputsMove
<1>7. CASE CopyIn
  <2>1. UNCHANGED <<output_data, scanNo, sent, ioLock, thread>> /\ thread = "copy in"
    BY <1>7 DEF CopyIn, scanVars
  <2>2. Locked' /\ Copied'
    BY <2>1, <1>0 DEF Locked, Copied
  <2> QED BY <2>1, <2>2, <1>0, OutputsMove
<1>8. CASE ReleaseLock
  <2>1. UNCHANGED <<output_data, scanNo, sent, temp>> /\ ioLock' = "free" /\ thread' \in {"write", "send"}
    BY <1>8 DEF ReleaseLock, scanVars
  <2>2. Locked'
    BY <2>1 DEF Locked
  <2>3. CASE thread = "copy out"
    <3>1. temp \in Seq(Nat) /\ Len(temp) = OutputSize /\ thread' = "write"
      BY <1>8, <2>3, <1>0 DEF ReleaseLock, Copied
    <3>2. temp \in [1..OutputSize -> Nat] /\ \A i \in 1..OutputSize : temp[i] = output_data[i]
      BY <2>3, <3>1, <1>0, Unsized, ScansTyped DEF Copied
    <3>3. PICK d \in [1..OutputSize -> Nat], t \in [1..OutputSize -> Nat] :
            d = output_data /\ t = temp
      BY <3>2, <1>0, ScansTyped
    <3>4. t = d
      <4>1. \A i \in 1..OutputSize : t[i] = d[i]
        BY <3>2, <3>3
      <4>2. t = [i \in 1..OutputSize |-> t[i]] /\ d = [i \in 1..OutputSize |-> d[i]]
        BY <3>3
      <4> QED BY <4>1, <4>2
    <3>5. Copied'
      BY <2>1, <3>1, <3>3, <3>4, <1>0 DEF Copied
    <3> QED BY <2>1, <2>2, <3>5, <1>0, OutputsMove
  <2>4. CASE thread = "copy in"
    <3>1. temp = << >> /\ thread' = "send"
      BY <1>8, <2>4 DEF ReleaseLock
    <3>2. Copied'
      BY <2>1, <3>1 DEF Copied
    <3> QED BY <2>1, <2>2, <3>2, <1>0, OutputsMove
  <2> QED BY <1>8, <2>3, <2>4 DEF ReleaseLock
<1>9. CASE WritePacket
  <2>1. /\ UNCHANGED <<output_data, scanNo, ioLock>> /\ thread = "write" /\ thread' = "read"
        /\ sent' = Packet(temp) /\ temp' = << >>
    BY <1>9 DEF WritePacket, scanVars
  <2>2. Locked' /\ Copied' /\ temp \in Scans
    BY <2>1, <1>0 DEF Locked, Copied
  <2> QED BY <2>1, <2>2, OutputsMove
<1>10. CASE ReadSome
  <2>1. /\ thread = "read" /\ UNCHANGED <<output_data, scanNo, sent, ioLock>>
        /\ thread' = "received" \/ (thread' = "send" /\ temp' = temp)
    BY <1>10 DEF ReadSome, Receive, scanVars
  <2>2. Locked' /\ Copied'
    BY <2>1, <1>0 DEF Locked, Copied
  <2> QED BY <2>1, <2>2, <1>0, OutputsMove
<1>11. CASE ReadNothing
  <2>1. /\ thread = "read" /\ UNCHANGED <<output_data, scanNo, sent, ioLock>>
        /\ thread' = "send" /\ temp' = temp
    BY <1>11 DEF ReadNothing, scanVars
  <2>2. Locked' /\ Copied'
    BY <2>1, <1>0 DEF Locked, Copied
  <2> QED BY <2>1, <2>2, <1>0, OutputsMove
<1>12. CASE UNCHANGED vars
  BY <1>12, <1>0, OutputsStay DEF vars
<1> QED
  BY <1>1, <1>2, <1>3, <1>4, <1>5, <1>6, <1>7, <1>8, <1>9, <1>10, <1>11, <1>12
  DEF Next, exchangeData, Scan

\* What exchangeData() writes to the line decodes to the outputs of one scan,
\* of whatever size and bytes: updateBuffersOut() cannot come between the bytes
\* of the copy, and parseBuffer() undoes sendPacket().
THEOREM LinkOutputsOfOneScan == Spec => []OutputsOfOneScan
<1>1. Init => OutputsKept
  BY OutputsInit
<1>2. OutputsKept /\ [Next]_vars => OutputsKept'
  BY OutputsNext
<1>3. OutputsKept => OutputsOfOneScan
  <2> SUFFICES ASSUME OutputsKept PROVE OutputsOfOneScan
    OBVIOUS
  <2>1. PICK d \in Scans : sent = Packet(d)
    BY DEF OutputsKept
  <2>2. d \in [1..OutputSize -> Nat] /\ OutputSize \in Nat
    BY ScansTyped
  <2>3. LET result == parseBuffer(sent) IN
        result.received /\ FirstBytes(result.buf, OutputSize) = d
    BY <2>1, <2>2, RoundTrip
  <2> QED BY <2>1, <2>3 DEF OutputsOfOneScan, Scans
<1> QED BY <1>1, <1>2, <1>3, PTL DEF Spec

-----------------------------------------------------------------------------
(* What comes from the line. *)

\* str is what the line left of the z frames of f, one after the other; of frame
\* k it ends at place at[k].
Slices(str, at, f, z, m) ==
  /\ at \in [0..z -> Nat] /\ f \in [1..z -> [1..m -> Nat]]
  /\ \A j, k \in 0..z : j < k => at[j] < at[k]
  /\ \A k \in 1..z : \E lost : Piece(str, at[k - 1], f[k], lost, at[k])

\* buf is the next n bytes of str after place b.
Taken(buf, str, b, n) == \A i \in 1..n : buf[i] = str[b + i]

LEMMA Within ==
  ASSUME NEW b \in Nat, NEW n \in Nat, NEW w \in Nat, b <= w, w <= b + n
  PROVE  w - b \in 0..n
OBVIOUS

LEMMA Shifted ==
  ASSUME NEW b \in Nat, NEW n \in Nat, NEW p \in Nat, NEW q \in Nat, NEW x \in Nat, NEW v \in Nat,
         x = p - b, v = q - b, v <= n
  PROVE  v + p = x + q /\ \A i \in 1..(q - p) : x + i \in 1..n /\ b + (x + i) = p + i
OBVIOUS

\* What lies between two places of the cut.
LEMMA Rises ==
  ASSUME NEW str, NEW at, NEW f, NEW z \in Nat, NEW m, Slices(str, at, f, z, m),
         NEW lo \in Nat, NEW hi \in Nat, hi <= z, NEW k \in Nat, lo <= k, k <= hi
  PROVE  at[k] \in Nat /\ at[lo] \in Nat /\ at[hi] \in Nat /\ at[lo] <= at[k] /\ at[k] <= at[hi]
<1>1. lo \in 0..z /\ hi \in 0..z /\ k \in 0..z
  OBVIOUS
<1>2. at[k] \in Nat /\ at[lo] \in Nat /\ at[hi] \in Nat
  BY <1>1 DEF Slices
<1>3. lo < k => at[lo] < at[k]
  BY <1>1 DEF Slices
<1>4. k < hi => at[k] < at[hi]
  BY <1>1 DEF Slices
<1>5. k = lo \/ lo < k
  OBVIOUS
<1>6. k = hi \/ k < hi
  OBVIOUS
<1>7. at[lo] <= at[k]
  BY <1>2, <1>3, <1>5
<1>8. at[k] <= at[hi]
  BY <1>2, <1>4, <1>6
<1> QED BY <1>2, <1>7, <1>8

\* What parseBuffer() finds in the frames after the lo-th, up to the hi-th, is one of
\* them.
LEMMA SlicesParsed ==
  ASSUME NEW str, NEW at, NEW f, NEW z \in Nat, NEW m \in Nat, Slices(str, at, f, z, m),
         NEW lo \in Nat, NEW hi \in Nat, lo < hi, hi <= z, NEW n \in Nat, at[hi] = at[lo] + n,
         NEW buf \in [1..n -> Nat], Taken(buf, str, at[lo], n),
         parseBuffer(buf).received
  PROVE  \E k \in (lo + 1)..hi : FirstBytes(parseBuffer(buf).buf, m) = f[k]
<1>1. PICK y \in Nat : y = hi - lo
  OBVIOUS
<1>b. PICK b \in Nat : b = at[lo]
  <2>1. lo <= lo /\ lo <= hi
    OBVIOUS
  <2> QED BY <2>1, Rises
<1> DEFINE pos == [j \in 0..y |-> at[lo + j] - b]
           data == [j \in 1..y |-> f[lo + j]]
<1> HIDE DEF pos, data
<1>2. ASSUME NEW j \in 0..y PROVE at[lo + j] - b \in 0..n /\ pos[j] = at[lo + j] - b
  <2>1. PICK k \in Nat : k = lo + j /\ lo <= k /\ k <= hi
    BY <1>1
  <2>2. at[k] \in Nat /\ b <= at[k] /\ at[k] <= at[hi]
    BY <1>b, <2>1, Rises
  <2>3. PICK w \in Nat : w = at[k]
    BY <2>2
  <2>4. w - b \in 0..n
    BY <1>b, <2>2, <2>3, Within
  <2> QED BY <2>1, <2>3, <2>4 DEF pos
<1>3. pos \in [0..y -> 0..n]
  BY <1>2 DEF pos
<1>4. data \in [1..y -> [1..m -> Nat]] /\ \A j \in 1..y : data[j] = f[lo + j]
  <2>1. \A j \in 1..y : lo + j \in 1..z
    BY <1>1
  <2>2. \A j \in 1..y : f[lo + j] \in [1..m -> Nat]
    BY <2>1 DEF Slices
  <2> QED BY <2>2 DEF data
<1>5. pos[0] = 0 /\ pos[y] = n
  <2>1. lo + 0 = lo /\ lo + y = hi /\ 0 \in 0..y /\ y \in 0..y
    BY <1>1
  <2>2. b - b = 0 /\ (b + n) - b = n
    OBVIOUS
  <2> QED BY <1>2, <1>b, <2>1, <2>2
<1>6. ASSUME NEW j \in 1..y PROVE \E lost : Piece(buf, pos[j - 1], data[j], lost, pos[j])
  <2>1. PICK k \in Nat, i \in Nat : k = lo + j /\ i = j - 1 /\ k \in 1..z /\ k - 1 = lo + i
    BY <1>1
  <2>2. PICK d \in [1..m -> Nat] : d = f[k]
    BY <2>1 DEF Slices
  <2>3. PICK lost : Piece(str, at[k - 1], d, lost, at[k])
    BY <2>1, <2>2 DEF Slices
  <2>4. i \in 0..y /\ j \in 0..y
    BY <2>1
  <2>5. PICK p \in Nat, q \in Nat : p = at[k - 1] /\ q = at[k]
    <3>1. k - 1 \in 0..z /\ k \in 0..z
      BY <2>1
    <3> QED BY <3>1 DEF Slices
  <2>6. PICK x \in Nat, v \in Nat : x = pos[i] /\ v = pos[j] /\ v <= n
    <3>1. pos[i] \in 0..n /\ pos[j] \in 0..n
      BY <1>3, <2>4
    <3> QED BY <3>1
  <2>7. x = p - b /\ v = q - b
    BY <1>2, <2>1, <2>4, <2>5, <2>6
  <2>8. v + p = x + q /\ \A c \in 1..(q - p) : x + c \in 1..n /\ b + (x + c) = p + c
    BY <2>6, <2>7, Shifted
  <2>9. \A c \in 1..(q - p) : buf[x + c] = str[p + c]
    BY <1>b, <2>8 DEF Taken
  <2>10. Piece(buf, x, d, lost, v)
    <3>1. Moved(str, p, q, buf, x, v)
      BY <2>8, <2>9 DEF Moved
    <3>2. Piece(str, p, d, lost, q)
      BY <2>3, <2>5
    <3> QED BY <3>1, <3>2, PieceMoved
  <2>11. data[j] = d
    BY <1>4, <2>1, <2>2
  <2> QED BY <2>1, <2>6, <2>10, <2>11
<1>7. PICK j \in 1..y : FirstBytes(parseBuffer(buf).buf, m) = data[j]
  <2>1. Pieces(buf, pos, data, y, n, m)
    BY <1>3, <1>4, <1>5, <1>6 DEF Pieces
  <2> QED BY <2>1, PiecesParsed
<1>8. lo + j \in (lo + 1)..hi
  BY <1>1
<1> QED BY <1>4, <1>7, <1>8

LEMMA RemainsSome ==
  ASSUME NEW m \in Nat, NEW data \in [1..m -> Nat], NEW lost
  PROVE  Len(Remains(data, lost)) >= 1
<1>1. PICK p \in Seq(Nat), k \in Nat : p = Packet(data) /\ Len(p) = k + 2
  BY PacketBytes
<1>2. PICK l \in Nat : l = k + 2
  OBVIOUS
<1>3. PICK w \in Seq(Nat), z \in Nat :
        w = Remains(data, lost) /\ z = Len(w) /\ LeftOf(p, l, w, z, lost)
  BY <1>1, <1>2, RemainsBytes
<1>4. l = z + 1 \/ l = z
  BY <1>3 DEF LeftOf
<1>5. z >= 1
  BY <1>2, <1>4
<1> QED BY <1>3, <1>5

LEMMA OneMore ==
  ASSUME NEW D, NEW z \in Nat, NEW f \in Seq(D), Len(f) = z, NEW d \in D
  PROVE  /\ Append(f, d) \in Seq(D) /\ Len(Append(f, d)) = z + 1
         /\ Append(f, d) \in [1..(z + 1) -> D]
         /\ \A k \in 1..z : Append(f, d)[k] = f[k] /\ f[k] \in D
         /\ Append(f, d)[z + 1] = d
<1>0. Append(f, d) \in Seq(D) /\ Len(Append(f, d)) = Len(f) + 1
  OBVIOUS
<1>1. PICK g \in Seq(D) : g = Append(f, d) /\ Len(g) = z + 1
  BY <1>0
<1>2. \A k \in 1..z : g[k] = f[k] /\ f[k] \in D
  BY <1>1
<1>3. g[z + 1] = d
  BY <1>1
<1>4. g \in [1..(z + 1) -> D]
  <2>1. PICK y \in Nat : y = z + 1 /\ Len(g) = y
    BY <1>1
  <2>2. g \in [1..y -> D]
    BY <2>1
  <2> QED BY <2>1, <2>2
<1> QED BY <1>1, <1>2, <1>3, <1>4

LEMMA OneNumberMore ==
  ASSUME NEW z \in Nat, NEW f \in Seq(Nat), Len(f) = z, NEW d \in Nat
  PROVE  /\ Append(f, d) \in [1..(z + 1) -> Nat]
         /\ \A k \in 1..z : Append(f, d)[k] = f[k]
         /\ Append(f, d)[z + 1] = d
BY OneMore

\* t and bt go on where str and at stop, with the bytes of w.
Longer(str, at, z, t, bt, w) ==
  /\ bt \in [0..(z + 1) -> Nat] /\ bt[z + 1] = at[z] + Len(w) /\ \A k \in 0..z : bt[k] = at[k]
  /\ \A i \in 1..at[z] : t[i] = str[i]
  /\ \A i \in 1..Len(w) : t[at[z] + i] = w[i]

LEMMA LongerExists ==
  ASSUME NEW z \in Nat, NEW str, NEW at \in [0..z -> Nat], NEW w, Len(w) \in Nat
  PROVE  \E t, bt : Longer(str, at, z, t, bt, w)
<1>1. PICK c \in Nat, x \in Nat : c = at[z] /\ x = Len(w)
  OBVIOUS
<1> DEFINE t == [i \in Nat |-> IF i <= c THEN str[i] ELSE w[i - c]]
           bt == [k \in 0..(z + 1) |-> IF k = z + 1 THEN c + x ELSE at[k]]
<1>2. bt \in [0..(z + 1) -> Nat]
  <2>1. \A k \in 0..(z + 1) : k # z + 1 => k \in 0..z
    OBVIOUS
  <2>2. c + x \in Nat /\ \A k \in 0..z : at[k] \in Nat
    OBVIOUS
  <2> QED BY <2>1, <2>2
<1>3. bt[z + 1] = c + x /\ \A k \in 0..z : bt[k] = at[k]
  <2>1. z + 1 \in 0..(z + 1) /\ \A k \in 0..z : k \in 0..(z + 1) /\ k # z + 1
    OBVIOUS
  <2> QED BY <2>1
<1>4. \A i \in 1..c : t[i] = str[i]
  <2>1. \A i \in 1..c : i \in Nat /\ i <= c
    OBVIOUS
  <2> QED BY <2>1
<1>5. \A i \in 1..x : t[c + i] = w[i]
  <2>1. \A i \in 1..x : c + i \in Nat /\ ~(c + i <= c) /\ (c + i) - c = i
    OBVIOUS
  <2> QED BY <2>1
<1> HIDE DEF t, bt
<1>6. Longer(str, at, z, t, bt, w)
  BY <1>1, <1>2, <1>3, <1>4, <1>5 DEF Longer
<1> QED BY <1>6

\* A frame that has lost its start has no 'S' among its data.
Unmarked(d, lost, m) == lost = "start" => \A k \in 1..m : d[k] # S

Follows(g, f, z) == \A k \in 1..z : g[k] = f[k]

LEMMA Inside ==
  ASSUME NEW p \in Nat, NEW q \in Nat, NEW c \in Nat, p <= q, q <= c
  PROVE  q + p = p + q /\ \A i \in 1..(q - p) : p + i \in 1..c
OBVIOUS

LEMMA SlicesMore ==
  ASSUME NEW str, NEW at, NEW z \in Nat, NEW m \in Nat, NEW f, Slices(str, at, f, z, m),
         NEW g \in [1..(z + 1) -> [1..m -> Nat]], Follows(g, f, z),
         NEW lost, NEW w, w = Remains(g[z + 1], lost), Unmarked(g[z + 1], lost, m),
         NEW t, NEW bt, Longer(str, at, z, t, bt, w)
  PROVE  Slices(t, bt, g, z + 1, m)
<1>1. PICK d \in [1..m -> Nat], c \in Nat : d = g[z + 1] /\ c = at[z]
  <2>1. z + 1 \in 1..(z + 1) /\ z \in 0..z
    OBVIOUS
  <2>2. at[z] \in Nat
    BY <2>1 DEF Slices
  <2> QED BY <2>1, <2>2
<1>2. PICK x \in Nat : x = Len(w) /\ x >= 1
  BY <1>1, RemainsTyped, RemainsSome
<1>3. /\ bt \in [0..(z + 1) -> Nat] /\ bt[z + 1] = c + x /\ \A k \in 0..z : bt[k] = at[k]
      /\ \A i \in 1..c : t[i] = str[i]
      /\ \A i \in 1..x : t[c + i] = w[i]
  BY <1>1, <1>2 DEF Longer
<1>4. ASSUME NEW j \in 0..(z + 1), NEW k \in 0..(z + 1), j < k PROVE bt[j] < bt[k]
  <2>1. j \in 0..z /\ (k \in 0..z \/ k = z + 1)
    BY <1>4
  <2>2. CASE k \in 0..z
    <3>1. at[j] < at[k]
      BY <1>4, <2>1, <2>2 DEF Slices
    <3> QED BY <1>3, <2>1, <2>2, <3>1
  <2>3. CASE k = z + 1
    <3>1. j <= z /\ z <= z /\ j \in Nat
      BY <2>1
    <3>2. at[j] \in Nat /\ at[j] <= c
      BY <1>1, <3>1, Rises
    <3>3. PICK v \in Nat : v = at[j]
      BY <3>2
    <3>4. v < c + x
      BY <1>2, <3>2, <3>3
    <3> QED BY <1>3, <2>1, <2>3, <3>3, <3>4
  <2> QED BY <2>1, <2>2, <2>3
<1>5. ASSUME NEW k \in 1..z PROVE \E loss : Piece(t, bt[k - 1], g[k], loss, bt[k])
  <2>1. PICK loss : Piece(str, at[k - 1], f[k], loss, at[k])
    BY DEF Slices
  <2>2. k - 1 \in 0..z /\ k \in 0..z /\ k <= z /\ k - 1 <= k /\ k - 1 \in Nat
    OBVIOUS
  <2>3. PICK p \in Nat, q \in Nat : p = at[k - 1] /\ q = at[k] /\ p <= q /\ q <= c
    <3>1. PICK i \in Nat, h \in Nat : i = k - 1 /\ h = k /\ i <= h /\ h <= z /\ h <= h /\ z <= z
      BY <2>2
    <3>2. at[h] \in Nat /\ at[h] <= c
      BY <1>1, <3>1, Rises
    <3>3. at[i] \in Nat /\ at[i] <= at[h]
      <4>1. i <= i
        OBVIOUS
      <4> QED BY <3>1, <4>1, Rises
    <3> QED BY <3>1, <3>2, <3>3
  <2>4. PICK e \in [1..m -> Nat] : e = g[k] /\ e = f[k]
    <3>1. k \in 1..(z + 1)
      OBVIOUS
    <3> QED BY <3>1 DEF Follows
  <2>5. Moved(str, p, q, t, p, q)
    <3>1. q + p = p + q /\ \A i \in 1..(q - p) : p + i \in 1..c
      BY <2>3, Inside
    <3> QED BY <1>3, <3>1 DEF Moved
  <2>6. Piece(t, p, e, loss, q)
    <3>1. Piece(str, p, e, loss, q)
      BY <2>1, <2>3, <2>4
    <3> QED BY <2>5, <3>1, PieceMoved
  <2>7. bt[k - 1] = p /\ bt[k] = q
    BY <1>3, <2>2, <2>3
  <2> QED BY <2>4, <2>6, <2>7
<1>6. Piece(t, bt[z], d, lost, bt[z + 1])
  <2>1. bt[z] = c
    <3>1. z \in 0..z
      OBVIOUS
    <3> QED BY <1>1, <1>3, <3>1
  <2>2. w = Remains(d, lost) /\ bt[z + 1] = c + Len(w) /\ Carries(t, c, w, Len(w))
    BY <1>1, <1>2, <1>3 DEF Carries
  <2>3. lost = "start" => \A k \in DOMAIN d : d[k] # S
    BY <1>1 DEF Unmarked
  <2> QED BY <2>1, <2>2, <2>3 DEF Piece
<1>7. ASSUME NEW k \in 1..(z + 1) PROVE \E loss : Piece(t, bt[k - 1], g[k], loss, bt[k])
  <2>1. CASE k \in 1..z
    BY <1>5, <2>1
  <2>2. CASE k = z + 1
    <3>1. k - 1 = z
      BY <2>2
    <3> QED BY <1>1, <1>6, <2>2, <3>1
  <2> QED BY <2>1, <2>2
<1> QED BY <1>3, <1>4, <1>7 DEF Slices

Bytes == [byte : Nat, ends : BOOLEAN]

\* w is what is left on the line of the z frames of f when the first lo have been read.
OnLine(w, f, z, str, at, lo, m) ==
  /\ w \in Seq(Bytes) /\ lo \in 0..z /\ Slices(str, at, f, z, m)
  /\ at[z] = at[lo] + Len(w)
  /\ \A i \in 1..Len(w) : /\ w[i].byte = str[at[lo] + i]
                          /\ w[i].ends => \E k \in 1..z : at[k] = at[lo] + i

\* v is w without its first n elements.
Without(v, w, n, y) ==
  v \in Seq(Bytes) /\ Len(v) = y /\ \A i \in 1..y : v[i] = w[n + i]

LEMMA Rest ==
  ASSUME NEW w \in Seq(Bytes), NEW n \in Nat, NEW y \in Nat, Len(w) = n + y
  PROVE  Without(SubSeq(w, n + 1, n + y), w, n, y)
BY DEF Without

\* buf is the first n bytes on the line.
Read(buf, w, n) == buf = [i \in 1..n |-> w[i].byte]

\* A read that ends with a frame.
\* What a read() that ends with a frame leaves on the line and finds.
Left(w, x, n, buf, f, z, str, at, lo, m) ==
  \E hi \in (lo + 1)..z :
    /\ OnLine(SubSeq(w, n + 1, x), f, z, str, at, hi, m)
    /\ parseBuffer(buf).received =>
         \E k \in (lo + 1)..hi : FirstBytes(parseBuffer(buf).buf, m) = f[k]

LEMMA LineRead ==
  ASSUME NEW z \in Nat, NEW m \in Nat, NEW w, NEW f, NEW str, NEW at, NEW lo,
         OnLine(w, f, z, str, at, lo, m),
         NEW x \in Nat, x = Len(w), NEW n \in 1..x, w[n].ends,
         NEW buf, Read(buf, w, n)
  PROVE  Left(w, x, n, buf, f, z, str, at, lo, m)
<1>1. /\ w \in Seq(Bytes) /\ lo \in 0..z /\ Slices(str, at, f, z, m) /\ at[z] = at[lo] + x
      /\ \A i \in 1..x : /\ w[i].byte = str[at[lo] + i]
                         /\ w[i].ends => \E k \in 1..z : at[k] = at[lo] + i
  BY DEF OnLine
<1>2. PICK hi \in 1..z : at[hi] = at[lo] + n
  BY <1>1
<1>3. PICK b \in Nat : b = at[lo] /\ at[hi] = b + n
  BY <1>1, <1>2 DEF Slices
<1>4. lo \in Nat /\ hi \in Nat /\ hi <= z /\ lo <= z /\ n \in Nat /\ n >= 1
  BY <1>1
<1>5. lo < hi
  <2>1. SUFFICES ASSUME hi <= lo PROVE FALSE
    BY <1>4
  <2>2. at[hi] <= at[lo]
    <3>1. hi <= hi
      BY <1>4
    <3> QED BY <1>1, <1>4, <2>1, <3>1, Rises
  <2> QED BY <1>3, <1>4, <2>2
<1>6. buf \in [1..n -> Nat] /\ Taken(buf, str, b, n)
  <2>1. \A i \in 1..n : i \in 1..x
    OBVIOUS
  <2>2. \A i \in 1..x : w[i] \in Bytes
    BY <1>1
  <2>3. \A i \in 1..n : w[i].byte \in Nat
    BY <2>1, <2>2 DEF Bytes
  <2> QED BY <1>1, <1>3, <2>1, <2>3 DEF Taken, Read
<1>y. PICK y \in Nat : x = n + y
  <2>1. x - n \in Nat /\ x = n + (x - n)
    OBVIOUS
  <2> QED BY <2>1
<1>v. PICK v : v = SubSeq(w, n + 1, x)
  OBVIOUS
<1>7. v \in Seq(Bytes) /\ Len(v) = y /\ \A i \in 1..y : v[i] = w[n + i]
  <2>1. PICK u \in Seq(Bytes), c \in Nat : u = w /\ c = n
    BY <1>1, <1>4
  <2>2. Len(u) = c + y /\ v = SubSeq(u, c + 1, c + y)
    BY <1>y, <1>v, <2>1
  <2>3. Without(SubSeq(u, c + 1, c + y), u, c, y)
    BY <2>2, Rest
  <2>4. Without(v, w, n, y)
    BY <2>1, <2>2, <2>3
  <2> QED BY <2>4 DEF Without
<1>8. at[z] = at[hi] + y
  <2>1. b + (n + y) = (b + n) + y
    BY <1>4
  <2> QED BY <1>1, <1>3, <1>y, <2>1
<1>9. ASSUME NEW i \in 1..y
      PROVE  /\ v[i].byte = str[at[hi] + i]
             /\ v[i].ends => \E k \in 1..z : at[k] = at[hi] + i
  <2>1. n + i \in 1..x /\ v[i] = w[n + i]
    BY <1>7, <1>y
  <2>2. b + (n + i) = (b + n) + i
    BY <1>4
  <2>3. /\ w[n + i].byte = str[b + (n + i)]
        /\ w[n + i].ends => \E k \in 1..z : at[k] = b + (n + i)
    BY <1>1, <1>3, <2>1
  <2> QED BY <1>3, <2>1, <2>2, <2>3
<1>10. OnLine(v, f, z, str, at, hi, m)
  <2>1. hi \in 0..z
    OBVIOUS
  <2> QED BY <1>1, <1>7, <1>8, <1>9, <2>1 DEF OnLine
<1>11. ASSUME parseBuffer(buf).received
       PROVE  \E k \in (lo + 1)..hi : FirstBytes(parseBuffer(buf).buf, m) = f[k]
  <2>1. Taken(buf, str, at[lo], n)
    BY <1>3, <1>6
  <2>2. PICK j \in Nat, h \in Nat, c \in Nat : j = lo /\ h = hi /\ c = n
    BY <1>4
  <2>3. at[h] = at[j] + c /\ Taken(buf, str, at[j], c) /\ buf \in [1..c -> Nat] /\ j < h /\ h <= z
    BY <1>2, <1>4, <1>5, <1>6, <2>1, <2>2
  <2>5. Slices(str, at, f, z, m)
    BY <1>1
  <2>4. \E k \in (j + 1)..h : FirstBytes(parseBuffer(buf).buf, m) = f[k]
    BY <1>11, <2>3, <2>5, SlicesParsed
  <2> QED BY <2>2, <2>4
<1>12. hi \in (lo + 1)..z
  BY <1>4, <1>5
<1> QED BY <1>v, <1>10, <1>11, <1>12 DEF Left

LEMMA SizedSeq ==
  ASSUME NEW D, NEW n \in Nat, NEW e \in [1..n -> D]
  PROVE  e \in Seq(D) /\ Len(e) = n
OBVIOUS

LEMMA Joined ==
  ASSUME NEW D, NEW w \in Seq(D), NEW e \in Seq(D), NEW x \in Nat, NEW y \in Nat,
         x = Len(w), y = Len(e)
  PROVE  /\ w \o e \in Seq(D) /\ Len(w \o e) = x + y
         /\ \A i \in 1..x : (w \o e)[i] = w[i]
         /\ \A i \in 1..y : (w \o e)[x + i] = e[i]
OBVIOUS

\* A frame the board sends.
LEMMA LineSend ==
  ASSUME NEW z \in Nat, NEW m \in Nat, NEW w, NEW f, NEW str, NEW at, NEW lo,
         OnLine(w, f, z, str, at, lo, m),
         NEW g \in [1..(z + 1) -> [1..m -> Nat]], Follows(g, f, z),
         NEW lost, NEW r, r = Remains(g[z + 1], lost), Unmarked(g[z + 1], lost, m),
         NEW e, e \in [1..Len(r) -> Bytes],
         \A i \in 1..Len(r) : e[i].byte = r[i] /\ (e[i].ends => i = Len(r))
  PROVE  \E t, bt : OnLine(w \o e, g, z + 1, t, bt, lo, m)
<1>0. PICK x \in Nat : x = Len(w)
  BY DEF OnLine
<1>1. /\ w \in Seq(Bytes) /\ lo \in 0..z /\ Slices(str, at, f, z, m) /\ at[z] = at[lo] + x
      /\ \A i \in 1..x : /\ w[i].byte = str[at[lo] + i]
                         /\ w[i].ends => \E k \in 1..z : at[k] = at[lo] + i
  BY <1>0 DEF OnLine
<1>2. PICK d \in [1..m -> Nat] : d = g[z + 1]
  <2>1. z + 1 \in 1..(z + 1)
    OBVIOUS
  <2> QED BY <2>1
<1>3. PICK y \in Nat : y = Len(r) /\ y >= 1
  BY <1>2, RemainsTyped, RemainsSome
<1>4. PICK t, bt : Longer(str, at, z, t, bt, r)
  BY <1>1, <1>3, LongerExists DEF Slices
<1>5. Slices(t, bt, g, z + 1, m)
  BY <1>1, <1>4, SlicesMore
<1>6. PICK b \in Nat, c \in Nat : b = at[lo] /\ c = at[z] /\ c = b + x
  <2>1. z \in 0..z
    OBVIOUS
  <2>2. at[lo] \in Nat /\ at[z] \in Nat
    BY <1>1, <2>1 DEF Slices
  <2> QED BY <1>1, <2>2
<1>7. /\ bt[z + 1] = c + y /\ \A k \in 0..z : bt[k] = at[k]
      /\ \A i \in 1..c : t[i] = str[i]
      /\ \A i \in 1..y : t[c + i] = r[i]
  BY <1>3, <1>4, <1>6 DEF Longer
<1>8. PICK v \in Seq(Bytes) :
        /\ v = w \o e /\ Len(v) = x + y
        /\ \A i \in 1..x : v[i] = w[i]
        /\ \A i \in 1..y : v[x + i] = e[i]
  <2>1. PICK h \in Seq(Bytes) : h = e /\ Len(h) = y
    BY <1>3, SizedSeq
  <2>2. PICK u \in Seq(Bytes) : u = w
    BY <1>1
  <2>3. /\ u \o h \in Seq(Bytes) /\ Len(u \o h) = x + y
        /\ \A i \in 1..x : (u \o h)[i] = u[i]
        /\ \A i \in 1..y : (u \o h)[x + i] = h[i]
    BY <1>0, <2>1, <2>2, Joined
  <2>4. PICK v \in Seq(Bytes) : v = u \o h
    BY <2>3
  <2> QED BY <2>1, <2>2, <2>3, <2>4
<1>9. bt[lo] = b
  BY <1>1, <1>6, <1>7
<1>10. bt[z + 1] = bt[lo] + Len(v)
  BY <1>6, <1>7, <1>8, <1>9
<1>11. ASSUME NEW i \in 1..(x + y)
       PROVE  /\ v[i].byte = t[b + i]
              /\ v[i].ends => \E k \in 1..(z + 1) : bt[k] = b + i
  <2>1. CASE i \in 1..x
    <3>1. b + i \in 1..c
      BY SMTT(30), <1>6, <2>1
    <3>2. v[i] = w[i] /\ w[i].byte = str[b + i]
      BY <1>1, <1>6, <1>8, <2>1
    <3>3. ASSUME w[i].ends PROVE \E k \in 1..(z + 1) : bt[k] = b + i
      <4>1. PICK k \in 1..z : at[k] = b + i
        BY <1>1, <1>6, <2>1, <3>3
      <4>2. k \in 0..z /\ k \in 1..(z + 1)
        OBVIOUS
      <4> QED BY <1>7, <4>1, <4>2
    <3> QED BY <1>7, <3>1, <3>2, <3>3
  <2>2. CASE i \notin 1..x
    <3>1. PICK j \in 1..y : i = x + j
      <4>1. i - x \in 1..y /\ i = x + (i - x)
        BY <2>2
      <4> QED BY <4>1
    <3>2. b + i = c + j
      BY <1>6, <3>1
    <3>3. v[i] = e[j]
      BY <1>8, <3>1
    <3>4. e[j].byte = t[c + j]
      BY <1>3, <1>7
    <3>5. ASSUME e[j].ends PROVE bt[z + 1] = b + i
      <4>1. j = y
        BY <1>3, <3>5
      <4> QED BY <1>7, <3>2, <4>1
    <3>6. z + 1 \in 1..(z + 1)
      OBVIOUS
    <3> QED BY <3>2, <3>3, <3>4, <3>5, <3>6
  <2> QED BY <2>1, <2>2
<1>12. OnLine(v, g, z + 1, t, bt, lo, m)
  <2>1. lo \in 0..(z + 1)
    BY <1>1
  <2> QED BY <1>5, <1>8, <1>9, <1>10, <1>11, <2>1 DEF OnLine
<1> QED BY <1>8, <1>12

Data == [1..DataSize -> Nat]

\* The frames of the board are numbered.
Framed ==
  /\ frames \in Seq(Data)
  /\ \A k \in 1..Len(frames) : Number(frames[k]) = k

\* The inputs of frame k, or those of the start.
FrameOf(k) == IF k = 0 THEN [x \in 1..DataSize |-> 0] ELSE frames[k]

\* t is what CopyIn has left to copy of d to v.
Copying(v, t, d) ==
  \E r \in Nat, y \in Nat :
    /\ r + y = DataSize /\ t \in Seq(Nat) /\ Len(t) = y /\ v \in Data
    /\ \A x \in 1..r : v[x] = d[x]
    /\ \A x \in 1..y : t[x] = d[r + x]

\* The program sees frame i, the buffer holds or is getting frame j, which is no
\* earlier, and what the thread has just received is no earlier than that.
Arrived(lo, i, j) ==
  /\ i \in Nat /\ j \in Nat /\ lo \in Nat /\ i <= j /\ j <= lo
  /\ image = FrameOf(i)
  /\ thread # "copy in" => input_data = FrameOf(j)
  /\ thread = "received" => \E k \in Nat : j <= k /\ k <= lo /\ temp = FrameOf(k)
  /\ thread = "copy in" => Copying(input_data, temp, FrameOf(j))

InputsKept ==
  /\ Framed /\ Locked
  /\ \E str, at, lo, i, j :
       OnLine(wire, frames, Len(frames), str, at, lo, DataSize) /\ Arrived(lo, i, j)

LEMMA DataSized == DataSize \in Nat /\ DataSize = PayloadSize + 1 /\ PayloadSize \in Nat
BY LinkAssumption DEF DataSize

LEMMA FrameTyped ==
  ASSUME Framed, NEW k \in Nat, k <= Len(frames)
  PROVE  FrameOf(k) \in Data /\ Number(FrameOf(k)) = k
<1>1. DataSize \in Nat /\ DataSize \in 1..DataSize
  BY DataSized
<1>2. CASE k = 0
  BY <1>1, <1>2 DEF FrameOf, Data, Number
<1>3. CASE k # 0
  <2>1. Len(frames) \in Nat
    BY DEF Framed
  <2>2. k \in 1..Len(frames)
    BY <1>3, <2>1
  <2>3. frames[k] \in Data
    BY <2>2 DEF Framed
  <2> QED BY <1>3, <2>2, <2>3 DEF FrameOf, Framed
<1> QED BY <1>2, <1>3

LEMMA InputsInit == Init => InputsKept
<1> SUFFICES ASSUME Init PROVE InputsKept
  OBVIOUS
<1>1. /\ frames = << >> /\ wire = << >> /\ input_data = FrameOf(0) /\ image = FrameOf(0)
      /\ thread = "send" /\ ioLock = "free"
  BY DEF Init, FrameOf
<1>2. Locked
  BY <1>1 DEF Locked
<1>3. Len(frames) = 0 /\ Len(wire) = 0 /\ frames \in Seq(Data) /\ wire \in Seq(Bytes)
  BY <1>1
<1>4. Framed
  BY <1>3 DEF Framed
<1>5. Arrived(0, 0, 0)
  BY <1>1 DEF Arrived
<1>6. PICK at \in [0..0 -> Nat] : at[0] = 0
  <2>1. [k \in 0..0 |-> 0] \in [0..0 -> Nat] /\ [k \in 0..0 |-> 0][0] = 0
    OBVIOUS
  <2> QED BY <2>1
<1>7. Slices(<< >>, at, frames, 0, DataSize)
  <2>1. frames \in [1..0 -> [1..DataSize -> Nat]]
    BY <1>1
  <2>2. \A j, k \in 0..0 : ~(j < k)
    OBVIOUS
  <2> QED BY <1>6, <2>1, <2>2 DEF Slices
<1>8. OnLine(wire, frames, 0, << >>, at, 0, DataSize)
  <2>1. 0 \in 0..0 /\ at[0] = at[0] + 0 /\ \A i \in 1..0 : FALSE
    BY <1>6
  <2> QED BY <1>3, <1>7, <2>1 DEF OnLine
<1> QED BY <1>2, <1>3, <1>4, <1>5, <1>8 DEF InputsKept

\* A step that leaves the line alone.
LEMMA InputsMove ==
  ASSUME Framed, UNCHANGED <<wire, frames>>, Locked',
         NEW str, NEW at, NEW lo, OnLine(wire, frames, Len(frames), str, at, lo, DataSize),
         NEW i, NEW j, Arrived(lo, i, j)'
  PROVE  InputsKept'
<1>1. Framed'
  BY DEF Framed
<1>2. OnLine(wire', frames', Len(frames'), str, at, lo, DataSize)
  OBVIOUS
<1> QED BY <1>1, <1>2 DEF InputsKept

\* A step that besides changes nothing the inputs go through.
LEMMA InputsStay ==
  ASSUME InputsKept, UNCHANGED <<wire, frames, image, input_data>>, Locked',
         thread' \notin {"received", "copy in"}, thread # "copy in"
  PROVE  InputsKept'
<1>1. PICK str, at, lo, i, j :
        OnLine(wire, frames, Len(frames), str, at, lo, DataSize) /\ Arrived(lo, i, j)
  BY DEF InputsKept
<1>2. Arrived(lo, i, j)'
  BY <1>1 DEF Arrived, FrameOf
<1> QED BY <1>1, <1>2, InputsMove DEF InputsKept

\* A step of the scan loop that does not copy the inputs.
LEMMA InputsRest ==
  ASSUME InputsKept, UNCHANGED <<wire, frames, image, input_data, thread, temp, ioLock>>
  PROVE  InputsKept'
<1>1. PICK str, at, lo, i, j :
        OnLine(wire, frames, Len(frames), str, at, lo, DataSize) /\ Arrived(lo, i, j)
  BY DEF InputsKept
<1>2. Arrived(lo, i, j)'
  BY ZenonT(60), <1>1 DEF Arrived, FrameOf, Copying, Data
<1>3. Locked'
  BY DEF InputsKept, Locked
<1> QED BY <1>1, <1>2, <1>3, InputsMove DEF InputsKept

\* What BoardSends() puts on the line of the data of a frame.
Wired(data, lost) ==
  [i \in 1..Len(Remains(data, lost)) |->
     [byte |-> Remains(data, lost)[i], ends |-> i = Len(Remains(data, lost)) /\ lost # "end"]]

LEMMA WiredBytes ==
  ASSUME NEW m \in Nat, NEW data \in [1..m -> Nat], NEW lost, NEW r, r = Remains(data, lost)
  PROVE  /\ Wired(data, lost) \in [1..Len(r) -> Bytes]
         /\ \A i \in 1..Len(r) : /\ Wired(data, lost)[i].byte = r[i]
                                 /\ Wired(data, lost)[i].ends => i = Len(r)
<1>1. r \in Seq(Nat) /\ Len(r) \in Nat
  BY RemainsTyped
<1>2. PICK z \in Nat : z = Len(r) /\ \A i \in 1..z : r[i] \in Nat
  BY <1>1
<1>3. PICK e : e = Wired(data, lost)
  OBVIOUS
<1>4. e = [i \in 1..z |-> [byte |-> r[i], ends |-> i = z /\ lost # "end"]]
  BY <1>2, <1>3 DEF Wired
<1>5. ASSUME NEW i \in 1..z PROVE e[i] \in Bytes /\ e[i].byte = r[i] /\ (e[i].ends => i = z)
  <2>1. PICK c \in BOOLEAN : c = (i = z /\ lost # "end")
    BY Zenon
  <2>2. PICK b \in Nat : b = r[i]
    BY <1>2
  <2>3. e[i] = [byte |-> b, ends |-> c]
    BY <1>4, <2>1, <2>2
  <2>4. e[i] \in Bytes /\ e[i].byte = b /\ e[i].ends = c
    BY <2>3 DEF Bytes
  <2> QED BY <2>1, <2>2, <2>4
<1>6. e \in [1..z -> Bytes]
  <2>1. e = [i \in 1..z |-> e[i]]
    BY <1>4
  <2> QED BY <1>5, <2>1
<1> QED BY <1>2, <1>3, <1>5, <1>6

LEMMA InputsSent ==
  ASSUME InputsKept, NEW p \in Payloads, NEW lost \in Losses, BoardSends(p, lost)
  PROVE  InputsKept'
<1>1. PICK str, at, lo, i, j :
        OnLine(wire, frames, Len(frames), str, at, lo, DataSize) /\ Arrived(lo, i, j)
  BY DEF InputsKept
<1>2. PICK z \in Nat : z = Len(frames)
  BY DEF InputsKept, Framed
<1>3. PICK d : d = Append(p, z + 1)
  OBVIOUS
<1>4. frames' = Append(frames, d) /\ z < MaxFrames /\ (lost = "start" => S \notin Range(p))
  BY <1>2, <1>3 DEF BoardSends
<1>5. wire' = wire \o Wired(d, lost)
  BY <1>2, <1>3, Zenon DEF BoardSends, Wired, Remains
<1>6. UNCHANGED <<image, input_data, thread, temp, ioLock>>
  BY DEF BoardSends, scanVars
<1>7. /\ d \in [1..DataSize -> Nat] /\ d[DataSize] = z + 1
      /\ \A k \in 1..PayloadSize : d[k] = p[k]
  <2>1. PICK y \in Nat : y = PayloadSize /\ DataSize = y + 1
    BY DataSized
  <2>2. PICK q \in Seq(Nat) : q = p /\ Len(q) = y
    <3>1. p \in [1..y -> Nat]
      BY <2>1, LinkAssumption
    <3> QED BY <3>1, SizedSeq
  <2>3. z + 1 \in Nat
    OBVIOUS
  <2>4. PICK x \in Nat : x = z + 1
    BY <2>3
  <2>5. /\ Append(q, x) \in [1..(y + 1) -> Nat]
        /\ \A k \in 1..y : Append(q, x)[k] = q[k]
        /\ Append(q, x)[y + 1] = x
    BY SMTT(30), <2>2, OneNumberMore
  <2> QED BY <1>3, <2>1, <2>2, <2>4, <2>5
<1>8. /\ frames' \in Seq(Data) /\ Len(frames') = z + 1
      /\ frames' \in [1..(z + 1) -> Data]
      /\ \A k \in 1..z : frames'[k] = frames[k] /\ frames[k] \in Data
      /\ frames'[z + 1] = d
  <2>1. frames \in Seq(Data) /\ Len(frames) = z /\ d \in Data
    BY <1>2, <1>7 DEF InputsKept, Framed, Data
  <2>2. PICK f \in Seq(Data) : f = frames
    BY <2>1
  <2> QED BY <1>4, <2>1, <2>2, OneMore
<1>9. Framed'
  <2>1. ASSUME NEW k \in 1..(z + 1) PROVE frames'[k][DataSize] = k
    <3>1. CASE k \in 1..z
      <4>1. frames[k][DataSize] = k
        BY <1>2, <3>1 DEF InputsKept, Framed, Number
      <4> QED BY <1>8, <3>1, <4>1
    <3>2. CASE k = z + 1
      BY <1>7, <1>8, <3>2
    <3> QED BY <3>1, <3>2
  <2> QED BY <1>8, <2>1 DEF Framed, Number, Data
<1>10. Unmarked(d, lost, DataSize)
  <2> SUFFICES ASSUME lost = "start", NEW k \in 1..DataSize PROVE d[k] # S
    BY DEF Unmarked
  <2>1. PICK y \in Nat : y = PayloadSize /\ DataSize = y + 1
    BY DataSized
  <2>2. CASE k \in 1..y
    <3>1. k \in DOMAIN p
      <4>1. p \in [1..y -> Nat]
        BY <2>1, LinkAssumption
      <4> QED BY <2>2, <4>1
    <3>2. p[k] # S
      BY <1>4, <3>1 DEF Range
    <3> QED BY <1>7, <2>1, <2>2, <3>2
  <2>3. CASE k = y + 1
    <3>1. z + 1 <= 68
      <4>1. MaxFrames \in 0..68
        BY LinkAssumption DEF E
      <4> QED BY <1>4, <4>1
    <3>2. z + 1 # S
      BY <3>1 DEF S
    <3> QED BY <1>7, <2>1, <2>3, <3>2
  <2> QED BY <2>1, <2>2, <2>3
<1>11. PICK t, bt : OnLine(wire', frames', z + 1, t, bt, lo, DataSize)
  <2>1. PICK m \in Nat : m = DataSize
    BY DataSized
  <2>2. PICK g : g = frames'
    OBVIOUS
  <2>3. g \in [1..(z + 1) -> [1..m -> Nat]] /\ Follows(g, frames, z) /\ g[z + 1] = d
    BY <1>8, <2>1, <2>2 DEF Data, Follows
  <2>4. PICK r : r = Remains(d, lost)
    OBVIOUS
  <2>5. PICK e : e = Wired(d, lost)
    OBVIOUS
  <2>6. d \in [1..m -> Nat]
    BY <1>7, <2>1
  <2>7. /\ e \in [1..Len(r) -> Bytes]
        /\ \A x \in 1..Len(r) : e[x].byte = r[x] /\ (e[x].ends => x = Len(r))
    BY <2>4, <2>5, <2>6, WiredBytes
  <2>8. OnLine(wire, frames, z, str, at, lo, m) /\ Unmarked(g[z + 1], lost, m) /\ r = Remains(g[z + 1], lost)
    BY <1>1, <1>2, <1>10, <2>1, <2>3, <2>4
  <2>9. \E t, bt : OnLine(wire \o e, g, z + 1, t, bt, lo, m)
    BY <2>3, <2>7, <2>8, LineSend
  <2> QED BY <1>5, <2>1, <2>2, <2>5, <2>9
<1>12. ASSUME NEW k \in Nat, k <= lo PROVE FrameOf(k)' = FrameOf(k)
  <2>1. lo \in 0..z
    BY <1>1, <1>2 DEF OnLine
  <2>2. k = 0 \/ k \in 1..z
    BY <1>12, <2>1
  <2> QED BY <1>8, <2>2 DEF FrameOf
<1>13. Arrived(lo, i, j)'
  <2>0. i \in Nat /\ j \in Nat /\ lo \in Nat /\ i <= j /\ j <= lo
    BY <1>1 DEF Arrived
  <2>1. i <= lo
    BY <2>0
  <2>2. FrameOf(i)' = FrameOf(i) /\ FrameOf(j)' = FrameOf(j)
    BY <1>12, <2>0, <2>1
  <2>3. image' = FrameOf(i)' /\ (thread' # "copy in" => input_data' = FrameOf(j)')
    BY <1>1, <1>6, <2>2 DEF Arrived
  <2>4. thread' = "received" => \E k \in Nat : j <= k /\ k <= lo /\ temp' = FrameOf(k)'
    BY <1>1, <1>6, <1>12 DEF Arrived
  <2>5. thread' = "copy in" => Copying(input_data', temp', FrameOf(j)')
    BY <1>1, <1>6, <2>2 DEF Arrived
  <2> QED BY <2>0, <2>3, <2>4, <2>5 DEF Arrived
<1>14. Locked'
  BY <1>6 DEF InputsKept, Locked
<1> QED BY <1>8, <1>9, <1>11, <1>13, <1>14 DEF InputsKept

LEMMA InputsRead ==
  ASSUME InputsKept, Settled, ReadSome
  PROVE  InputsKept'
<1>1. PICK str, at, lo, i, j :
        OnLine(wire, frames, Len(frames), str, at, lo, DataSize) /\ Arrived(lo, i, j)
  BY DEF InputsKept
<1>2. PICK z \in Nat, x \in Nat, m \in Nat : z = Len(frames) /\ x = Len(wire) /\ m = DataSize
  <2>1. wire \in Seq(Bytes) /\ frames \in Seq(Data)
    BY <1>1 DEF InputsKept, Framed, OnLine
  <2>2. Len(wire) \in Nat /\ Len(frames) \in Nat
    BY <2>1
  <2> QED BY <2>2, DataSized
<1>3. /\ thread = "read"
      /\ UNCHANGED <<frames, image, input_data, ioLock>>
  BY DEF ReadSome, scanVars
<1>4. PICK n \in 1..x :
        /\ wire[n].ends
        /\ Receive([k \in 1..n |-> wire[k].byte])
        /\ wire' = SubSeq(wire, n + 1, x)
  BY <1>2, Settled DEF ReadSome
<1>5. PICK buf : buf = [k \in 1..n |-> wire[k].byte]
  OBVIOUS
<1>6. PICK hi \in (lo + 1)..z :
        /\ OnLine(SubSeq(wire, n + 1, x), frames, z, str, at, hi, m)
        /\ parseBuffer(buf).received =>
             \E k \in (lo + 1)..hi : FirstBytes(parseBuffer(buf).buf, m) = frames[k]
  <2>1. OnLine(wire, frames, z, str, at, lo, m) /\ Read(buf, wire, n)
    BY <1>1, <1>2, <1>5 DEF Read
  <2>2. wire[n].ends /\ x = Len(wire)
    BY <1>2, <1>4
  <2>3. Left(wire, x, n, buf, frames, z, str, at, lo, m)
    BY <2>1, <2>2, LineRead
  <2> QED BY <2>3 DEF Left
<1>7. OnLine(wire', frames', Len(frames'), str, at, hi, DataSize)
  <2>1. wire' = SubSeq(wire, n + 1, x) /\ frames' = frames /\ Len(frames') = z /\ DataSize = m
    BY <1>2, <1>3, <1>4
  <2> QED BY <1>6, <2>1
<1>8. /\ i \in Nat /\ j \in Nat /\ lo \in Nat /\ i <= j /\ j <= lo
      /\ image = FrameOf(i) /\ input_data = FrameOf(j)
  BY <1>1, <1>3 DEF Arrived
<1>9. hi \in Nat /\ j <= hi
  BY <1>8
<1>10. \/ thread' = "send"
       \/ thread' = "received" /\ \E k \in Nat : j <= k /\ k <= hi /\ temp' = FrameOf(k)
  <2>1. CASE parseBuffer(buf).received
    <3>1. PICK k \in (lo + 1)..hi : FirstBytes(parseBuffer(buf).buf, m) = frames[k]
      BY <1>6, <2>1
    <3>2. k \in Nat /\ j <= k /\ k <= hi /\ k # 0
      BY <1>8, <1>9
    <3>3. thread' = "received" /\ temp' = frames[k]
      BY <1>2, <1>4, <1>5, <2>1, <3>1 DEF Receive
    <3> QED BY <3>2, <3>3 DEF FrameOf
  <2>2. CASE ~parseBuffer(buf).received
    BY <1>4, <1>5, <2>2 DEF Receive
  <2> QED BY <2>1, <2>2
<1>11. Arrived(hi, i, j)'
  <2>1. \A k : FrameOf(k)' = FrameOf(k)
    BY <1>3 DEF FrameOf
  <2>2. thread' # "copy in"
    BY <1>10
  <2>3. image' = FrameOf(i)' /\ input_data' = FrameOf(j)'
    BY <1>3, <1>8, <2>1
  <2>4. thread' = "received" => \E k \in Nat : j <= k /\ k <= hi /\ temp' = FrameOf(k)'
    BY <1>10, <2>1
  <2> QED BY <1>8, <1>9, <2>2, <2>3, <2>4 DEF Arrived
<1>12. Locked' /\ Framed'
  BY <1>3, <1>10 DEF InputsKept, Locked, Framed
<1> QED BY <1>7, <1>11, <1>12 DEF InputsKept

\* memcpy() before its first byte and after its last.
LEMMA CopyStarts ==
  ASSUME NEW v \in Data, NEW t \in Data
  PROVE  Copying(v, t, t)
<1>1. PICK y \in Nat, r \in Nat : y = DataSize /\ r = 0 /\ r + y = DataSize
  BY DataSized
<1>2. t \in Seq(Nat) /\ Len(t) = y
  BY <1>1, Sized DEF Data
<1>3. (\A x \in 1..r : v[x] = t[x]) /\ \A x \in 1..y : t[x] = t[r + x]
  BY <1>1
<1> QED BY <1>1, <1>2, <1>3 DEF Copying

LEMMA CopyEnds ==
  ASSUME NEW v, NEW d \in Data, Copying(v, << >>, d)
  PROVE  v = d
<1>1. PICK r \in Nat, y \in Nat :
        r + y = DataSize /\ Len(<< >>) = y /\ v \in Data /\ \A x \in 1..r : v[x] = d[x]
  BY DEF Copying
<1>2. r = DataSize
  BY <1>1
<1>3. PICK w \in [1..r -> Nat], e \in [1..r -> Nat] : w = v /\ e = d
  BY <1>1, <1>2 DEF Data
<1>4. w = [x \in 1..r |-> w[x]] /\ e = [x \in 1..r |-> e[x]] /\ \A x \in 1..r : w[x] = e[x]
  BY <1>1, <1>3
<1>5. w = e
  BY <1>4
<1> QED BY <1>3, <1>5

\* One byte.
LEMMA CopyGoesOn ==
  ASSUME NEW v, NEW t, NEW d \in Data, Copying(v, t, d), t # << >>
  PROVE  Copying([v EXCEPT ![DataSize + 1 - Len(t)] = Head(t)], Tail(t), d)
<1>1. PICK r \in Nat, y \in Nat :
        /\ r + y = DataSize /\ t \in Seq(Nat) /\ Len(t) = y /\ v \in Data
        /\ \A x \in 1..r : v[x] = d[x]
        /\ \A x \in 1..y : t[x] = d[r + x]
  BY DEF Copying
<1>2. y # 0
  BY <1>1
<1>3. PICK k \in Nat, l \in Nat : y = k + 1 /\ l = r + 1 /\ l + k = DataSize
  <2>1. y - 1 \in Nat /\ y = (y - 1) + 1 /\ (r + 1) + (y - 1) = DataSize /\ r + 1 \in Nat
    BY <1>1, <1>2
  <2> QED BY <2>1
<1>4. DataSize + 1 - Len(t) = l /\ l \in 1..DataSize
  BY <1>1, <1>3
<1>5. PICK c \in Nat : c = Head(t) /\ c = d[l]
  <2>1. Head(t) = t[1] /\ 1 \in 1..y /\ t[1] \in Nat
    BY <1>1, <1>3
  <2> QED BY <1>1, <1>3, <2>1
<1>6. PICK s \in Seq(Nat) : s = Tail(t) /\ Len(s) = k /\ \A x \in 1..k : s[x] = t[x + 1]
  <2>1. PICK u \in Seq(Nat) : u = t /\ Len(u) = k + 1
    BY <1>1, <1>3
  <2>2. Tail(u) \in Seq(Nat) /\ Len(Tail(u)) = k /\ \A x \in 1..k : Tail(u)[x] = u[x + 1]
    BY <2>1, TailBytes
  <2> QED BY <2>1, <2>2
<1>7. PICK w \in Data : w = [v EXCEPT ![l] = c] /\ w[l] = c /\ \A x \in 1..r : w[x] = v[x]
  <2>1. PICK u \in [1..DataSize -> Nat] : u = v
    BY <1>1 DEF Data
  <2>2. PICK w : w = [u EXCEPT ![l] = c]
    OBVIOUS
  <2>3. w \in [1..DataSize -> Nat] /\ w[l] = c
    BY <1>4, <2>2
  <2>4. \A x \in 1..r : x \in 1..DataSize /\ x # l
    BY <1>3, <1>4
  <2>5. \A x \in 1..r : w[x] = u[x]
    BY <2>2, <2>4
  <2> QED BY <2>1, <2>2, <2>3, <2>5 DEF Data
<1>8. ASSUME NEW x \in 1..l PROVE w[x] = d[x]
  <2>1. CASE x \in 1..r
    BY <1>1, <1>7, <2>1
  <2>2. CASE x = l
    BY <1>5, <1>7, <2>2
  <2> QED BY <1>3, <2>1, <2>2
<1>9. ASSUME NEW x \in 1..k PROVE s[x] = d[l + x]
  <2>1. x + 1 \in 1..y /\ r + (x + 1) = l + x
    BY <1>3
  <2> QED BY <1>1, <1>6, <2>1
<1>10. Copying(w, s, d)
  BY <1>3, <1>6, <1>8, <1>9 DEF Copying
<1> QED BY <1>4, <1>5, <1>6, <1>7, <1>10

LEMMA InputsNext == InputsKept /\ Settled /\ [Next]_vars => InputsKept'
<1> SUFFICES ASSUME InputsKept, Settled, [Next]_vars PROVE InputsKept'
  OBVIOUS
<1>0. Framed /\ Locked
  BY DEF InputsKept
<1>p. PICK str, at, lo, i, j :
        OnLine(wire, frames, Len(frames), str, at, lo, DataSize) /\ Arrived(lo, i, j)
  BY DEF InputsKept
<1>l. i \in Nat /\ j \in Nat /\ lo \in Nat /\ i <= j /\ j <= lo /\ lo <= Len(frames)
  <2>1. lo \in 0..Len(frames) /\ Len(frames) \in Nat
    BY <1>0, <1>p DEF OnLine, Framed
  <2>2. i \in Nat /\ j \in Nat /\ i <= j /\ j <= lo
    BY <1>p DEF Arrived
  <2>3. lo \in Nat /\ lo <= Len(frames)
    BY <2>1
  <2> QED BY <2>2, <2>3
<1>1. ASSUME NEW p \in Payloads, NEW lost \in Losses, BoardSends(p, lost) PROVE InputsKept'
  BY <1>1, InputsSent
<1>2. CASE updateBuffersIn
  <2>1. /\ UNCHANGED <<wire, frames, input_data, thread, temp, ioLock>> /\ image' = input_data
        /\ ioLock = "free"
    BY <1>2 DEF updateBuffersIn, boardVars
  <2>2. thread # "copy in" /\ Locked'
    BY <1>0, <2>1 DEF Locked
  <2>3. FrameOf(j)' = FrameOf(j) /\ \A k : FrameOf(k)' = FrameOf(k)
    BY <2>1 DEF FrameOf
  <2>4. input_data = FrameOf(j)
    BY <1>p, <2>2 DEF Arrived
  <2>5. image' = FrameOf(j)' /\ input_data' = FrameOf(j)' /\ thread' # "copy in"
    BY <2>1, <2>2, <2>3, <2>4
  <2>6. thread = "received" => \E k \in Nat : j <= k /\ k <= lo /\ temp = FrameOf(k)
    BY <1>p DEF Arrived
  <2>7. thread' = "received" => \E k \in Nat : j <= k /\ k <= lo /\ temp' = FrameOf(k)'
    BY <2>1, <2>3, <2>6
  <2>8. j <= j
    BY <1>l
  <2>9. Arrived(lo, j, j)'
    BY <1>l, <2>5, <2>7, <2>8 DEF Arrived
  <2> QED BY <1>0, <1>p, <2>1, <2>2, <2>9, InputsMove
<1>3. CASE RunProgram
  BY <1>3, InputsRest DEF RunProgram, boardVars
<1>4. CASE updateBuffersOut
  BY <1>4, InputsRest DEF updateBuffersOut, boardVars
<1>5. CASE TakeLock
  <2>1. /\ UNCHANGED <<wire, frames, image, input_data, temp>>
        /\ thread \in {"send", "received"} /\ ioLock' = "thread"
        /\ thread' = IF thread = "send" THEN "copy out" ELSE "copy in"
    BY <1>5 DEF TakeLock, boardVars, scanVars
  <2>2. Locked'
    BY <2>1 DEF Locked
  <2>3. CASE thread = "send"
    <3>1. thread' = "copy out"
      BY <2>1, <2>3
    <3> QED BY <2>1, <2>2, <2>3, <3>1, InputsStay
  <2>4. CASE thread = "received"
    <3>1. PICK k \in Nat : j <= k /\ k <= lo /\ temp = FrameOf(k)
      BY <1>p, <2>4 DEF Arrived
    <3>2. i <= k /\ k <= Len(frames) /\ j <= Len(frames)
      <4>1. Len(frames) \in Nat
        BY <1>0 DEF Framed
      <4> QED BY <1>l, <3>1, <4>1
    <3>3. temp \in Data /\ input_data \in Data
      BY <1>0, <1>l, <1>p, <2>4, <3>1, <3>2, FrameTyped DEF Arrived
    <3>4. Copying(input_data, temp, FrameOf(k))
      BY <3>1, <3>3, CopyStarts
    <3>5. FrameOf(k)' = FrameOf(k) /\ FrameOf(i)' = FrameOf(i) /\ image' = image
      BY <2>1 DEF FrameOf
    <3>6. Copying(input_data', temp', FrameOf(k)')
      BY <2>1, <3>4, <3>5
    <3>7. thread' = "copy in" /\ image = FrameOf(i)
      BY <1>p, <2>1, <2>4 DEF Arrived
    <3>8. Arrived(lo, i, k)'
      BY <1>l, <3>1, <3>2, <3>5, <3>6, <3>7 DEF Arrived
    <3> QED BY <1>0, <1>p, <2>1, <2>2, <3>8, InputsMove
  <2> QED BY <2>1, <2>3, <2>4
<1>6. CASE CopyOut
  <2>1. /\ UNCHANGED <<wire, frames, image, input_data, thread, ioLock>> /\ thread = "copy out"
    BY <1>6 DEF CopyOut, boardVars, scanVars
  <2>2. Locked'
    BY <1>0, <2>1 DEF Locked
  <2> QED BY <2>1, <2>2, InputsStay
<1>7. CASE CopyIn
  <2>1. /\ UNCHANGED <<wire, frames, image, thread, ioLock>> /\ thread = "copy in" /\ temp # << >>
        /\ input_data' = [input_data EXCEPT ![DataSize + 1 - Len(temp)] = Head(temp)]
        /\ temp' = Tail(temp)
    BY <1>7 DEF CopyIn, boardVars, scanVars
  <2>2. Locked'
    BY <1>0, <2>1 DEF Locked
  <2>3. PICK d \in Data : d = FrameOf(j)
    <3>1. j <= Len(frames)
      <4>1. Len(frames) \in Nat
        BY <1>0 DEF Framed
      <4> QED BY <1>l, <4>1
    <3> QED BY <1>0, <1>l, <3>1, FrameTyped
  <2>4. Copying(input_data, temp, d)
    BY <1>p, <2>1, <2>3 DEF Arrived
  <2>5. Copying(input_data', temp', d)
    BY <2>1, <2>4, CopyGoesOn
  <2>6. FrameOf(j)' = d /\ image' = FrameOf(i)' /\ thread' = "copy in"
    BY <1>p, <2>1, <2>3 DEF Arrived, FrameOf
  <2>7. Arrived(lo, i, j)'
    BY <1>l, <2>5, <2>6 DEF Arrived
  <2> QED BY <1>0, <1>p, <2>1, <2>2, <2>7, InputsMove
<1>8. CASE ReleaseLock
  <2>1. /\ UNCHANGED <<wire, frames, image, input_data, temp>> /\ ioLock' = "free"
        /\ \/ thread = "copy out" /\ thread' = "write"
           \/ thread = "copy in" /\ temp = << >> /\ thread' = "send"
    BY <1>8 DEF ReleaseLock, boardVars, scanVars
  <2>2. Locked'
    BY <2>1 DEF Locked
  <2>3. CASE thread = "copy out"
    BY <2>1, <2>2, <2>3, InputsStay
  <2>4. CASE thread = "copy in"
    <3>1. PICK d \in Data : d = FrameOf(j)
      <4>1. j <= Len(frames)
        <5>1. Len(frames) \in Nat
          BY <1>0 DEF Framed
        <5> QED BY <1>l, <5>1
      <4> QED BY <1>0, <1>l, <4>1, FrameTyped
    <3>2. Copying(input_data, << >>, d)
      BY <1>p, <2>1, <2>4, <3>1 DEF Arrived
    <3>3. input_data = d
      BY <3>2, CopyEnds
    <3>4. input_data' = FrameOf(j)' /\ image' = FrameOf(i)' /\ thread' = "send"
      BY <1>p, <2>1, <2>4, <3>1, <3>3 DEF Arrived, FrameOf
    <3>5. Arrived(lo, i, j)'
      BY <1>l, <3>4 DEF Arrived
    <3> QED BY <1>0, <1>p, <2>1, <2>2, <3>5, InputsMove
  <2> QED BY <2>1, <2>3, <2>4
<1>9. CASE WritePacket
  <2>1. /\ UNCHANGED <<wire, frames, image, input_data, ioLock>>
        /\ thread = "write" /\ thread' = "read"
    BY <1>9 DEF WritePacket, boardVars, scanVars
  <2>2. Locked'
    BY <1>0, <2>1 DEF Locked
  <2> QED BY <2>1, <2>2, InputsStay
<1>10. CASE ReadSome
  BY <1>10, InputsRead
<1>11. CASE ReadNothing
  <2>1. /\ UNCHANGED <<wire, frames, image, input_data, ioLock>>
        /\ thread = "read" /\ thread' = "send"
    BY <1>11 DEF ReadNothing, boardVars, scanVars
  <2>2. Locked'
    BY <1>0, <2>1 DEF Locked
  <2> QED BY <2>1, <2>2, InputsStay
<1>12. CASE UNCHANGED vars
  BY <1>12, InputsRest DEF vars
<1> QED
  BY <1>1, <1>2, <1>3, <1>4, <1>5, <1>6, <1>7, <1>8, <1>9, <1>10, <1>11, <1>12
  DEF Next, exchangeData, Scan

\* The number of what the program sees, and its place among the frames.
LEMMA ImageFrame ==
  ASSUME InputsKept
  PROVE  InputsOfOneFrame
<1>1. PICK str, at, lo, i, j :
        OnLine(wire, frames, Len(frames), str, at, lo, DataSize) /\ Arrived(lo, i, j)
  BY DEF InputsKept
<1>2. PICK z \in Nat : z = Len(frames) /\ lo \in 0..z
  BY <1>1 DEF InputsKept, Framed, OnLine
<1>3. i \in Nat /\ i <= z /\ image = FrameOf(i)
  <2>1. i \in Nat /\ j \in Nat /\ i <= j /\ j <= lo /\ image = FrameOf(i)
    BY <1>1 DEF Arrived
  <2> QED BY <1>2, <2>1
<1>4. Number(image) = i
  BY <1>2, <1>3, FrameTyped DEF InputsKept
<1>5. ASSUME i # 0 PROVE i \in DOMAIN frames /\ image = frames[i]
  <2>1. i \in 1..z /\ DOMAIN frames = 1..z
    BY <1>2, <1>3, <1>5 DEF InputsKept, Framed
  <2> QED BY <1>3, <1>5, <2>1 DEF FrameOf
<1> QED BY <1>4, <1>5 DEF InputsOfOneFrame

\* When no read() cuts a frame, the inputs the program sees are those of one frame
\* of the board, whatever its data, and whichever starts and ends the line loses:
\* parseBuffer() finds nothing but whole frames, and ioLock keeps updateBuffersIn()
\* out of the copy of exchangeData().
THEOREM LinkInputsOfOneFrame == ASSUME Settled PROVE Spec => []InputsOfOneFrame
<1>1. Init => InputsKept
  BY InputsInit
<1>2. InputsKept /\ [Next]_vars => InputsKept'
  BY InputsNext, Settled
<1>3. InputsKept => InputsOfOneFrame
  BY ImageFrame
<1> QED BY <1>1, <1>2, <1>3, PTL DEF Spec

\* Under the same condition they never go back to those of an earlier frame.
THEOREM LinkNeverBack == ASSUME Settled PROVE Spec => NeverBack
<1>1. Init => InputsKept
  BY InputsInit
<1>2. InputsKept /\ [Next]_vars => InputsKept'
  BY InputsNext, Settled
<1>3. InputsKept /\ [Next]_vars => [Number(image') >= Number(image)]_vars
  <2> SUFFICES ASSUME InputsKept, [Next]_vars, vars' # vars PROVE Number(image') >= Number(image)
    OBVIOUS
  <2>1. PICK str, at, lo, i, j :
          OnLine(wire, frames, Len(frames), str, at, lo, DataSize) /\ Arrived(lo, i, j)
    BY DEF InputsKept
  <2>2. PICK z \in Nat : z = Len(frames) /\ lo \in 0..z
    BY <2>1 DEF InputsKept, Framed, OnLine
  <2>3. i \in Nat /\ j \in Nat /\ i <= j /\ j <= z /\ i <= z /\ image = FrameOf(i)
    <3>1. i \in Nat /\ j \in Nat /\ lo \in Nat /\ i <= j /\ j <= lo /\ image = FrameOf(i)
      BY <2>1 DEF Arrived
    <3> QED BY <2>2, <3>1
  <2>4. Number(FrameOf(i)) = i /\ Number(FrameOf(j)) = j
    BY <2>2, <2>3, FrameTyped DEF InputsKept
  <2>5. image' = image \/ (image' = input_data /\ ioLock = "free")
    BY DEF Next, exchangeData, Scan, BoardSends, updateBuffersIn, RunProgram, updateBuffersOut,
           TakeLock, CopyOut, CopyIn, ReleaseLock, WritePacket, ReadSome, ReadNothing, scanVars
  <2>6. CASE image' = image
    <3>1. Number(image') = i /\ Number(image) = i
      BY <2>3, <2>4, <2>6
    <3> QED BY <2>3, <3>1
  <2>7. CASE image' = input_data /\ ioLock = "free"
    <3>1. thread # "copy in"
      BY <2>7 DEF InputsKept, Locked
    <3>2. image' = FrameOf(j)
      BY <2>1, <2>7, <3>1 DEF Arrived
    <3>3. Number(image') = j /\ Number(image) = i
      BY <2>3, <2>4, <3>2
    <3> QED BY <2>3, <3>3
  <2> QED BY <2>5, <2>6, <2>7
<1> QED BY <1>1, <1>2, <1>3, PTL DEF Spec, NeverBack
=============================================================================
