------------------------- MODULE SidecarTextProofs -------------------------
(* What is read of a sidecar, for one with any number of edits, cut off    *)
(* anywhere.  Where each piece of a text is, is found first; then what     *)
(* each step of the parser makes of it when it is there and when it is     *)
(* not.  FlattenSeq, AcceptField and FieldsFrom are recursive functions:   *)
(* that there is such a function at all, and what it computes, follows by  *)
(* induction, stated for sets of numbers and proved from the least number. *)
EXTENDS SidecarText, WellFoundedInduction, TLAPS

-----------------------------------------------------------------------------
(* Induction.                                                              *)


\* A set of numbers that is not empty has a least one.
LEMMA LeastNumber ==
  ASSUME NEW T, T \subseteq Nat, T # {}
  PROVE  \E m \in T : \A n \in T : m <= n
<1>1. IsWellFoundedOn(OpToRel(<, Nat), Nat)
  BY NatLessThanWellFounded, Zenon DEF OpToRel
<1>2. PICK m \in T : \A n \in T : <<n, m>> \notin OpToRel(<, Nat)
  BY <1>1, WFMin
<1>3. \A n \in T : ~(n < m)
  BY <1>2 DEF OpToRel
<1> QED
  BY <1>3

\* Induction, on the set of the numbers a formula holds of.
LEMMA Induction ==
  ASSUME NEW T, NEW a \in Int, NEW N \in Int, a \in T, \A k \in a .. N - 1 : k \in T => k + 1 \in T
  PROVE  \A k \in a .. N : k \in T
<1> DEFINE F == {n \in Nat : a + n <= N /\ a + n \notin T}
<1>1. SUFFICES ASSUME F # {} PROVE FALSE
  <2>1. ASSUME NEW k \in a .. N, k \notin T PROVE k - a \in F
    <3>1. k - a \in Nat /\ a + (k - a) = k /\ k <= N
      OBVIOUS
    <3> QED
      BY <2>1, <3>1
  <2> HIDE DEF F
  <2> QED
    BY <2>1
<1>2. PICK m \in F : \A n \in F : m <= n
  <2>1. F \subseteq Nat
    OBVIOUS
  <2> HIDE DEF F
  <2> QED
    BY <1>1, <2>1, LeastNumber
<1>3. m \in Nat /\ a + m <= N /\ a + m \notin T /\ m # 0
  BY <1>2
<1>4. a + (m - 1) \in T
  BY <1>2, <1>3
<1> QED
  BY <1>3, <1>4

\* The same downwards.
LEMMA DownInduction ==
  ASSUME NEW T, NEW a \in Int, NEW N \in Int, N \in T, \A k \in a .. N - 1 : k + 1 \in T => k \in T
  PROVE  \A k \in a .. N : k \in T
<1> DEFINE U == {n \in Int : N - n \in T}
<1>1. 0 \in U /\ \A n \in 0 .. N - a - 1 : n \in U => n + 1 \in U
  <2>1. ASSUME NEW n \in 0 .. N - a - 1, N - n \in T PROVE N - (n + 1) \in T
    <3>1. N - (n + 1) \in a .. N - 1 /\ (N - (n + 1)) + 1 = N - n
      OBVIOUS
    <3> QED
      BY <2>1, <3>1
  <2> QED
    BY <2>1
<1>2. \A n \in 0 .. N - a : n \in U
  <2> HIDE DEF U
  <2> QED
    BY <1>1, Induction
<1>3. ASSUME NEW k \in a .. N PROVE k \in T
  <2>1. N - k \in 0 .. N - a /\ N - (N - k) = k
    OBVIOUS
  <2> QED
    BY <1>2, <2>1
<1> QED
  BY <1>3

\* Recursion.
Chain(A, a, N, step, f) ==
  f \in [0 .. N -> A] /\ f[0] = a /\ \A i \in 1 .. N : f[i] = step[i][f[i - 1]]

\* A function may be defined by what it is at 0 and by how each of its values
\* is made of the one before.
LEMMA Recursion ==
  ASSUME NEW A, NEW a \in A, NEW N \in Nat, NEW step, step \in [1 .. N -> [A -> A]]
  PROVE  \E f : Chain(A, a, N, step, f)
<1> DEFINE Upto(f, k) == f[0] = a /\ \A i \in 1 .. k : f[i] = step[i][f[i - 1]]
           Exists(k) == \E f \in [0 .. k -> A] : Upto(f, k)
           T == {k \in Int : Exists(k)}
<1>1. Exists(0)
  <2>1. [i \in 0 .. 0 |-> a] \in [0 .. 0 -> A] /\ Upto([i \in 0 .. 0 |-> a], 0)
    OBVIOUS
  <2> QED
    BY <2>1
<1>2. ASSUME NEW m \in 0 .. N - 1, Exists(m) PROVE Exists(m + 1)
  <2>1. PICK g \in [0 .. m -> A] : Upto(g, m)
    BY <1>2
  <2> DEFINE h == [i \in 0 .. m + 1 |-> IF i = m + 1 THEN step[m + 1][g[m]] ELSE g[i]]
  <2>2. h \in [0 .. m + 1 -> A]
    <3>1. g[m] \in A /\ step[m + 1] \in [A -> A]
      BY <2>1
    <3>2. \A i \in 0 .. m + 1 : i # m + 1 => g[i] \in A
      BY <2>1
    <3> QED
      BY <3>1, <3>2
  <2>3. Upto(h, m + 1)
    <3>1. h[0] = a
      BY <2>1
    <3>2. \A i \in 1 .. m + 1 : h[i - 1] = g[i - 1]
      OBVIOUS
    <3>3. ASSUME NEW i \in 1 .. m + 1 PROVE h[i] = step[i][g[i - 1]]
      BY <2>1
    <3> QED
      BY <3>1, <3>2, <3>3
  <2> QED
    BY <2>2, <2>3
<1>3. Exists(N)
  <2> HIDE DEF Exists
  <2>1. 0 \in T /\ \A k \in 0 .. N - 1 : k \in T => k + 1 \in T
    BY <1>1, <1>2
  <2>2. \A k \in 0 .. N : k \in T
    <3> HIDE DEF T
    <3> QED
      BY <2>1, Induction
  <2> QED
    BY <2>2
<1> QED
  BY <1>3 DEF Chain

-----------------------------------------------------------------------------
(* Sequences.                                                              *)

\* Until is the first place, from p on, where t is, or the end.
LEMMA UntilFinds ==
  ASSUME NEW S, NEW s \in Seq(S), NEW p \in 1 .. Len(s) + 1, NEW t
  PROVE  /\ Until(s, p, t) \in p .. Len(s) + 1
         /\ Until(s, p, t) <= Len(s) => s[Until(s, p, t)] = t
         /\ \A j \in p .. Until(s, p, t) - 1 : s[j] # t
<1> DEFINE T == {i \in p .. Len(s) + 1 : i = Len(s) + 1 \/ s[i] = t}
<1>1. T \subseteq Nat /\ T # {}
  OBVIOUS
<1>2. PICK m \in T : \A n \in T : m <= n
  BY <1>1, LeastNumber
<1>3. /\ m \in p .. Len(s) + 1 /\ (AtEnd(s, m) \/ s[m] = t)
      /\ \A j \in p .. m - 1 : s[j] # t
  BY <1>2 DEF AtEnd
<1> QED
  BY <1>3 DEF Until, AtEnd

\* To be it, a place needs to have t, or be the end, and none to be before it.
LEMMA UntilIs ==
  ASSUME NEW S, NEW s \in Seq(S), NEW p \in 1 .. Len(s) + 1, NEW t, NEW q \in p .. Len(s) + 1,
         q = Len(s) + 1 \/ s[q] = t, \A j \in p .. q - 1 : s[j] # t
  PROVE  Until(s, p, t) = q
BY UntilFinds

\* z is x and behind it y.
Joins(S, x, y, z) ==
  /\ z \in Seq(S) /\ Len(z) = Len(x) + Len(y)
  /\ \A i \in 1 .. Len(x) : z[i] = x[i]
  /\ \A j \in 1 .. Len(y) : z[Len(x) + j] = y[j]

\* x \o y is x and behind it y.
LEMMA Concatenation ==
  ASSUME NEW S, NEW x \in Seq(S), NEW y \in Seq(S)
  PROVE  Joins(S, x, y, x \o y)
BY DEF Joins

\* What FlattenSeq does.
Flattens(ss, N, g) ==
  /\ FlattenSeq(ss) = g[N] /\ g[1] = ss[1]
  /\ \A i \in 2 .. N : g[i] = g[i - 1] \o ss[i]

\* FlattenSeq appends one sequence after the other.
LEMMA Flattening ==
  ASSUME NEW S, NEW N \in Nat, N >= 1, NEW ss, ss \in [1 .. N -> Seq(S)]
  PROVE  \E g : Flattens(ss, N, g)
<1> DEFINE step == [i \in 1 .. N |-> [x \in Seq(S) |-> x \o ss[i]]]
           Flat(g) == g = [i \in 1 .. N |-> IF i = 1 THEN ss[i] ELSE g[i - 1] \o ss[i]]
<1>1. Len(ss) = N /\ \A i \in 1 .. N : ss[i] \in Seq(S)
  OBVIOUS
<1>2. step \in [1 .. N -> [Seq(S) -> Seq(S)]] /\ \A i \in 1 .. N, x \in Seq(S) : step[i][x] = x \o ss[i]
  BY <1>1
<1>3. <<>> \in Seq(S) /\ \A x \in Seq(S) : <<>> \o x = x
  OBVIOUS
<1> HIDE DEF step
<1>4. PICK f : Chain(Seq(S), <<>>, N, step, f)
  BY <1>2, <1>3, Recursion, Zenon
<1>5. ASSUME NEW i \in 1 .. N PROVE f[i - 1] \in Seq(S) /\ f[i] = f[i - 1] \o ss[i]
  <2>1. f[i - 1] \in Seq(S)
    BY <1>4 DEF Chain
  <2> QED
    BY <1>2, <1>4, <2>1 DEF Chain
<1>6. f[1] = ss[1]
  <2>1. f[1] = f[0] \o ss[1] /\ ss[1] \in Seq(S)
    <3>1. 1 \in 1 .. N /\ 1 - 1 = 0
      OBVIOUS
    <3> QED
      BY <1>1, <1>5, <3>1
  <2> QED
    BY <1>3, <1>4, <2>1, Zenon DEF Chain
<1>7. Flat([i \in 1 .. N |-> f[i]])
  <2>1. ASSUME NEW i \in 1 .. N PROVE f[i] = IF i = 1 THEN ss[i] ELSE [j \in 1 .. N |-> f[j]][i - 1] \o ss[i]
    <3>1. i # 1 => [j \in 1 .. N |-> f[j]][i - 1] = f[i - 1]
      OBVIOUS
    <3> QED
      BY <1>5, <1>6, <3>1
  <2> QED
    BY <2>1, Zenon
<1>8. PICK g : Flat(g) /\ FlattenSeq(ss) = g[N]
  <2> DEFINE c == CHOOSE g : Flat(g)
  <2>1. Flat(c)
    BY <1>7
  <2>2. FlattenSeq(ss) = c[N]
    BY <1>1 DEF FlattenSeq
  <2> QED
    BY <2>1, <2>2
<1>9. \A i \in 1 .. N : g[i] = IF i = 1 THEN ss[i] ELSE g[i - 1] \o ss[i]
  BY <1>8, Zenon
<1>10. g[1] = ss[1] /\ \A i \in 2 .. N : g[i] = g[i - 1] \o ss[i]
  <2> HIDE DEF Flat
  <2>1. 1 \in 1 .. N /\ \A i \in 2 .. N : i \in 1 .. N /\ i # 1
    OBVIOUS
  <2> QED
    BY <1>9, <2>1, Zenon
<1> HIDE DEF Flat
<1> QED
  BY <1>8, <1>10, Zenon DEF Flattens

\* N fields.
Fields(S, N) == {ss \in [1 .. N -> Seq(S)] : \A i \in 1 .. N : Len(ss[i]) = 19}

\* z is the fields ss, one behind the other.
JoinsFields(S, N, ss, z) ==
  /\ z \in Seq(S) /\ Len(z) = 19 * N
  /\ \A i \in 1 .. N, j \in 1 .. 19 : z[19 * (i - 1) + j] = ss[i][j]

\* The fields of a history lie behind one another, each 19 pieces long.
LEMMA FlattenFields ==
  ASSUME NEW S, NEW N \in Nat, N >= 1, NEW ss, ss \in Fields(S, N)
  PROVE  JoinsFields(S, N, ss, FlattenSeq(ss))
<1>1. ss \in [1 .. N -> Seq(S)] /\ \A i \in 1 .. N : ss[i] \in Seq(S) /\ Len(ss[i]) = 19
  BY DEF Fields
<1>2. PICK g : /\ FlattenSeq(ss) = g[N] /\ g[1] = ss[1]
               /\ \A i \in 2 .. N : g[i] = g[i - 1] \o ss[i]
  <2>1. PICK g : Flattens(ss, N, g)
    BY <1>1, Flattening
  <2> QED
    BY <2>1, Zenon DEF Flattens
<1> DEFINE Flattened(k) ==
      /\ g[k] \in Seq(S) /\ Len(g[k]) = 19 * k
      /\ \A i \in 1 .. k, j \in 1 .. 19 : g[k][19 * (i - 1) + j] = ss[i][j]
    T == {k \in Int : Flattened(k)}
<1>3. Flattened(1)
  <2>1. 1 \in 1 .. N
    OBVIOUS
  <2>2. ss[1] \in Seq(S) /\ Len(ss[1]) = 19 * 1
    BY <1>1, <2>1
  <2>3. \A i \in 1 .. 1, j \in 1 .. 19 : i = 1 /\ 19 * (i - 1) + j = j
    OBVIOUS
  <2> QED
    BY <1>2, <2>2, <2>3
<1>4. ASSUME NEW m \in 1 .. N - 1, Flattened(m) PROVE Flattened(m + 1)
  <2>1. g[m + 1] = g[m] \o ss[m + 1] /\ ss[m + 1] \in Seq(S) /\ Len(ss[m + 1]) = 19
    <3>1. m + 1 \in 2 .. N /\ m + 1 \in 1 .. N /\ (m + 1) - 1 = m
      OBVIOUS
    <3> QED
      BY <1>1, <1>2, <3>1
  <2>2. PICK x \in Seq(S), y \in Seq(S) : x = g[m] /\ y = ss[m + 1]
    BY <1>4, <2>1
  <2>3. Len(x) = 19 * m /\ Len(y) = 19
    BY <1>4, <2>1, <2>2
  <2>4. x \o y \in Seq(S) /\ Len(x \o y) = 19 * (m + 1)
    <3>1. x \o y \in Seq(S) /\ Len(x \o y) = Len(x) + Len(y)
      BY Concatenation DEF Joins
    <3> QED
      BY <2>3, <3>1
  <2>5. ASSUME NEW i \in 1 .. m, NEW j \in 1 .. 19 PROVE (x \o y)[19 * (i - 1) + j] = ss[i][j]
    <3>1. 19 * (i - 1) + j \in 1 .. Len(x)
      BY <2>3
    <3>2. (x \o y)[19 * (i - 1) + j] = x[19 * (i - 1) + j]
      BY <3>1, Concatenation DEF Joins
    <3> QED
      BY <1>4, <2>2, <3>2
  <2>6. ASSUME NEW j \in 1 .. 19 PROVE (x \o y)[19 * ((m + 1) - 1) + j] = ss[m + 1][j]
    <3>1. 19 * ((m + 1) - 1) + j = Len(x) + j
      BY <2>3
    <3>2. j \in 1 .. Len(y)
      BY <2>3
    <3>3. (x \o y)[Len(x) + j] = y[j]
      BY <3>2, Concatenation DEF Joins
    <3> QED
      BY <2>2, <3>1, <3>3
  <2>7. \A i \in 1 .. m + 1, j \in 1 .. 19 : (x \o y)[19 * (i - 1) + j] = ss[i][j]
    <3>1. \A i \in 1 .. m + 1 : i \in 1 .. m \/ i = m + 1
      OBVIOUS
    <3> QED
      BY <2>5, <2>6, <3>1
  <2> QED
    BY <2>1, <2>2, <2>4, <2>7
<1>5. Flattened(N)
  <2> HIDE DEF Flattened
  <2>1. 1 \in T /\ \A k \in 1 .. N - 1 : k \in T => k + 1 \in T
    BY <1>3, <1>4
  <2>2. \A k \in 1 .. N : k \in T
    <3> HIDE DEF T
    <3> QED
      BY <2>1, Induction
  <2> QED
    BY <2>2
<1> QED
  BY <1>2, <1>5 DEF JoinsFields

-----------------------------------------------------------------------------
(* The text of a sidecar.                                                  *)

\* All a text is made of.
Piece == Syntax \cup Word \cup Digits \cup Ratings \cup {"mask", "p", "name", "tag"}

\* z is the field of e with the number n.
IsField(n, e, z) ==
  /\ z \in Seq(Piece) /\ Len(z) = 19
  /\ z[1] = "li" /\ z[2] = "ws" /\ z[3] = "num=" /\ z[4] = n /\ z[5] = "quote"
  /\ z[6] = "ws" /\ z[7] = "operation=" /\ z[8] = e.operation /\ z[9] = "quote"
  /\ z[10] = "ws" /\ z[11] = "enabled=" /\ z[12] = e.enabled /\ z[13] = "quote"
  /\ z[14] = "ws" /\ z[15] = "params" /\ z[16] = e.params /\ z[17] = "quote"
  /\ z[18] = "/>" /\ z[19] = "ws"

\* A field is what IsField says.
LEMMA FieldIs ==
  ASSUME NEW n \in Digits, NEW e, e.operation \in Piece, e.enabled \in Piece, e.params \in Piece
  PROVE  IsField(n, e, Field(n, e))
<1>1. n \in Piece /\ Syntax \subseteq Piece
  BY DEF Piece
<1> QED
  BY <1>1 DEF Field, Syntax, IsField

\* What the parts of an edit are.
LEMMA EditIs ==
  ASSUME NEW e \in Edit
  PROVE  /\ e.operation \in Word /\ e.enabled \in {"0", "1"} /\ e.params \in Word
         /\ e.operation \in Piece /\ e.enabled \in Piece /\ e.params \in Piece
BY DEF Edit, Piece, Digits

\* The number of an edit is one the parser takes.
LEMMA NumIsDigit == ASSUME NEW i \in Nat PROVE Num(i) \in Digits
<1>1. ((i - 1) % 7) + 1 \in 1 .. 7
  OBVIOUS
<1> QED
  BY <1>1 DEF Num, Digits

\* z is a sequence of the N fields ss.
IsSequence(N, ss, z) ==
  /\ z \in Seq(Piece) /\ Len(z) = 19 * N + 4 /\ z[1] = "Seq" /\ z[2] = "ws"
  /\ \A i \in 1 .. N, j \in 1 .. 19 : z[2 + (19 * (i - 1) + j)] = ss[i][j]
  /\ z[19 * N + 3] = "/Seq" /\ z[19 * N + 4] = "ws"

\* A sequence of fields is what IsSequence says.
LEMMA SequenceIs ==
  ASSUME NEW N \in Nat, N >= 1, NEW ss, ss \in Fields(Piece, N)
  PROVE  IsSequence(N, ss, Sequence(ss))
<1>1. PICK x : x = FlattenSeq(ss) /\ JoinsFields(Piece, N, ss, x)
  BY FlattenFields
<1>2. ss # <<>>
  BY DEF Fields
<1> DEFINE a == <<"Seq", "ws">>
           b == <<"/Seq", "ws">>
<1>3. a \in Seq(Piece) /\ Len(a) = 2 /\ a[1] = "Seq" /\ a[2] = "ws"
  BY DEF Piece, Syntax
<1>4. b \in Seq(Piece) /\ Len(b) = 2 /\ b[1] = "/Seq" /\ b[2] = "ws"
  BY DEF Piece, Syntax
<1>5. Sequence(ss) = (a \o x) \o b
  BY <1>1, <1>2, Zenon DEF Sequence
<1> HIDE DEF a, b
<1>6. PICK y : y = a \o x /\ Joins(Piece, a, x, y)
  BY <1>1, <1>3, Concatenation, Zenon DEF JoinsFields
<1>7. PICK z : z = y \o b /\ Joins(Piece, y, b, z)
  <2>1. y \in Seq(Piece)
    BY <1>6 DEF Joins
  <2> QED
    BY <1>4, <2>1, Concatenation, Zenon
<1>8. Len(x) = 19 * N /\ Len(y) = 2 + Len(x)
  BY <1>1, <1>3, <1>6 DEF JoinsFields, Joins
<1>9. ASSUME NEW i \in 1 .. N, NEW j \in 1 .. 19 PROVE z[2 + (19 * (i - 1) + j)] = ss[i][j]
  <2>1. 19 * (i - 1) + j \in 1 .. 19 * N /\ 2 + (19 * (i - 1) + j) \in 1 .. 2 + 19 * N
    OBVIOUS
  <2>2. z[2 + (19 * (i - 1) + j)] = y[2 + (19 * (i - 1) + j)]
    BY <1>7, <1>8, <2>1, Zenon DEF Joins
  <2>3. y[2 + (19 * (i - 1) + j)] = x[19 * (i - 1) + j]
    BY <1>3, <1>6, <1>8, <2>1, Zenon DEF Joins
  <2> QED
    BY <1>1, <2>2, <2>3, Zenon DEF JoinsFields
<1>10. z[1] = "Seq" /\ z[2] = "ws"
  BY <1>3, <1>6, <1>7, <1>8 DEF Joins
<1>11. z \in Seq(Piece) /\ Len(z) = 19 * N + 4
  BY <1>4, <1>7, <1>8 DEF Joins
<1>12. z[Len(y) + 1] = "/Seq" /\ z[Len(y) + 2] = "ws"
  BY <1>4, <1>7, <1>8 DEF Joins
<1>13. Len(y) + 1 = 19 * N + 3 /\ Len(y) + 2 = 19 * N + 4
  BY <1>8
<1> QED
  BY <1>5, <1>6, <1>7, <1>9, <1>10, <1>11, <1>12, <1>13, Zenon DEF IsSequence

\* x is the part of z that begins behind the first k pieces.
Part(x, z, k) == k + Len(x) <= Len(z) /\ \A i \in 1 .. Len(x) : z[k + i] = x[i]

\* The second of two sequences is a part of both together,
LEMMA PartJoined ==
  ASSUME NEW S, NEW x, x \in Seq(S), NEW y, y \in Seq(S)
  PROVE  /\ x \o y \in Seq(S) /\ Len(x \o y) = Len(x) + Len(y)
         /\ Part(y, x \o y, Len(x))
BY Concatenation DEF Joins, Part

\* and a part of the first is one of both.
LEMMA PartKept ==
  ASSUME NEW S, NEW x, x \in Seq(S), NEW y, y \in Seq(S),
         NEW p, p \in Seq(S), NEW k \in Nat, Part(p, x, k)
  PROVE  Part(p, x \o y, k)
<1>1. PICK z : z = x \o y /\ Joins(S, x, y, z)
  BY Concatenation
<1>2. Len(x) \in Nat /\ Len(y) \in Nat /\ Len(p) \in Nat /\ z \in Seq(S) /\ Len(z) = Len(x) + Len(y)
  BY <1>1 DEF Joins
<1>3. k + Len(p) <= Len(z)
  BY <1>2 DEF Part
<1>4. ASSUME NEW i \in 1 .. Len(p) PROVE z[k + i] = p[i]
  <2>1. k + i \in 1 .. Len(x)
    BY <1>2 DEF Part
  <2>2. z[k + i] = x[k + i]
    BY <1>1, <2>1, Zenon DEF Joins
  <2> QED
    BY <2>2, Zenon DEF Part
<1>5. Part(p, z, k)
  BY <1>3, <1>4 DEF Part
<1> QED
  BY <1>1, <1>5, Zenon

\* The parts of a text.
Attributes(d) ==
  <<"DerivedFrom=", d.raw[1], "dot", d.raw[2], "quote", "ws", "Rating=", d.rating, "quote", "ws">>

Masks(d)   == Sequence(IF d.masked THEN <<Field("0", Mask)>> ELSE <<>>)
History    == <<"history", "ws">>
EditsIn(d) == Sequence([i \in DOMAIN d.edits |-> Field(Num(i), d.edits[i])])

Others(d) ==
  IF d.people THEN <<"Seq", "ws", "li", ">", "name", "/Seq">> ELSE <<"Bag", "ws", "li", ">", "tag", "/Bag">>

\* Where the history begins.
HistoryIn(d) == 11 + Len(Masks(d))

\* s is made of the parts of the text of d.
TextIs(d, s) ==
  /\ s \in Seq(Piece) /\ Len(s) = HistoryIn(d) + Len(EditsIn(d)) + 7
  /\ Part(Attributes(d), s, 0) /\ Part(Masks(d), s, 10) /\ Part(History, s, HistoryIn(d) - 1)
  /\ Part(EditsIn(d), s, HistoryIn(d) + 1) /\ Part(Others(d), s, HistoryIn(d) + 1 + Len(EditsIn(d)))

\* How long the attributes are.
LEMMA AttributesIs ==
  ASSUME NEW d \in Document
  PROVE  Attributes(d) \in Seq(Piece) /\ Len(Attributes(d)) = 10
<1>1. d.raw[1] \in Piece /\ d.raw[2] \in Piece /\ d.rating \in Piece
  BY DEF Document, Piece
<1>2. Syntax \subseteq Piece
  BY DEF Piece
<1> QED
  BY <1>1, <1>2 DEF Attributes, Syntax

\* How long the tags or names of people are.
LEMMA OthersIs ==
  ASSUME NEW d
  PROVE  Others(d) \in Seq(Piece) /\ Len(Others(d)) = 6
<1>1. CASE d.people
  BY <1>1 DEF Others, Piece, Syntax
<1>2. CASE ~d.people
  BY <1>2 DEF Others, Piece, Syntax
<1> QED
  BY <1>1, <1>2

\* How long the tag of the history is.
LEMMA HistoryIs == History \in Seq(Piece) /\ Len(History) = 2
BY DEF History, Piece, Syntax

\* The fields of the edits of a document.
LEMMA FieldsOf ==
  ASSUME NEW es \in Seq(Edit), es # <<>>, NEW num, num \in [1 .. Len(es) -> Digits]
  PROVE  /\ Len(es) \in Nat /\ Len(es) >= 1
         /\ [i \in 1 .. Len(es) |-> Field(num[i], es[i])] \in Fields(Piece, Len(es))
<1>1. ASSUME NEW i \in 1 .. Len(es)
      PROVE  Field(num[i], es[i]) \in Seq(Piece) /\ Len(Field(num[i], es[i])) = 19
  <2>1. num[i] \in Digits /\ es[i] \in Edit
    OBVIOUS
  <2>2. IsField(num[i], es[i], Field(num[i], es[i]))
    <3>1. es[i].operation \in Piece /\ es[i].enabled \in Piece /\ es[i].params \in Piece
      BY <2>1, EditIs
    <3> QED
      BY <2>1, <3>1, FieldIs
  <2> QED
    BY <2>2 DEF IsField
<1>2. Len(es) \in Nat /\ Len(es) >= 1
  OBVIOUS
<1> DEFINE F == [i \in 1 .. Len(es) |-> Field(num[i], es[i])]
<1>3. F \in [1 .. Len(es) -> Seq(Piece)] /\ \A i \in 1 .. Len(es) : Len(F[i]) = 19
  BY <1>1
<1> QED
  BY <1>2, <1>3, Zenon DEF Fields

\* The sequence of no fields.
LEMMA EmptySequence ==
  /\ Sequence(<<>>) = <<"Seq/", "ws">> /\ Sequence(<<>>) \in Seq(Piece) /\ Len(Sequence(<<>>)) = 2
  /\ Sequence(<<>>)[1] = "Seq/" /\ Sequence(<<>>)[2] = "ws"
BY DEF Sequence, Piece, Syntax

\* The history of d.edits.
LEMMA EditsAre ==
  ASSUME NEW d \in Document
  PROVE  /\ d.edits = <<>> => EditsIn(d) = Sequence(<<>>)
         /\ d.edits # <<>> => /\ Len(d.edits) \in Nat /\ Len(d.edits) >= 1
                              /\ \A i \in 1 .. Len(d.edits) : d.edits[i] \in Edit
                              /\ IsSequence(Len(d.edits),
                                   [i \in 1 .. Len(d.edits) |-> Field(Num(i), d.edits[i])], EditsIn(d))
<1>1. d.edits \in Seq(Edit)
  BY DEF Document
<1>2. PICK es \in Seq(Edit) : es = d.edits
  BY <1>1
<1>3. ASSUME es = <<>> PROVE Sequence([i \in DOMAIN es |-> Field(Num(i), es[i])]) = Sequence(<<>>)
  <2>1. [i \in DOMAIN es |-> Field(Num(i), es[i])] = <<>>
    BY <1>3
  <2> QED
    BY <2>1, Zenon
<1>4. ASSUME es # <<>>
      PROVE /\ Len(es) \in Nat /\ Len(es) >= 1
            /\ \A i \in 1 .. Len(es) : es[i] \in Edit
            /\ IsSequence(Len(es), [i \in 1 .. Len(es) |-> Field(Num(i), es[i])],
                          Sequence([i \in DOMAIN es |-> Field(Num(i), es[i])]))
  <2> DEFINE num == [i \in 1 .. Len(es) |-> Num(i)]
  <2>1. num \in [1 .. Len(es) -> Digits]
    BY NumIsDigit
  <2>2. [i \in 1 .. Len(es) |-> Field(num[i], es[i])] = [i \in 1 .. Len(es) |-> Field(Num(i), es[i])]
    OBVIOUS
  <2> HIDE DEF num
  <2>3. PICK F : /\ F = [i \in 1 .. Len(es) |-> Field(Num(i), es[i])]
                 /\ Len(es) \in Nat /\ Len(es) >= 1 /\ F \in Fields(Piece, Len(es))
    BY <1>4, <2>1, <2>2, FieldsOf
  <2>4. DOMAIN es = 1 .. Len(es) /\ \A i \in 1 .. Len(es) : es[i] \in Edit
    OBVIOUS
  <2>5. IsSequence(Len(es), F, Sequence(F))
    BY <2>3, SequenceIs
  <2> QED
    BY <2>3, <2>4, <2>5, Zenon
<1> QED
  BY <1>2, <1>3, <1>4, Zenon DEF EditsIn

\* The history of the masks has no tag of a history in it.
LEMMA MasksAre ==
  ASSUME NEW d \in Document
  PROVE  /\ Masks(d) \in Seq(Piece) /\ Len(Masks(d)) \in Nat
         /\ \A i \in 1 .. Len(Masks(d)) : Masks(d)[i] \notin {"history"}
<1>1. CASE ~d.masked
  <2>1. Masks(d) = Sequence(<<>>)
    BY <1>1, Zenon DEF Masks
  <2>2. \A i \in 1 .. 2 : i = 1 \/ i = 2
    OBVIOUS
  <2> QED
    BY <2>1, <2>2, EmptySequence
<1>2. CASE d.masked
  <2>1. PICK f : f = Field("0", Mask) /\ IsField("0", Mask, f)
    <3>1. "0" \in Digits /\ Mask.operation \in Piece /\ Mask.enabled \in Piece /\ Mask.params \in Piece
      BY DEF Digits, Mask, Piece
    <3> QED
      BY <3>1, FieldIs
  <2>2. \A j \in 1 .. 19 : f[j] # "history"
    <3>1. f[8] = "mask" /\ f[12] = "1" /\ f[16] = "p"
      BY <2>1 DEF IsField, Mask
    <3>2. /\ f[1] # "history" /\ f[2] # "history" /\ f[3] # "history" /\ f[4] # "history"
          /\ f[5] # "history" /\ f[6] # "history" /\ f[7] # "history" /\ f[8] # "history"
          /\ f[9] # "history" /\ f[10] # "history" /\ f[11] # "history" /\ f[12] # "history"
          /\ f[13] # "history" /\ f[14] # "history" /\ f[15] # "history" /\ f[16] # "history"
          /\ f[17] # "history" /\ f[18] # "history" /\ f[19] # "history"
      BY <2>1, <3>1 DEF IsField
    <3>3. \A j \in 1 .. 19 : j \in {1, 2, 3, 4, 5, 6, 7, 8, 9, 10, 11, 12, 13, 14, 15, 16, 17, 18, 19}
      OBVIOUS
    <3> QED
      BY <3>2, <3>3
  <2>3. PICK ss : ss = <<f>> /\ ss \in Fields(Piece, 1) /\ ss[1] = f
    <3>1. <<f>> \in [1 .. 1 -> Seq(Piece)] /\ <<f>>[1] = f /\ \A i \in 1 .. 1 : Len(<<f>>[i]) = 19
      BY <2>1 DEF IsField
    <3> QED
      BY <3>1 DEF Fields
  <2>4. PICK z : z = Masks(d) /\ IsSequence(1, ss, z)
    <3>1. IsSequence(1, ss, Sequence(ss))
      BY <2>3, SequenceIs
    <3>2. Masks(d) = Sequence(ss)
      BY <1>2, <2>1, <2>3, Zenon DEF Masks
    <3> QED
      BY <3>1, <3>2, Zenon
  <2>5. /\ z \in Seq(Piece) /\ Len(z) = 23 /\ z[1] = "Seq" /\ z[2] = "ws" /\ z[22] = "/Seq" /\ z[23] = "ws"
        /\ \A j \in 1 .. 19 : z[2 + j] = f[j]
    BY <2>3, <2>4 DEF IsSequence
  <2>6. ASSUME NEW i \in 3 .. 21 PROVE z[i] # "history"
    <3>1. i - 2 \in 1 .. 19 /\ 2 + (i - 2) = i
      OBVIOUS
    <3> QED
      BY <2>2, <2>5, <3>1
  <2>7. \A i \in 1 .. 23 : i \in {1, 2, 22, 23} \/ i \in 3 .. 21
    OBVIOUS
  <2> QED
    BY <2>4, <2>5, <2>6, <2>7
<1> QED
  BY <1>1, <1>2

\* A text is made of its parts.
LEMMA TextIsText ==
  ASSUME NEW d \in Document
  PROVE  TextIs(d, Text(d)) /\ Len(Masks(d)) \in Nat /\ Len(EditsIn(d)) \in Nat
<1>1. PICK a, b, c, e, t :
        /\ a = Attributes(d) /\ b = Masks(d) /\ c = History /\ e = EditsIn(d) /\ t = Others(d)
  OBVIOUS
<1>2. /\ a \in Seq(Piece) /\ Len(a) = 10 /\ b \in Seq(Piece) /\ Len(b) \in Nat
      /\ c \in Seq(Piece) /\ Len(c) = 2 /\ t \in Seq(Piece) /\ Len(t) = 6
  BY <1>1, AttributesIs, MasksAre, HistoryIs, OthersIs
<1>3. e \in Seq(Piece) /\ Len(e) \in Nat
  <2>1. CASE d.edits = <<>>
    <3>1. EditsIn(d) = Sequence(<<>>)
      BY <2>1, EditsAre
    <3>2. e \in Seq(Piece) /\ Len(e) = 2
      BY <1>1, <3>1, EmptySequence, Zenon
    <3> QED
      BY <3>2
  <2>2. CASE d.edits # <<>>
    <3>1. PICK N, ss : N \in Nat /\ IsSequence(N, ss, e)
      BY <1>1, <2>2, EditsAre, Zenon
    <3>2. e \in Seq(Piece)
      BY <3>1 DEF IsSequence
    <3> QED
      BY <3>2
  <2> QED
    BY <2>1, <2>2
<1>4. Text(d) = (((a \o b) \o c) \o e) \o t
  BY <1>1, Zenon DEF Text, Attributes, Masks, History, EditsIn, Others
<1>5. Part(a, a, 0)
  BY <1>2 DEF Part
<1>6. PICK x : x = a \o b /\ x \in Seq(Piece) /\ Len(x) = Len(a) + Len(b) /\ Part(b, x, Len(a)) /\ Part(a, x, 0)
  <2>1. a \o b \in Seq(Piece) /\ Len(a \o b) = Len(a) + Len(b) /\ Part(b, a \o b, Len(a))
    BY <1>2, PartJoined
  <2>2. Part(a, a \o b, 0)
    <3>1. 0 \in Nat
      OBVIOUS
    <3> QED
      BY <1>2, <1>5, <3>1, PartKept
  <2> QED
    BY <2>1, <2>2
<1>7. PICK y : /\ y = x \o c /\ y \in Seq(Piece) /\ Len(y) = Len(x) + Len(c)
               /\ Part(c, y, Len(x)) /\ Part(a, y, 0) /\ Part(b, y, 10)
  <2>1. x \o c \in Seq(Piece) /\ Len(x \o c) = Len(x) + Len(c) /\ Part(c, x \o c, Len(x))
    BY <1>2, <1>6, PartJoined
  <2>2. 0 \in Nat /\ 10 \in Nat /\ Part(a, x, 0) /\ Part(b, x, 10)
    BY <1>2, <1>6
  <2>3. Part(a, x \o c, 0) /\ Part(b, x \o c, 10)
    BY <1>2, <1>6, <2>2, PartKept
  <2> QED
    BY <2>1, <2>3
<1>8. PICK z : /\ z = y \o e /\ z \in Seq(Piece) /\ Len(z) = Len(y) + Len(e)
               /\ Part(e, z, Len(y)) /\ Part(a, z, 0) /\ Part(b, z, 10) /\ Part(c, z, Len(x))
  <2>1. y \o e \in Seq(Piece) /\ Len(y \o e) = Len(y) + Len(e) /\ Part(e, y \o e, Len(y))
    BY <1>3, <1>7, PartJoined
  <2>2. 0 \in Nat /\ 10 \in Nat /\ Len(x) \in Nat
    BY <1>2, <1>6
  <2>3. Part(a, y \o e, 0) /\ Part(b, y \o e, 10) /\ Part(c, y \o e, Len(x))
    BY <1>2, <1>3, <1>7, <2>2, PartKept
  <2> QED
    BY <2>1, <2>3
<1>9. PICK s : /\ s = z \o t /\ s \in Seq(Piece) /\ Len(s) = Len(z) + Len(t)
               /\ Part(t, s, Len(z)) /\ Part(a, s, 0) /\ Part(b, s, 10) /\ Part(c, s, Len(x)) /\ Part(e, s, Len(y))
  <2>1. z \o t \in Seq(Piece) /\ Len(z \o t) = Len(z) + Len(t) /\ Part(t, z \o t, Len(z))
    BY <1>2, <1>8, PartJoined
  <2>2. 0 \in Nat /\ 10 \in Nat /\ Len(x) \in Nat /\ Len(y) \in Nat
    BY <1>2, <1>6, <1>7
  <2>3. Part(a, z \o t, 0) /\ Part(b, z \o t, 10) /\ Part(c, z \o t, Len(x)) /\ Part(e, z \o t, Len(y))
    BY <1>2, <1>3, <1>8, <2>2, PartKept
  <2> QED
    BY <2>1, <2>3
<1>10. /\ Len(s) = HistoryIn(d) + Len(EditsIn(d)) + 7 /\ HistoryIn(d) - 1 = Len(x)
       /\ HistoryIn(d) + 1 = Len(y) /\ HistoryIn(d) + 1 + Len(EditsIn(d)) = Len(z)
  BY <1>1, <1>2, <1>3, <1>6, <1>7, <1>8, <1>9 DEF HistoryIn
<1> QED
  BY <1>1, <1>2, <1>3, <1>4, <1>6, <1>7, <1>8, <1>9, <1>10, Zenon DEF TextIs

-----------------------------------------------------------------------------
(* Where the parts of a text are, and where those of its beginning.        *)

\* Where the i-th edit begins.
EditAt(d, i) == HistoryIn(d) + 4 + 19 * (i - 1)

\* What is where.
AttributesAt(d, s) ==
  /\ 10 <= Len(s)
  /\ s[1] = "DerivedFrom=" /\ s[2] = d.raw[1] /\ s[3] = "dot" /\ s[4] = d.raw[2] /\ s[5] = "quote"
  /\ s[6] = "ws" /\ s[7] = "Rating=" /\ s[8] = d.rating /\ s[9] = "quote" /\ s[10] = "ws"

\* The first tag of a history in s is at HistoryIn.
HistoryStarts(d, s) ==
  /\ HistoryIn(d) + 1 <= Len(s)
  /\ s[HistoryIn(d)] = "history" /\ \A k \in 1 .. HistoryIn(d) - 1 : s[k] # "history"
  /\ s[HistoryIn(d) + 1] = "ws"

\* z is the field of e that begins at k.
FieldAt(n, e, s, k) ==
  /\ k + 18 <= Len(s)
  /\ s[k] = "li" /\ s[k + 1] = "ws" /\ s[k + 2] = "num=" /\ s[k + 3] = n /\ s[k + 4] = "quote"
  /\ s[k + 5] = "ws" /\ s[k + 6] = "operation=" /\ s[k + 7] = e.operation /\ s[k + 8] = "quote"
  /\ s[k + 9] = "ws" /\ s[k + 10] = "enabled=" /\ s[k + 11] = e.enabled /\ s[k + 12] = "quote"
  /\ s[k + 13] = "ws" /\ s[k + 14] = "params" /\ s[k + 15] = e.params /\ s[k + 16] = "quote"
  /\ s[k + 17] = "/>" /\ s[k + 18] = "ws"

\* The fields of the edits of d follow it.
FieldsAt(d, s) ==
  /\ Len(s) = EditAt(d, Len(d.edits) + 1) + 7
  /\ s[HistoryIn(d) + 2] = "Seq" /\ s[HistoryIn(d) + 3] = "ws"
  /\ \A i \in 1 .. Len(d.edits) : FieldAt(Num(i), d.edits[i], s, EditAt(d, i))
  /\ s[EditAt(d, Len(d.edits) + 1)] = "/Seq"

\* d has no edits, and the only sequence there may be is that of the people.
NoFieldsAt(d, s) ==
  /\ Len(s) = HistoryIn(d) + 9
  /\ ~d.people => \A k \in HistoryIn(d) .. Len(s) : s[k] # "Seq"

\* All of it.
Positions(d, s) ==
  /\ s \in Seq(Piece) /\ HistoryIn(d) \in Nat /\ HistoryIn(d) >= 11
  /\ AttributesAt(d, s) /\ HistoryStarts(d, s)
  /\ d.edits # <<>> => FieldsAt(d, s)
  /\ d.edits = <<>> => NoFieldsAt(d, s)

\* The attributes are where AttributesAt says.
LEMMA AttributesFound ==
  ASSUME NEW d \in Document, NEW s, TextIs(d, s)
  PROVE  AttributesAt(d, s)
<1>1. PICK a : a = Attributes(d) /\ Part(a, s, 0) /\ Len(a) = 10
  BY AttributesIs DEF TextIs
<1>2. 0 + Len(a) <= Len(s) /\ \A i \in 1 .. 10 : s[i] = a[i]
  BY <1>1 DEF Part
<1>3. /\ a[1] = "DerivedFrom=" /\ a[2] = d.raw[1] /\ a[3] = "dot" /\ a[4] = d.raw[2] /\ a[5] = "quote"
      /\ a[6] = "ws" /\ a[7] = "Rating=" /\ a[8] = d.rating /\ a[9] = "quote" /\ a[10] = "ws"
  BY <1>1 DEF Attributes
<1> QED
  BY <1>1, <1>2, <1>3 DEF AttributesAt

\* The first tag of a history is that of the edits.
LEMMA HistoryFound ==
  ASSUME NEW d \in Document, NEW s, TextIs(d, s)
  PROVE  /\ HistoryIn(d) \in Nat /\ HistoryIn(d) >= 11 /\ HistoryStarts(d, s)
<1>1. PICK b : b = Masks(d) /\ b \in Seq(Piece) /\ Len(b) \in Nat /\ Part(b, s, 10)
               /\ \A i \in 1 .. Len(b) : b[i] \notin {"history"}
  BY MasksAre DEF TextIs
<1>2. PICK H \in Nat : H = HistoryIn(d) /\ H = 11 + Len(b)
  BY <1>1 DEF HistoryIn
<1>3. /\ Part(History, s, H - 1) /\ History[1] = "history" /\ History[2] = "ws" /\ Len(History) = 2
  BY <1>2 DEF TextIs, History
<1>4. H + 1 <= Len(s) /\ s[H] = "history" /\ s[H + 1] = "ws"
  BY <1>2, <1>3 DEF Part
<1>5. ASSUME NEW k \in 1 .. H - 1 PROVE s[k] # "history"
  <2>1. CASE k <= 10
    <3>1. k \in {1, 2, 3, 4, 5, 6, 7, 8, 9, 10}
      BY <2>1
    <3>2. AttributesAt(d, s)
      BY AttributesFound
    <3>3. d.raw[1] # "history" /\ d.raw[2] # "history" /\ d.rating # "history"
      BY DEF Document, Word, Syntax, Ratings
    <3> QED
      BY <3>1, <3>2, <3>3 DEF AttributesAt
  <2>2. CASE k > 10
    <3>1. k - 10 \in 1 .. Len(b) /\ 10 + (k - 10) = k
      BY <1>2, <2>2
    <3> QED
      BY <1>1, <3>1 DEF Part
  <2> QED
    BY <2>1, <2>2
<1> QED
  BY <1>2, <1>4, <1>5 DEF HistoryStarts

\* The fields are where FieldsAt says.
LEMMA FieldsFound ==
  ASSUME NEW d \in Document, NEW s, TextIs(d, s), d.edits # <<>>
  PROVE  FieldsAt(d, s)
<1>1. PICK N, ss, e :
        /\ N = Len(d.edits) /\ N \in Nat /\ N >= 1 /\ e = EditsIn(d) /\ IsSequence(N, ss, e)
        /\ ss = [i \in 1 .. N |-> Field(Num(i), d.edits[i])]
        /\ \A i \in 1 .. N : d.edits[i] \in Edit
  BY EditsAre
<1>2. PICK H : H = HistoryIn(d) /\ H \in Nat /\ Part(e, s, H + 1) /\ Len(s) = H + Len(e) + 7
  BY <1>1, HistoryFound DEF TextIs
<1>n. N \in Nat /\ N >= 1 /\ H \in Nat
  BY <1>1, <1>2, Zenon
<1>3. /\ Len(e) = 19 * N + 4 /\ e[1] = "Seq" /\ e[2] = "ws" /\ e[19 * N + 3] = "/Seq"
      /\ \A i \in 1 .. N, j \in 1 .. 19 : e[2 + (19 * (i - 1) + j)] = ss[i][j]
  BY <1>1, Zenon DEF IsSequence
<1>4. /\ Len(s) = EditAt(d, N + 1) + 7 /\ EditAt(d, N + 1) = (H + 1) + (19 * N + 3)
  <2>1. EditAt(d, N + 1) = H + 4 + 19 * ((N + 1) - 1)
    BY <1>2 DEF EditAt
  <2>2. 19 * ((N + 1) - 1) = 19 * N
    BY <1>1
  <2> QED
    <3>1. Len(s) = H + (19 * N + 4) + 7 /\ EditAt(d, N + 1) = H + 4 + 19 * N
      BY <1>2, <1>3, <2>1, <2>2, Zenon
    <3>2. H + (19 * N + 4) + 7 = (H + 4 + 19 * N) + 7 /\ H + 4 + 19 * N = (H + 1) + (19 * N + 3)
      BY <1>n
    <3> QED
      BY <3>1, <3>2, Zenon
<1>5. s[H + 2] = "Seq" /\ s[H + 3] = "ws" /\ s[(H + 1) + (19 * N + 3)] = "/Seq"
  <2>1. 1 \in 1 .. Len(e) /\ 2 \in 1 .. Len(e) /\ 19 * N + 3 \in 1 .. Len(e)
    BY <1>1, <1>3
  <2>2. (H + 1) + 1 = H + 2 /\ (H + 1) + 2 = H + 3
    BY <1>2
  <2>3. \A i \in 1 .. Len(e) : s[(H + 1) + i] = e[i]
    BY <1>2, Zenon DEF Part
  <2>4. s[(H + 1) + 1] = e[1] /\ s[(H + 1) + 2] = e[2] /\ s[(H + 1) + (19 * N + 3)] = e[19 * N + 3]
    BY <2>1, <2>3, Zenon
  <2> QED
    BY <1>3, <2>2, <2>4, Zenon
<1>6. ASSUME NEW i \in 1 .. N PROVE FieldAt(Num(i), d.edits[i], s, EditAt(d, i))
  <2>1. PICK f : f = ss[i] /\ IsField(Num(i), d.edits[i], f)
    BY <1>1, EditIs, NumIsDigit, FieldIs
  <2>2. PICK k \in Nat : k = EditAt(d, i) /\ k = H + 4 + 19 * (i - 1) /\ k + 18 <= Len(s)
    <3>1. PICK m \in Nat : m = 19 * (i - 1) /\ m + 19 <= 19 * N
      BY <1>1
    <3>2. EditAt(d, i) = H + 4 + m
      BY <1>2, <3>1 DEF EditAt
    <3> QED
      BY <1>1, <1>2, <1>3, <3>1, <3>2
  <2>3. ASSUME NEW j \in 0 .. 18 PROVE s[k + j] = f[j + 1]
    <3>1. PICK m \in Nat : m = 19 * (i - 1) /\ m + 19 <= 19 * N
      BY <1>1
    <3>2. 2 + (m + (j + 1)) \in 1 .. Len(e) /\ (H + 1) + (2 + (m + (j + 1))) = k + j /\ j + 1 \in 1 .. 19
      <4>1. k = H + 4 + m /\ Len(e) = 19 * N + 4
        BY <1>3, <2>2, <3>1, Zenon
      <4>2. /\ 2 + (m + (j + 1)) \in 1 .. 19 * N + 4
            /\ (H + 1) + (2 + (m + (j + 1))) = (H + 4 + m) + j /\ j + 1 \in 1 .. 19
        BY <1>n, <3>1
      <4> QED
        BY <4>1, <4>2, Zenon
    <3>3. s[(H + 1) + (2 + (m + (j + 1)))] = e[2 + (m + (j + 1))]
      BY <1>2, <3>2, Zenon DEF Part
    <3>4. e[2 + (m + (j + 1))] = ss[i][j + 1]
      BY <1>3, <3>1, <3>2, Zenon
    <3> QED
      BY <2>1, <3>2, <3>3, <3>4, Zenon
  <2>4. /\ s[k] = f[1] /\ s[k + 1] = f[2] /\ s[k + 2] = f[3] /\ s[k + 3] = f[4] /\ s[k + 4] = f[5]
        /\ s[k + 5] = f[6] /\ s[k + 6] = f[7] /\ s[k + 7] = f[8] /\ s[k + 8] = f[9] /\ s[k + 9] = f[10]
        /\ s[k + 10] = f[11] /\ s[k + 11] = f[12] /\ s[k + 12] = f[13] /\ s[k + 13] = f[14]
        /\ s[k + 14] = f[15] /\ s[k + 15] = f[16] /\ s[k + 16] = f[17] /\ s[k + 17] = f[18] /\ s[k + 18] = f[19]
    <3>1. /\ 0 \in 0 .. 18 /\ 1 \in 0 .. 18 /\ 2 \in 0 .. 18 /\ 3 \in 0 .. 18 /\ 4 \in 0 .. 18
          /\ 5 \in 0 .. 18 /\ 6 \in 0 .. 18 /\ 7 \in 0 .. 18 /\ 8 \in 0 .. 18 /\ 9 \in 0 .. 18
          /\ 10 \in 0 .. 18 /\ 11 \in 0 .. 18 /\ 12 \in 0 .. 18 /\ 13 \in 0 .. 18 /\ 14 \in 0 .. 18
          /\ 15 \in 0 .. 18 /\ 16 \in 0 .. 18 /\ 17 \in 0 .. 18 /\ 18 \in 0 .. 18
      OBVIOUS
    <3>2. /\ s[k + 0] = f[0 + 1] /\ s[k + 1] = f[1 + 1] /\ s[k + 2] = f[2 + 1] /\ s[k + 3] = f[3 + 1]
          /\ s[k + 4] = f[4 + 1] /\ s[k + 5] = f[5 + 1] /\ s[k + 6] = f[6 + 1] /\ s[k + 7] = f[7 + 1]
          /\ s[k + 8] = f[8 + 1] /\ s[k + 9] = f[9 + 1] /\ s[k + 10] = f[10 + 1] /\ s[k + 11] = f[11 + 1]
          /\ s[k + 12] = f[12 + 1] /\ s[k + 13] = f[13 + 1] /\ s[k + 14] = f[14 + 1] /\ s[k + 15] = f[15 + 1]
          /\ s[k + 16] = f[16 + 1] /\ s[k + 17] = f[17 + 1] /\ s[k + 18] = f[18 + 1]
      BY <2>3, <3>1, Zenon
    <3>3. /\ k + 0 = k /\ 0 + 1 = 1 /\ 1 + 1 = 2 /\ 2 + 1 = 3 /\ 3 + 1 = 4 /\ 4 + 1 = 5 /\ 5 + 1 = 6
          /\ 6 + 1 = 7 /\ 7 + 1 = 8 /\ 8 + 1 = 9 /\ 9 + 1 = 10 /\ 10 + 1 = 11 /\ 11 + 1 = 12
          /\ 12 + 1 = 13 /\ 13 + 1 = 14 /\ 14 + 1 = 15 /\ 15 + 1 = 16 /\ 16 + 1 = 17 /\ 17 + 1 = 18
          /\ 18 + 1 = 19
      BY <2>2
    <3> QED
      BY <3>2, <3>3, Zenon
  <2> QED
    BY <2>1, <2>2, <2>4 DEF FieldAt, IsField
<1> QED
  BY <1>1, <1>2, <1>4, <1>5, <1>6, Zenon DEF FieldsAt

\* Without edits there is no sequence behind the tag of the history but one of
\* names.
LEMMA NoFieldsFound ==
  ASSUME NEW d \in Document, NEW s, TextIs(d, s), d.edits = <<>>
  PROVE  NoFieldsAt(d, s)
<1>1. PICK e : e = EditsIn(d) /\ Len(e) = 2 /\ e[1] = "Seq/" /\ e[2] = "ws"
  BY EditsAre, EmptySequence
<1>2. PICK H : H = HistoryIn(d) /\ H \in Nat /\ Part(e, s, H + 1) /\ Len(s) = H + 9 /\ HistoryStarts(d, s)
  <2>1. TextIs(d, s) /\ HistoryIn(d) \in Nat /\ HistoryStarts(d, s)
    BY HistoryFound
  <2>2. Len(s) = HistoryIn(d) + Len(e) + 7 /\ Part(e, s, HistoryIn(d) + 1)
    BY <1>1, <2>1, Zenon DEF TextIs
  <2> QED
    BY <1>1, <2>1, <2>2
<1>3. s[H] # "Seq" /\ s[H + 1] # "Seq" /\ s[H + 2] # "Seq" /\ s[H + 3] # "Seq"
  BY <1>1, <1>2 DEF Part, HistoryStarts
<1>4. ASSUME ~d.people, NEW k \in H + 4 .. Len(s) PROVE s[k] # "Seq"
  <2>1. PICK t : t = Others(d) /\ t = <<"Bag", "ws", "li", ">", "tag", "/Bag">> /\ Part(t, s, H + 3)
    BY <1>1, <1>2, <1>4 DEF TextIs, Others
  <2>2. k - (H + 3) \in 1 .. 6 /\ (H + 3) + (k - (H + 3)) = k
    BY <1>2
  <2>3. Len(t) = 6 /\ \A i \in 1 .. 6 : t[i] # "Seq"
    BY <2>1
  <2> QED
    BY <2>1, <2>2, <2>3 DEF Part
<1>5. \A k \in H .. Len(s) : k \in {H, H + 1, H + 2, H + 3} \/ k \in H + 4 .. Len(s)
  BY <1>2
<1> QED
  BY <1>2, <1>3, <1>4, <1>5 DEF NoFieldsAt

\* Where everything in a text is.
LEMMA PositionsFound ==
  ASSUME NEW d \in Document
  PROVE  Positions(d, Text(d))
<1>1. PICK s : s = Text(d) /\ TextIs(d, s)
  BY TextIsText
<1> QED
  BY <1>1, AttributesFound, HistoryFound, FieldsFound, NoFieldsFound DEF Positions, TextIs

-----------------------------------------------------------------------------
(* The rating and the file.                                                *)

\* s is the beginning, n pieces long, of the text t of d.
Begins(d, n, s) ==
  /\ n \in 0 .. Len(Text(d)) /\ s \in Seq(Piece) /\ Len(s) = n
  /\ \A k \in 1 .. n : s[k] = Text(d)[k]

\* SubSeq gives the beginnings of a text, itself the last of them.
LEMMA BeginningBegins ==
  ASSUME NEW d \in Document, NEW n \in 0 .. Len(Text(d))
  PROVE  Begins(d, n, SubSeq(Text(d), 1, n)) /\ Begins(d, Len(Text(d)), Text(d))
<1>1. PICK t \in Seq(Piece) : t = Text(d)
  BY PositionsFound DEF Positions
<1>2. /\ SubSeq(t, 1, n) \in Seq(Piece) /\ Len(SubSeq(t, 1, n)) = n
      /\ \A k \in 1 .. n : SubSeq(t, 1, n)[k] = t[k]
  BY <1>1
<1>3. Len(t) \in 0 .. Len(t)
  OBVIOUS
<1> QED
  BY <1>1, <1>2, <1>3, Zenon DEF Begins

\* A span of a text.
LEMMA SpanIs ==
  ASSUME NEW S, NEW s \in Seq(S), NEW p \in 1 .. Len(s) + 1, NEW q \in p .. Len(s) + 1
  PROVE  /\ Span(s, p, q) \in Seq(S) /\ Len(Span(s, p, q)) = q - p
         /\ \A i \in 1 .. q - p : Span(s, p, q)[i] = s[p + i - 1]
BY DEF Span

\* A span of one piece.
LEMMA SpanOfOne ==
  ASSUME NEW S, NEW s \in Seq(S), NEW p \in 1 .. Len(s) + 1, NEW q \in p .. Len(s) + 1, NEW v
  PROVE  Span(s, p, q) = <<v>> <=> q = p + 1 /\ s[p] = v
<1>1. PICK x \in Seq(S) : x = Span(s, p, q) /\ Len(x) = q - p /\ \A i \in 1 .. q - p : x[i] = s[p + i - 1]
  BY SpanIs
<1>0. p \in Int /\ q \in Int /\ Len(x) = q - p
  BY <1>1
<1>2. ASSUME x = <<v>> PROVE q = p + 1 /\ s[p] = v
  <2>1. Len(x) = 1 /\ x[1] = v
    BY <1>2
  <2>2. q = p + 1 /\ p + 1 - 1 = p
    <3>1. q - p = 1
      BY <1>0, <2>1, Zenon
    <3> QED
      BY <1>0, <3>1
  <2>3. 1 \in 1 .. q - p
    BY <1>0, <2>2
  <2>4. x[1] = s[p + 1 - 1]
    BY <1>1, <2>3, Zenon
  <2> QED
    BY <2>1, <2>2, <2>4
<1>3. ASSUME q = p + 1, s[p] = v PROVE x = <<v>>
  <2>1. Len(x) = 1 /\ x[1] = s[p + 1 - 1]
    BY <1>1, <1>3
  <2>2. Len(x) = 1 /\ x[1] = v
    BY <1>3, <2>1
  <2> QED
    BY <2>2
<1> QED
  BY <1>1, <1>2, <1>3

\* Of a beginning the rating is read, or an error; of all of the text the rating.
LEMMA RatingRead ==
  ASSUME NEW d \in Document, NEW n, NEW s, Begins(d, n, s)
  PROVE  /\ IsError(RatingOf(s)) \/ RatingOf(s) = [rating |-> d.rating]
         /\ n = Len(Text(d)) => ~IsError(RatingOf(s))
<1>1. PICK t : t = Text(d) /\ AttributesAt(d, t)
  BY PositionsFound DEF Positions
<1>2. s \in Seq(Piece) /\ Len(s) = n /\ n \in Nat /\ 1 \in 1 .. Len(s) + 1 /\ \A k \in 1 .. n : s[k] = t[k]
  BY <1>1 DEF Begins
<1>w. d.raw[1] \notin Syntax /\ d.raw[2] \notin Syntax /\ d.rating \in Ratings
  BY DEF Document, Word
<1> DEFINE from == Until(s, 1, "Rating=")
           to   == Until(s, from, "quote")
<1>3. CASE n < 7
  <2>1. \A k \in 1 .. n : s[k] # "Rating="
    <3>1. \A k \in 1 .. n : k \in {1, 2, 3, 4, 5, 6}
      BY <1>3, <1>2
    <3> QED
      BY <1>1, <1>2, <1>w, <3>1 DEF AttributesAt, Syntax
  <2>2. n + 1 \in 1 .. Len(s) + 1 /\ n + 1 = Len(s) + 1 /\ (n + 1) - 1 = n
    BY <1>2
  <2>3. from = n + 1
    BY <1>2, <2>1, <2>2, UntilIs
  <2>4. AtEnd(s, from) /\ n # Len(Text(d))
    BY <1>1, <1>2, <1>3, <2>3 DEF AtEnd, AttributesAt
  <2>5. RatingOf(s) = Error("NoRatingStart")
    BY <2>4 DEF RatingOf, Quoted, IsError, Error
  <2> QED
    BY <2>4, <2>5 DEF IsError, Error
<1>4. CASE n >= 7
  <2>1. from = 7 /\ 7 \in 1 .. Len(s) + 1 /\ ~AtEnd(s, from)
    <3>1. \A k \in 1 .. 6 : s[k] # "Rating="
      <4>1. \A k \in 1 .. 6 : k \in 1 .. n /\ k \in {1, 2, 3, 4, 5, 6}
        BY <1>2, <1>4
      <4> QED
        BY <1>1, <1>2, <1>w, <4>1 DEF AttributesAt, Syntax
    <3>2. s[7] = "Rating=" /\ 7 \in 1 .. Len(s) + 1 /\ 7 - 1 = 6
      BY <1>1, <1>2, <1>4 DEF AttributesAt
    <3>3. from = 7
      BY <1>2, <3>1, <3>2, UntilIs
    <3> QED
      BY <1>2, <1>4, <3>2, <3>3 DEF AtEnd
  <2>2. CASE n < 9
    <3>1. \A k \in 7 .. n : s[k] # "quote"
      <4>1. \A k \in 7 .. n : k \in 1 .. n /\ k \in {7, 8}
        BY <1>2, <2>2
      <4> QED
        BY <1>1, <1>2, <1>w, <4>1 DEF AttributesAt, Ratings
    <3>2. n + 1 \in 7 .. Len(s) + 1 /\ n + 1 = Len(s) + 1 /\ (n + 1) - 1 = n
      BY <1>2, <1>4
    <3>3. to = n + 1
      BY <1>2, <2>1, <3>1, <3>2, UntilIs
    <3>4. AtEnd(s, to) /\ n # Len(Text(d))
      BY <1>1, <1>2, <2>2, <3>3 DEF AtEnd, AttributesAt
    <3>5. RatingOf(s) = Error("NoFieldEnd")
      BY <2>1, <3>4 DEF RatingOf, Quoted, IsError, Error
    <3> QED
      BY <3>4, <3>5 DEF IsError, Error
  <2>3. CASE n >= 9
    <3>1. to = 9
      <4>1. s[7] = "Rating=" /\ s[8] = d.rating /\ s[9] = "quote"
        BY <1>1, <1>2, <2>3 DEF AttributesAt
      <4>2. \A k \in 7 .. 9 - 1 : s[k] # "quote"
        <5>1. \A k \in 7 .. 9 - 1 : k \in {7, 8}
          OBVIOUS
        <5> QED
          BY <1>w, <4>1, <5>1 DEF Ratings
      <4>3. 9 \in 7 .. Len(s) + 1
        BY <1>2, <2>3
      <4> QED
        BY <1>2, <2>1, <4>1, <4>2, <4>3, UntilIs
    <3>2. ~AtEnd(s, to)
      BY <1>2, <2>3, <3>1 DEF AtEnd
    <3>3. PICK f : f = Quoted(s, "Rating=", "NoRatingStart") /\ f = [text |-> <<d.rating>>]
      <4>1. Span(s, from + 1, to) = <<d.rating>>
        <5>1. from + 1 = 8 /\ 8 \in 1 .. Len(s) + 1 /\ 9 \in 8 .. Len(s) + 1 /\ 9 = 8 + 1
          BY <1>2, <2>1, <2>3
        <5>2. s[8] = d.rating
          BY <1>1, <1>2, <2>3 DEF AttributesAt
        <5>3. Span(s, 8, 9) = <<d.rating>>
          <6>1. s \in Seq(Piece)
            BY <1>2
          <6> QED
            BY <5>1, <5>2, <6>1, SpanOfOne
        <5> QED
          BY <3>1, <5>1, <5>3, Zenon
      <4> QED
        BY <2>1, <3>2, <4>1 DEF Quoted
    <3>4. ~IsError(f) /\ f.text = <<d.rating>> /\ f.text[1] = d.rating
      BY <3>3 DEF IsError
    <3>5. d.rating \in Numbers
      BY <1>w DEF Numbers, Ratings, Digits
    <3>6. RatingOf(s) = [rating |-> d.rating]
      BY <1>w, <3>3, <3>4, <3>5, Zenon DEF RatingOf
    <3> QED
      BY <3>6 DEF IsError
  <2> QED
    BY <1>2, <2>2, <2>3
<1> QED
  BY <1>2, <1>3, <1>4

\* And so is the name of the file.
LEMMA RawRead ==
  ASSUME NEW d \in Document, NEW n, NEW s, Begins(d, n, s)
  PROVE  /\ IsError(RawOf(s)) \/ RawOf(s) = [name |-> d.raw]
         /\ n = Len(Text(d)) => ~IsError(RawOf(s))
<1>1. PICK t : t = Text(d) /\ AttributesAt(d, t)
  BY PositionsFound DEF Positions
<1>2. s \in Seq(Piece) /\ Len(s) = n /\ n \in Nat /\ 1 \in 1 .. Len(s) + 1 /\ \A k \in 1 .. n : s[k] = t[k]
  BY <1>1 DEF Begins
<1>w. d.raw[1] \notin Syntax /\ d.raw[2] \notin Syntax /\ d.raw = <<d.raw[1], d.raw[2]>>
  BY DEF Document, Word
<1> DEFINE from == Until(s, 1, "DerivedFrom=")
           to   == Until(s, from, "quote")
<1>3. CASE n = 0
  <2>1. from = 1
    <3>1. from \in 1 .. Len(s) + 1
      BY <1>2, UntilFinds
    <3> QED
      BY <1>2, <1>3, <3>1
  <2>2. AtEnd(s, from) /\ n # Len(Text(d))
    BY <1>1, <1>2, <1>3, <2>1 DEF AtEnd, AttributesAt
  <2>3. RawOf(s) = Error("NoRawListed")
    BY <2>2 DEF RawOf, Quoted, IsError, Error
  <2> QED
    BY <2>2, <2>3 DEF IsError, Error
<1>4. CASE n >= 1
  <2>1. from = 1 /\ ~AtEnd(s, from)
    <3>1. s[1] = "DerivedFrom=" /\ \A k \in 1 .. 1 - 1 : s[k] # "DerivedFrom="
      BY <1>1, <1>2, <1>4 DEF AttributesAt
    <3>2. from = 1
      <4>1. 1 \in 1 .. Len(s) + 1
        BY <1>2
      <4>2. s \in Seq(Piece)
        BY <1>2
      <4> QED
        BY <3>1, <4>1, <4>2, UntilIs
    <3> QED
      BY <1>2, <1>4, <3>2 DEF AtEnd
  <2>2. CASE n < 5
    <3>1. \A k \in 1 .. n : s[k] # "quote"
      <4>1. \A k \in 1 .. n : k \in {1, 2, 3, 4}
        BY <1>2, <2>2
      <4> QED
        BY <1>1, <1>2, <1>w, <4>1 DEF AttributesAt, Syntax
    <3>2. n + 1 \in 1 .. Len(s) + 1 /\ n + 1 = Len(s) + 1 /\ (n + 1) - 1 = n
      BY <1>2, <1>4
    <3>3. to = n + 1
      BY <1>2, <2>1, <3>1, <3>2, UntilIs
    <3>4. AtEnd(s, to) /\ n # Len(Text(d))
      BY <1>1, <1>2, <2>2, <3>3 DEF AtEnd, AttributesAt
    <3>5. RawOf(s) = Error("NoFieldEnd")
      BY <2>1, <3>4 DEF RawOf, Quoted, IsError, Error
    <3> QED
      BY <3>4, <3>5 DEF IsError, Error
  <2>3. CASE n >= 5
    <3>1. /\ s[1] = "DerivedFrom=" /\ s[2] = d.raw[1] /\ s[3] = "dot" /\ s[4] = d.raw[2]
          /\ s[5] = "quote"
      BY <1>1, <1>2, <2>3 DEF AttributesAt
    <3>2. to = 5 /\ ~AtEnd(s, to)
      <4>1. \A k \in 1 .. 5 - 1 : s[k] # "quote"
        <5>1. \A k \in 1 .. 5 - 1 : k \in {1, 2, 3, 4}
          OBVIOUS
        <5> QED
          BY <1>w, <3>1, <5>1 DEF Syntax
      <4>2. 5 \in 1 .. Len(s) + 1
        BY <1>2, <2>3
      <4>3. Until(s, 1, "quote") = 5
        <5>1. s \in Seq(Piece) /\ 1 \in 1 .. Len(s) + 1 /\ s[5] = "quote"
          BY <1>2, <3>1
        <5> QED
          BY <4>1, <4>2, <5>1, UntilIs
      <4>4. to = 5
        BY <2>1, <4>3
      <4> QED
        BY <1>2, <2>3, <4>4 DEF AtEnd
    <3>3. PICK x \in Seq(Piece) : x = Span(s, 2, 5) /\ Len(x) = 3 /\ x[1] = d.raw[1] /\ x[2] = "dot" /\ x[3] = d.raw[2]
      <4>1. 2 \in 1 .. Len(s) + 1 /\ 5 \in 2 .. Len(s) + 1
        BY <1>2, <2>3
      <4>2. /\ Span(s, 2, 5) \in Seq(Piece) /\ Len(Span(s, 2, 5)) = 5 - 2
            /\ \A i \in 1 .. 5 - 2 : Span(s, 2, 5)[i] = s[2 + i - 1]
        BY <1>2, <4>1, SpanIs
      <4>3. /\ Span(s, 2, 5)[1] = s[2] /\ Span(s, 2, 5)[2] = s[3] /\ Span(s, 2, 5)[3] = s[4]
        BY <4>2
      <4> QED
        BY <3>1, <4>2, <4>3
    <3>4. PICK f : f = Quoted(s, "DerivedFrom=", "NoRawListed") /\ f = [text |-> x]
      <4>1. from + 1 = 2 /\ Span(s, from + 1, to) = x
        BY <2>1, <3>2, <3>3
      <4> QED
        BY <2>1, <3>2, <4>1 DEF Quoted
    <3>5. ~IsError(f) /\ f.text = x
      BY <3>4 DEF IsError
    <3>6. Parts(x) = d.raw
      <4>1. (Len(x) + 1) \div 2 = 2
        <5>1. Len(x) = 3
          BY <3>3, Zenon
        <5>2. (3 + 1) \div 2 = 2
          OBVIOUS
        <5> QED
          BY <5>1, <5>2, Zenon
      <4>2. Parts(x) = [i \in 1 .. 2 |-> x[2 * i - 1]]
        BY <4>1 DEF Parts
      <4>3. [i \in 1 .. 2 |-> x[2 * i - 1]] = <<x[1], x[3]>>
        OBVIOUS
      <4> QED
        BY <1>w, <3>3, <4>2, <4>3
    <3>7. ~\A i \in DOMAIN x : x[i] # "dot"
      BY <3>3
    <3>8. RawOf(s) = [name |-> d.raw]
      BY <3>4, <3>5, <3>6, <3>7, Zenon DEF RawOf
    <3> QED
      BY <3>8 DEF IsError
  <2> QED
    BY <1>2, <2>2, <2>3
<1> QED
  BY <1>2, <1>3, <1>4

-----------------------------------------------------------------------------
(* accept_field.                                                           *)

\* How far accept_field has come: at a, of the edit whose hash begins at b.
So(a, b, h) == [at |-> a, start |-> b, hash |-> h]

\* The parts of how far it has come, and what it is when it has come further.
LEMMA SoIs ==
  ASSUME NEW a, NEW b, NEW h, NEW c
  PROVE  /\ ~IsError(So(a, b, h)) /\ So(a, b, h).at = a /\ So(a, b, h).start = b /\ So(a, b, h).hash = h
         /\ [So(a, b, h) EXCEPT !.at = c] = So(c, b, h)
BY DEF So, IsError

\* An error is one,
LEMMA ErrorIs == ASSUME NEW e PROVE IsError(Error(e))
BY DEF IsError, Error

\* and accept_field ends with it.
LEMMA ErrorStays == ASSUME NEW s, NEW so, NEW item, IsError(so) PROVE Accept(s, so, item) = so
BY DEF Accept

\* The four things there are to accept.
LEMMA AcceptRest ==
  ASSUME NEW s, NEW a, NEW b, NEW h
  PROVE  LET end == Until(s, a, "/>")
         IN Accept(s, So(a, b, h), "rest") =
              IF AtEnd(s, end) THEN Error("ParseEdits") ELSE So(end + 1, b, HashOf(s, b, end))
<1>1. PICK so : so = So(a, b, h) /\ ~IsError(so) /\ so.at = a /\ so.start = b
  BY SoIs
<1> QED
  BY <1>1, Zenon DEF Accept, So

\* A name goes on to the next quote.
LEMMA AcceptName ==
  ASSUME NEW s, NEW a, NEW b, NEW h
  PROVE  Accept(s, So(a, b, h), "name") = So(Until(s, a, "quote"), b, h)
<1>1. PICK so : so = So(a, b, h) /\ ~IsError(so) /\ so.at = a /\ \A c : [so EXCEPT !.at = c] = So(c, b, h)
  BY SoIs
<1>2. "name" # "rest"
  OBVIOUS
<1>3. Accept(s, so, "name") = [so EXCEPT !.at = Until(s, so.at, "quote")]
  BY <1>1, <1>2, Zenon DEF Accept
<1> QED
  BY <1>1, <1>3, Zenon

\* So does a value, which has to be one of those there are.
LEMMA AcceptValue ==
  ASSUME NEW s, NEW a, NEW b, NEW h, NEW item \in {"number", "flag"}
  PROVE  LET to == Until(s, a, "quote")
         IN Accept(s, So(a, b, h), item) =
              IF \E v \in Values[item] : Span(s, a, to) = <<v>> THEN So(to, b, h) ELSE Error("ParseEdits")
<1>1. PICK so : so = So(a, b, h) /\ ~IsError(so) /\ so.at = a /\ \A c : [so EXCEPT !.at = c] = So(c, b, h)
  BY SoIs
<1>2. item # "rest" /\ item # "name" /\ item \in DOMAIN Values
  BY DEF Values
<1>3. Accept(s, so, item) =
        IF \A v \in Values[item] : Span(s, so.at, Until(s, so.at, "quote")) # <<v>> THEN Error("ParseEdits")
        ELSE [so EXCEPT !.at = Until(s, so.at, "quote")]
  BY <1>1, <1>2, Zenon DEF Accept
<1> QED
  BY <1>1, <1>3, Zenon

\* All else has to be there.
LEMMA AcceptToken ==
  ASSUME NEW s, NEW a, NEW b, NEW h, NEW item, item \notin {"rest", "name", "number", "flag"}
  PROVE  /\ Accepts(s, a, item) => Accept(s, So(a, b, h), item) = So(a + 1, b, h)
         /\ ~Accepts(s, a, item) => IsError(Accept(s, So(a, b, h), item))
<1>1. PICK so : so = So(a, b, h) /\ ~IsError(so) /\ so.at = a /\ \A c : [so EXCEPT !.at = c] = So(c, b, h)
  BY SoIs
<1>2. item # "rest" /\ item # "name" /\ item \notin DOMAIN Values
  BY DEF Values
<1>3. Accepts(s, a, item) => Accept(s, so, item) = [so EXCEPT !.at = so.at + 1]
  BY <1>1, <1>2, Zenon DEF Accept
<1>4. ~Accepts(s, a, item) => Accept(s, so, item) = Error(IF item = "quote" THEN "panic" ELSE "ParseEdits")
  BY <1>1, <1>2, Zenon DEF Accept
<1> QED
  BY <1>1, <1>3, <1>4, ErrorIs, Zenon

\* How far, at most, and never backwards.
Comes(s, p, r) == IsError(r) \/ \E a \in p .. Len(s) + 1 : \E h : r = So(a, p + 1, h)

\* No item is accepted backwards or beyond the end, from wherever it starts.
LEMMA AcceptComes ==
  ASSUME NEW S, NEW s \in Seq(S), NEW p \in 1 .. Len(s) + 1, NEW so, Comes(s, p, so), NEW item
  PROVE  Comes(s, p, Accept(s, so, item))
<1>1. CASE IsError(so)
  BY <1>1, ErrorStays, Zenon DEF Comes
<1>2. ASSUME NEW a \in p .. Len(s) + 1, NEW h, so = So(a, p + 1, h)
      PROVE  Comes(s, p, Accept(s, so, item))
  <2>1. a \in 1 .. Len(s) + 1
    OBVIOUS
  <2>2. CASE item = "rest"
    <3>1. PICK end \in a .. Len(s) + 1 : end = Until(s, a, "/>")
      BY <2>1, UntilFinds
    <3>2. CASE AtEnd(s, end)
      <4>1. Accept(s, so, item) = Error("ParseEdits")
        BY <1>2, <2>2, <3>1, <3>2, AcceptRest, Zenon
      <4> QED
        BY <4>1, ErrorIs DEF Comes
    <3>3. CASE ~AtEnd(s, end)
      <4>1. Accept(s, so, item) = So(end + 1, p + 1, HashOf(s, p + 1, end))
        BY <1>2, <2>2, <3>1, <3>3, AcceptRest, Zenon
      <4>2. end + 1 \in p .. Len(s) + 1
        BY <3>3 DEF AtEnd
      <4> QED
        BY <4>1, <4>2, Zenon DEF Comes
    <3> QED
      BY <3>2, <3>3
  <2>3. CASE item = "name" \/ item \in {"number", "flag"}
    <3>1. PICK to \in a .. Len(s) + 1 : to = Until(s, a, "quote")
      BY <2>1, UntilFinds
    <3>2. Accept(s, so, item) = So(to, p + 1, h) \/ Accept(s, so, item) = Error("ParseEdits")
      <4>1. CASE item = "name"
        BY <1>2, <3>1, <4>1, AcceptName, Zenon
      <4>2. CASE item \in {"number", "flag"}
        <5>1. Accept(s, So(a, p + 1, h), item) =
                IF \E v \in Values[item] : Span(s, a, to) = <<v>> THEN So(to, p + 1, h) ELSE Error("ParseEdits")
          BY <3>1, <4>2, AcceptValue, Zenon
        <5> QED
          BY <1>2, <5>1, Zenon
      <4> QED
        BY <2>3, <4>1, <4>2
    <3>3. to \in p .. Len(s) + 1
      OBVIOUS
    <3> QED
      BY <3>2, <3>3, ErrorIs, Zenon DEF Comes
  <2>4. CASE item \notin {"rest", "name", "number", "flag"}
    <3>1. CASE Accepts(s, a, item)
      <4>1. Accept(s, so, item) = So(a + 1, p + 1, h)
        BY <1>2, <2>4, <3>1, AcceptToken
      <4>2. a + 1 \in p .. Len(s) + 1
        BY <3>1 DEF Accepts
      <4> QED
        BY <4>1, <4>2, Zenon DEF Comes
    <3>2. CASE ~Accepts(s, a, item)
      BY <1>2, <2>4, <3>2, AcceptToken, Zenon DEF Comes
    <3> QED
      BY <3>1, <3>2
  <2> QED
    BY <2>2, <2>3, <2>4
<1> QED
  BY <1>1, <1>2, Zenon DEF Comes

\* What accept_field does, item by item.
Accepting(s, p, f) ==
  /\ f[0] = So(p, p + 1, <<>>) /\ \A i \in 1 .. 13 : f[i] = Accept(s, f[i - 1], Layout[i])
  /\ AcceptField(s, p) = f[13]

\* accept_field accepts the items of its layout in order.
LEMMA AcceptFieldIs ==
  ASSUME NEW s, NEW p
  PROVE  \E f : Accepting(s, p, f)
<1> DEFINE Upto(f, k) == f[0] = So(p, p + 1, <<>>) /\ \A i \in 1 .. k : f[i] = Accept(s, f[i - 1], Layout[i])
           Exists(k) == \E f : Upto(f, k)
           T == {k \in Int : Exists(k)}
           All(f) == f = [i \in 0 .. 13 |-> IF i = 0 THEN So(p, p + 1, <<>>) ELSE Accept(s, f[i - 1], Layout[i])]
<1>1. Exists(0)
  <2>1. Upto([i \in {0} |-> So(p, p + 1, <<>>)], 0)
    OBVIOUS
  <2> QED
    BY <2>1
<1>2. ASSUME NEW m \in 0 .. 12, Exists(m) PROVE Exists(m + 1)
  <2>1. PICK g : Upto(g, m)
    BY <1>2
  <2> DEFINE h == [i \in 0 .. m + 1 |-> IF i = m + 1 THEN Accept(s, g[m], Layout[m + 1]) ELSE g[i]]
  <2>2. Upto(h, m + 1)
    <3>1. h[0] = So(p, p + 1, <<>>)
      BY <2>1
    <3>2. \A i \in 1 .. m + 1 : h[i - 1] = g[i - 1]
      OBVIOUS
    <3>3. ASSUME NEW i \in 1 .. m + 1 PROVE h[i] = Accept(s, g[i - 1], Layout[i])
      <4>1. CASE i = m + 1
        BY <4>1
      <4>2. CASE i # m + 1
        <5>1. i \in 1 .. m /\ h[i] = g[i]
          BY <4>2
        <5> QED
          BY <2>1, <5>1, Zenon
      <4> QED
        BY <4>1, <4>2
    <3> HIDE DEF h
    <3> QED
      BY <3>1, <3>2, <3>3, Zenon
  <2> QED
    BY <2>2
<1>3. Exists(13)
  <2> HIDE DEF Exists
  <2>1. 0 \in T /\ \A k \in 0 .. 13 - 1 : k \in T => k + 1 \in T
    BY <1>1, <1>2
  <2>2. \A k \in 0 .. 13 : k \in T
    <3> HIDE DEF T
    <3> QED
      BY <2>1, Induction
  <2> QED
    BY <2>2
<1>4. PICK f : Upto(f, 13)
  BY <1>3
<1>5. All([i \in 0 .. 13 |-> f[i]])
  <2>1. ASSUME NEW i \in 0 .. 13
        PROVE  f[i] = IF i = 0 THEN So(p, p + 1, <<>>) ELSE Accept(s, [j \in 0 .. 13 |-> f[j]][i - 1], Layout[i])
    <3>1. i # 0 => i \in 1 .. 13 /\ [j \in 0 .. 13 |-> f[j]][i - 1] = f[i - 1]
      OBVIOUS
    <3> QED
      BY <1>4, <3>1, Zenon
  <2> QED
    BY <2>1, Zenon
<1>6. PICK g : All(g) /\ AcceptField(s, p) = g[13]
  <2>1. All(CHOOSE g : All(g))
    BY <1>5
  <2>2. Len(Layout) = 13
    BY DEF Layout
  <2>3. AcceptField(s, p) = (CHOOSE g : All(g))[13]
    BY <2>2, Zenon DEF AcceptField, So
  <2> QED
    BY <2>1, <2>3
<1>7. \A i \in 0 .. 13 : g[i] = IF i = 0 THEN So(p, p + 1, <<>>) ELSE Accept(s, g[i - 1], Layout[i])
  BY <1>6, Zenon
<1>8. 0 \in 0 .. 13 /\ \A i \in 1 .. 13 : i \in 0 .. 13 /\ i # 0
  OBVIOUS
<1> HIDE DEF All
<1> QED
  BY <1>6, <1>7, <1>8, Zenon DEF Accepting

\* It ends behind where it started, or with an error: the loop of parse_edits
\* comes to an end.
LEMMA FieldComes ==
  ASSUME NEW S, NEW s \in Seq(S), NEW p \in 1 .. Len(s) + 1
  PROVE  Comes(s, p, AcceptField(s, p))
<1>1. PICK f : Accepting(s, p, f)
  BY AcceptFieldIs
<1> DEFINE T == {i \in Int : Comes(s, p, f[i])}
<1>2. 0 \in T
  <2>1. f[0] = So(p, p + 1, <<>>) /\ p \in p .. Len(s) + 1
    BY <1>1 DEF Accepting
  <2> QED
    BY <2>1 DEF Comes
<1>3. ASSUME NEW k \in 0 .. 13 - 1, k \in T PROVE k + 1 \in T
  <2>1. k + 1 \in 1 .. 13 /\ (k + 1) - 1 = k /\ k + 1 \in Int
    OBVIOUS
  <2>2. f[k + 1] = Accept(s, f[k], Layout[k + 1])
    BY <1>1, <2>1, Zenon DEF Accepting
  <2>3. Comes(s, p, f[k])
    BY <1>3
  <2>4. Comes(s, p, f[k + 1])
    BY <2>2, <2>3, AcceptComes, Zenon
  <2> QED
    BY <2>1, <2>4
<1>4. 13 \in T
  <2> HIDE DEF T
  <2>1. \A k \in 0 .. 13 : k \in T
    BY <1>2, <1>3, Induction
  <2> QED
    BY <2>1
<1> QED
  BY <1>1, <1>4 DEF Accepting

\* One item after the other of a text of n pieces: an item that ends before a
\* is accepted when it is there, and an error when it is not.
Reaches(so, n, a, b, h) == (a - 1 <= n => so = So(a, b, h)) /\ (a - 1 > n => IsError(so))

\* A piece that has to be there.
LEMMA TokenReached ==
  ASSUME NEW S, NEW s \in Seq(S), NEW a \in Nat, a >= 1, NEW b, NEW h, NEW so, NEW item,
         item \notin {"rest", "name", "number", "flag"}, Reaches(so, Len(s), a, b, h),
         a <= Len(s) => s[a] = item, NEW c, c = a + 1
  PROVE  Reaches(Accept(s, so, item), Len(s), c, b, h)
<1>0. SUFFICES Reaches(Accept(s, so, item), Len(s), a + 1, b, h)
  OBVIOUS
<1>1. PICK n \in Nat : n = Len(s)
  OBVIOUS
<1>2. CASE a - 1 > n
  <2>1. IsError(so) /\ (a + 1) - 1 > n
    BY <1>1, <1>2 DEF Reaches
  <2>2. Accept(s, so, item) = so
    BY <2>1, ErrorStays
  <2> QED
    BY <1>1, <2>1, <2>2 DEF Reaches
<1>3. CASE a - 1 <= n
  <2>1. so = So(a, b, h)
    BY <1>1, <1>3 DEF Reaches
  <2>2. CASE a <= n
    <3>1. Accepts(s, a, item)
      BY <1>1, <2>2 DEF Accepts
    <3>2. Accept(s, so, item) = So(a + 1, b, h)
      BY <2>1, <3>1, AcceptToken
    <3> QED
      BY <1>1, <2>2, <3>2 DEF Reaches
  <2>3. CASE ~(a <= n)
    <3>1. ~Accepts(s, a, item)
      BY <1>1, <2>3 DEF Accepts
    <3>2. IsError(Accept(s, so, item))
      BY <2>1, <3>1, AcceptToken
    <3> QED
      BY <1>1, <2>3, <3>2 DEF Reaches
  <2> QED
    BY <2>2, <2>3
<1> QED
  BY <1>1, <1>2, <1>3

\* The next quote when that is one behind a, or would be.
LEMMA QuoteBehind ==
  ASSUME NEW S, NEW s \in Seq(S), NEW a \in Nat, a >= 1, a <= Len(s), s[a] # "quote",
         a + 1 <= Len(s) => s[a + 1] = "quote"
  PROVE  Until(s, a, "quote") = a + 1
<1>1. a \in 1 .. Len(s) + 1 /\ a + 1 \in a .. Len(s) + 1 /\ (a + 1 = Len(s) + 1 \/ s[a + 1] = "quote")
  OBVIOUS
<1>2. \A j \in a .. (a + 1) - 1 : s[j] # "quote"
  <2>1. \A j \in a .. (a + 1) - 1 : j = a
    OBVIOUS
  <2> QED
    BY <2>1
<1> QED
  BY <1>1, <1>2, UntilIs

\* A value and the quote it ends before.
LEMMA ValueReached ==
  ASSUME NEW S, NEW s \in Seq(S), NEW a \in Nat, a >= 1, NEW b, NEW h, NEW so, NEW item \in {"number", "flag"},
         Reaches(so, Len(s), a, b, h), a <= Len(s) => s[a] \in Values[item],
         NEW c, c = a + 1, c <= Len(s) => s[c] = "quote"
  PROVE  Reaches(Accept(s, so, item), Len(s), c, b, h)
<1>0. SUFFICES Reaches(Accept(s, so, item), Len(s), a + 1, b, h)
  OBVIOUS
<1>1. PICK n \in Nat : n = Len(s)
  OBVIOUS
<1>2. CASE a - 1 > n
  <2>1. IsError(so) /\ (a + 1) - 1 > n
    BY <1>1, <1>2 DEF Reaches
  <2>2. Accept(s, so, item) = so
    BY <2>1, ErrorStays
  <2> QED
    BY <1>1, <2>1, <2>2 DEF Reaches
<1>3. CASE a - 1 <= n
  <2>1. so = So(a, b, h) /\ a \in 1 .. Len(s) + 1
    BY <1>1, <1>3 DEF Reaches
  <2>2. CASE a <= n
    <3>1. s[a] \in Values[item] /\ s[a] # "quote"
      BY <1>1, <2>2 DEF Values, Digits
    <3>2. Until(s, a, "quote") = a + 1 /\ a + 1 \in a .. Len(s) + 1
      BY <1>1, <2>2, <3>1, QuoteBehind
    <3>3. Span(s, a, a + 1) = <<s[a]>>
      BY <2>1, <3>2, SpanOfOne
    <3>4. Accept(s, so, item) = So(a + 1, b, h)
      BY <2>1, <3>1, <3>2, <3>3, AcceptValue, Zenon
    <3> QED
      BY <1>1, <2>2, <3>4 DEF Reaches
  <2>3. CASE ~(a <= n)
    <3>1. Until(s, a, "quote") = a
      <4>1. a = Len(s) + 1
        BY <1>1, <1>3, <2>3
      <4>2. Until(s, a, "quote") \in a .. Len(s) + 1
        BY <2>1, UntilFinds
      <4> QED
        BY <4>1, <4>2
    <3>2. \A v : Span(s, a, a) # <<v>>
      <4>1. ASSUME NEW v PROVE Span(s, a, a) # <<v>>
        <5>1. a \in a .. Len(s) + 1 /\ a # a + 1
          BY <2>1
        <5> QED
          BY <2>1, <5>1, SpanOfOne, Zenon
      <4> QED
        BY <4>1
    <3>3. Accept(s, so, item) = Error("ParseEdits")
      BY <2>1, <3>1, <3>2, AcceptValue, Zenon
    <3>4. IsError(Accept(s, so, item))
      BY <3>3, ErrorIs
    <3> QED
      BY <1>1, <2>3, <3>4 DEF Reaches
  <2> QED
    BY <2>2, <2>3
<1> QED
  BY <1>1, <1>2, <1>3

\* A name and its quote.
LEMMA NameReached ==
  ASSUME NEW S, NEW s \in Seq(S), NEW a \in Nat, a >= 1, NEW b, NEW h, NEW so,
         Reaches(so, Len(s), a, b, h), a <= Len(s) => s[a] # "quote",
         NEW c, c = a + 1, c <= Len(s) => s[c] = "quote", NEW z, z = a + 2
  PROVE  Reaches(Accept(s, Accept(s, so, "name"), "quote"), Len(s), z, b, h)
<1>0. SUFFICES Reaches(Accept(s, Accept(s, so, "name"), "quote"), Len(s), a + 2, b, h)
  OBVIOUS
<1>1. PICK n \in Nat : n = Len(s)
  OBVIOUS
<1>2. CASE a - 1 > n
  <2>1. IsError(so) /\ (a + 2) - 1 > n
    BY <1>1, <1>2 DEF Reaches
  <2>2. Accept(s, Accept(s, so, "name"), "quote") = so
    BY <2>1, ErrorStays
  <2> QED
    BY <1>1, <2>1, <2>2 DEF Reaches
<1>3. CASE a - 1 <= n
  <2>1. so = So(a, b, h) /\ a \in 1 .. Len(s) + 1
    BY <1>1, <1>3 DEF Reaches
  <2>t. "quote" \notin {"rest", "name", "number", "flag"}
    OBVIOUS
  <2>2. CASE a <= n
    <3>1. Until(s, a, "quote") = a + 1
      BY <1>1, <2>2, QuoteBehind
    <3>2. Accept(s, so, "name") = So(a + 1, b, h)
      BY <2>1, <3>1, AcceptName
    <3>3. Reaches(So(a + 1, b, h), Len(s), a + 1, b, h)
      BY <1>1, <2>2 DEF Reaches
    <3>4. a + 1 \in Nat /\ a + 1 >= 1 /\ (a + 1) + 1 = a + 2
      OBVIOUS
    <3> QED
      BY <2>t, <3>2, <3>3, <3>4, TokenReached
  <2>3. CASE ~(a <= n)
    <3>1. Until(s, a, "quote") = a
      <4>1. a = Len(s) + 1
        BY <1>1, <1>3, <2>3
      <4>2. Until(s, a, "quote") \in a .. Len(s) + 1
        BY <2>1, UntilFinds
      <4> QED
        BY <4>1, <4>2
    <3>2. Accept(s, so, "name") = So(a, b, h)
      BY <2>1, <3>1, AcceptName
    <3>3. ~Accepts(s, a, "quote")
      BY <1>1, <2>3 DEF Accepts
    <3>4. IsError(Accept(s, Accept(s, so, "name"), "quote"))
      BY <2>t, <3>2, <3>3, AcceptToken
    <3> QED
      BY <1>1, <2>3, <3>4 DEF Reaches
  <2> QED
    BY <2>2, <2>3
<1> QED
  BY <1>1, <1>2, <1>3

\* The rest of an edit up to its end; what was before it is hashed.
LEMMA RestReached ==
  ASSUME NEW S, NEW s \in Seq(S), NEW a \in Nat, a >= 1, NEW b, NEW h, NEW so,
         Reaches(so, Len(s), a, b, h), \A j \in a .. a + 4 : j <= Len(s) => s[j] # "/>",
         NEW c, c = a + 5, c <= Len(s) => s[c] = "/>", NEW z, z = a + 6
  PROVE  Reaches(Accept(s, so, "rest"), Len(s), z, b, Span(s, b, c))
<1>0. SUFFICES Reaches(Accept(s, so, "rest"), Len(s), a + 6, b, Span(s, b, a + 5))
  OBVIOUS
<1>1. PICK n \in Nat : n = Len(s)
  OBVIOUS
<1>2. CASE a - 1 > n
  <2>1. IsError(so) /\ (a + 6) - 1 > n
    BY <1>1, <1>2 DEF Reaches
  <2>2. Accept(s, so, "rest") = so
    BY <2>1, ErrorStays
  <2> QED
    BY <1>1, <2>1, <2>2 DEF Reaches
<1>3. CASE a - 1 <= n
  <2>1. so = So(a, b, h) /\ a \in 1 .. Len(s) + 1
    BY <1>1, <1>3 DEF Reaches
  <2>2. CASE a + 5 <= n
    <3>1. Until(s, a, "/>") = a + 5
      <4>1. a + 5 \in a .. Len(s) + 1 /\ s[a + 5] = "/>"
        BY <1>1, <2>2
      <4>2. \A j \in a .. (a + 5) - 1 : s[j] # "/>"
        <5>1. \A j \in a .. (a + 5) - 1 : j \in a .. a + 4 /\ j <= Len(s)
          BY <1>1, <2>2
        <5> QED
          BY <5>1
      <4> QED
        BY <2>1, <4>1, <4>2, UntilIs
    <3>2. ~AtEnd(s, a + 5) /\ (a + 5) + 1 = a + 6
      BY <1>1, <2>2 DEF AtEnd
    <3>3. Accept(s, so, "rest") = So(a + 6, b, Span(s, b, a + 5))
      BY <2>1, <3>1, <3>2, AcceptRest, Zenon DEF HashOf
    <3> QED
      BY <1>1, <2>2, <3>3 DEF Reaches
  <2>3. CASE ~(a + 5 <= n)
    <3>1. Until(s, a, "/>") = n + 1
      <4>1. n + 1 \in a .. Len(s) + 1 /\ n + 1 = Len(s) + 1
        BY <1>1, <1>3
      <4>2. \A j \in a .. (n + 1) - 1 : s[j] # "/>"
        <5>1. \A j \in a .. (n + 1) - 1 : j \in a .. a + 4 /\ j <= Len(s)
          BY <1>1, <2>3
        <5> QED
          BY <5>1
      <4> QED
        BY <2>1, <4>1, <4>2, UntilIs
    <3>2. AtEnd(s, n + 1)
      BY <1>1 DEF AtEnd
    <3>3. Accept(s, so, "rest") = Error("ParseEdits")
      BY <2>1, <3>1, <3>2, AcceptRest, Zenon
    <3>4. IsError(Accept(s, so, "rest"))
      BY <3>3, ErrorIs
    <3> QED
      BY <1>1, <2>3, <3>4 DEF Reaches
  <2> QED
    BY <2>2, <2>3
<1> QED
  BY <1>1, <1>2, <1>3

\* What is hashed of an edit.
EditText(i, e) ==
  <<"num=", i, "quote", "ws", "operation=", e.operation, "quote", "ws",
    "enabled=", e.enabled, "quote", "ws", "params", e.params, "quote">>

\* The span that is hashed of a field.
LEMMA EditSpan ==
  ASSUME NEW S, NEW s \in Seq(S), NEW i, NEW e, NEW k \in Nat, k >= 1, FieldAt(i, e, s, k)
  PROVE  Span(s, k + 2, k + 17) = EditText(i, e)
<1>1. k + 2 \in 1 .. Len(s) + 1 /\ k + 17 \in k + 2 .. Len(s) + 1 /\ (k + 17) - (k + 2) = 15
  BY DEF FieldAt
<1>2. PICK x \in Seq(S) : /\ x = Span(s, k + 2, k + 17) /\ Len(x) = 15
                          /\ \A j \in 1 .. 15 : x[j] = s[(k + 2) + j - 1]
  <2>1. /\ Span(s, k + 2, k + 17) \in Seq(S) /\ Len(Span(s, k + 2, k + 17)) = (k + 17) - (k + 2)
        /\ \A j \in 1 .. (k + 17) - (k + 2) : Span(s, k + 2, k + 17)[j] = s[(k + 2) + j - 1]
    BY <1>1, SpanIs, Zenon
  <2> QED
    BY <1>1, <2>1, Zenon
<1>3. /\ x[1] = s[k + 2] /\ x[2] = s[k + 3] /\ x[3] = s[k + 4] /\ x[4] = s[k + 5] /\ x[5] = s[k + 6]
      /\ x[6] = s[k + 7] /\ x[7] = s[k + 8] /\ x[8] = s[k + 9] /\ x[9] = s[k + 10] /\ x[10] = s[k + 11]
      /\ x[11] = s[k + 12] /\ x[12] = s[k + 13] /\ x[13] = s[k + 14] /\ x[14] = s[k + 15] /\ x[15] = s[k + 16]
  BY <1>2
<1>4. /\ x[1] = "num=" /\ x[2] = i /\ x[3] = "quote" /\ x[4] = "ws" /\ x[5] = "operation="
      /\ x[6] = e.operation /\ x[7] = "quote" /\ x[8] = "ws" /\ x[9] = "enabled=" /\ x[10] = e.enabled
      /\ x[11] = "quote" /\ x[12] = "ws" /\ x[13] = "params" /\ x[14] = e.params /\ x[15] = "quote"
  BY <1>3 DEF FieldAt
<1>5. x = EditText(i, e)
  <2>1. Len(x) = 15
    BY <1>2
  <2> QED
    BY <1>4, <2>1 DEF EditText
<1> QED
  BY <1>2, <1>5
\* The items of the layout.
LEMMA LayoutIs ==
  /\ Layout[1] = "ws" /\ Layout[2] = "num=" /\ Layout[3] = "number" /\ Layout[4] = "quote" /\ Layout[5] = "ws"
  /\ Layout[6] = "operation=" /\ Layout[7] = "name" /\ Layout[8] = "quote" /\ Layout[9] = "ws"
  /\ Layout[10] = "enabled=" /\ Layout[11] = "flag" /\ Layout[12] = "rest" /\ Layout[13] = "ws"
BY DEF Layout

\* An edit is read entirely or not at all.
LEMMA FieldRead ==
  ASSUME NEW s \in Seq(Piece), NEW t, \A m \in 1 .. Len(s) : s[m] = t[m],
         NEW i \in Digits, NEW e \in Edit, NEW k \in Nat, k >= 1, k <= Len(s), FieldAt(i, e, t, k)
  PROVE  /\ k + 18 <= Len(s) => AcceptField(s, k + 1) = So(k + 19, k + 2, EditText(i, e))
         /\ k + 18 > Len(s) => IsError(AcceptField(s, k + 1))
<1>1. PICK n \in Nat : n = Len(s)
  OBVIOUS
<1>2. ASSUME NEW j \in 0 .. 18, k + j <= n PROVE s[k + j] = t[k + j]
  BY <1>1, <1>2
<1>k. /\ (k + 1 <= Len(s) => s[k + 1] = t[k + 1]) /\ (k + 2 <= Len(s) => s[k + 2] = t[k + 2])
      /\ (k + 3 <= Len(s) => s[k + 3] = t[k + 3]) /\ (k + 4 <= Len(s) => s[k + 4] = t[k + 4])
      /\ (k + 5 <= Len(s) => s[k + 5] = t[k + 5]) /\ (k + 6 <= Len(s) => s[k + 6] = t[k + 6])
      /\ (k + 7 <= Len(s) => s[k + 7] = t[k + 7]) /\ (k + 8 <= Len(s) => s[k + 8] = t[k + 8])
      /\ (k + 9 <= Len(s) => s[k + 9] = t[k + 9]) /\ (k + 10 <= Len(s) => s[k + 10] = t[k + 10])
      /\ (k + 11 <= Len(s) => s[k + 11] = t[k + 11]) /\ (k + 12 <= Len(s) => s[k + 12] = t[k + 12])
      /\ (k + 13 <= Len(s) => s[k + 13] = t[k + 13]) /\ (k + 14 <= Len(s) => s[k + 14] = t[k + 14])
      /\ (k + 15 <= Len(s) => s[k + 15] = t[k + 15]) /\ (k + 16 <= Len(s) => s[k + 16] = t[k + 16])
      /\ (k + 17 <= Len(s) => s[k + 17] = t[k + 17]) /\ (k + 18 <= Len(s) => s[k + 18] = t[k + 18])
  <2>1. /\ 1 \in 0 .. 18 /\ 2 \in 0 .. 18 /\ 3 \in 0 .. 18 /\ 4 \in 0 .. 18 /\ 5 \in 0 .. 18 /\ 6 \in 0 .. 18
        /\ 7 \in 0 .. 18 /\ 8 \in 0 .. 18 /\ 9 \in 0 .. 18 /\ 10 \in 0 .. 18 /\ 11 \in 0 .. 18 /\ 12 \in 0 .. 18
        /\ 13 \in 0 .. 18 /\ 14 \in 0 .. 18 /\ 15 \in 0 .. 18 /\ 16 \in 0 .. 18 /\ 17 \in 0 .. 18 /\ 18 \in 0 .. 18
    OBVIOUS
  <2> QED
    BY <1>1, <1>2, <2>1, Zenon
<1> DEFINE Cut(j, v) == k + j <= Len(s) => s[k + j] = v
<1>3. /\ Cut(1, "ws") /\ Cut(2, "num=") /\ Cut(3, i) /\ Cut(4, "quote") /\ Cut(5, "ws")
      /\ Cut(6, "operation=") /\ Cut(7, e.operation) /\ Cut(8, "quote") /\ Cut(9, "ws")
      /\ Cut(10, "enabled=") /\ Cut(11, e.enabled) /\ Cut(12, "quote") /\ Cut(13, "ws")
      /\ Cut(14, "params") /\ Cut(15, e.params) /\ Cut(16, "quote") /\ Cut(17, "/>") /\ Cut(18, "ws")
  BY <1>k DEF FieldAt
<1>4. /\ i \in Values["number"] /\ e.enabled \in Values["flag"] /\ e.operation # "quote" /\ e.params # "/>"
  BY EditIs DEF Values, Word, Syntax
<1>5. /\ "ws" \notin {"rest", "name", "number", "flag"} /\ "num=" \notin {"rest", "name", "number", "flag"}
      /\ "quote" \notin {"rest", "name", "number", "flag"}
      /\ "operation=" \notin {"rest", "name", "number", "flag"}
      /\ "enabled=" \notin {"rest", "name", "number", "flag"}
  OBVIOUS
<1>6. PICK f : Accepting(s, k + 1, f)
  BY AcceptFieldIs
<1>7. /\ f[0] = So(k + 1, k + 2, <<>>) /\ f[1] = Accept(s, f[0], "ws") /\ f[2] = Accept(s, f[1], "num=")
      /\ f[3] = Accept(s, f[2], "number") /\ f[4] = Accept(s, f[3], "quote") /\ f[5] = Accept(s, f[4], "ws")
      /\ f[6] = Accept(s, f[5], "operation=") /\ f[7] = Accept(s, f[6], "name")
      /\ f[8] = Accept(s, f[7], "quote") /\ f[9] = Accept(s, f[8], "ws") /\ f[10] = Accept(s, f[9], "enabled=")
      /\ f[11] = Accept(s, f[10], "flag") /\ f[12] = Accept(s, f[11], "rest") /\ f[13] = Accept(s, f[12], "ws")
  <2>1. f[0] = So(k + 1, (k + 1) + 1, <<>>) /\ \A j \in 1 .. 13 : f[j] = Accept(s, f[j - 1], Layout[j])
    BY <1>6 DEF Accepting
  <2>2. (k + 1) + 1 = k + 2
    OBVIOUS
  <2>3. /\ f[1] = Accept(s, f[0], Layout[1]) /\ f[2] = Accept(s, f[1], Layout[2])
        /\ f[3] = Accept(s, f[2], Layout[3]) /\ f[4] = Accept(s, f[3], Layout[4])
        /\ f[5] = Accept(s, f[4], Layout[5]) /\ f[6] = Accept(s, f[5], Layout[6])
        /\ f[7] = Accept(s, f[6], Layout[7]) /\ f[8] = Accept(s, f[7], Layout[8])
        /\ f[9] = Accept(s, f[8], Layout[9]) /\ f[10] = Accept(s, f[9], Layout[10])
        /\ f[11] = Accept(s, f[10], Layout[11]) /\ f[12] = Accept(s, f[11], Layout[12])
        /\ f[13] = Accept(s, f[12], Layout[13])
    BY <2>1
  <2> QED
    BY <2>1, <2>2, <2>3, LayoutIs, Zenon
<1> DEFINE R(so, a, h) == Reaches(so, Len(s), a, k + 2, h)
<1>r0. R(f[0], k + 1, <<>>)
  BY <1>1, <1>7 DEF Reaches
<1>r1. R(f[1], k + 2, <<>>)
  <2>1. k + 1 \in Nat /\ k + 1 >= 1 /\ k + 2 = (k + 1) + 1
    OBVIOUS
  <2>2. Reaches(Accept(s, f[0], "ws"), Len(s), k + 2, k + 2, <<>>)
    BY <1>3, <1>5, <1>r0, <2>1, TokenReached
  <2> QED
    BY <1>7, <2>2
<1>r2. R(f[2], k + 3, <<>>)
  <2>1. k + 2 \in Nat /\ k + 2 >= 1 /\ k + 3 = (k + 2) + 1
    OBVIOUS
  <2>2. Reaches(Accept(s, f[1], "num="), Len(s), k + 3, k + 2, <<>>)
    BY <1>3, <1>5, <1>r1, <2>1, TokenReached
  <2> QED
    BY <1>7, <2>2
<1>r3. R(f[3], k + 4, <<>>)
  <2>1. k + 3 \in Nat /\ k + 3 >= 1 /\ k + 4 = (k + 3) + 1 /\ "number" \in {"number", "flag"}
    OBVIOUS
  <2>2. Reaches(Accept(s, f[2], "number"), Len(s), k + 4, k + 2, <<>>)
    BY <1>3, <1>4, <1>r2, <2>1, ValueReached
  <2> QED
    BY <1>7, <2>2
<1>r4. R(f[4], k + 5, <<>>)
  <2>1. k + 4 \in Nat /\ k + 4 >= 1 /\ k + 5 = (k + 4) + 1
    OBVIOUS
  <2>2. Reaches(Accept(s, f[3], "quote"), Len(s), k + 5, k + 2, <<>>)
    BY <1>3, <1>5, <1>r3, <2>1, TokenReached
  <2> QED
    BY <1>7, <2>2
<1>r5. R(f[5], k + 6, <<>>)
  <2>1. k + 5 \in Nat /\ k + 5 >= 1 /\ k + 6 = (k + 5) + 1
    OBVIOUS
  <2>2. Reaches(Accept(s, f[4], "ws"), Len(s), k + 6, k + 2, <<>>)
    BY <1>3, <1>5, <1>r4, <2>1, TokenReached
  <2> QED
    BY <1>7, <2>2
<1>r6. R(f[6], k + 7, <<>>)
  <2>1. k + 6 \in Nat /\ k + 6 >= 1 /\ k + 7 = (k + 6) + 1
    OBVIOUS
  <2>2. Reaches(Accept(s, f[5], "operation="), Len(s), k + 7, k + 2, <<>>)
    BY <1>3, <1>5, <1>r5, <2>1, TokenReached
  <2> QED
    BY <1>7, <2>2
<1>r8. R(f[8], k + 9, <<>>)
  <2>1. k + 7 \in Nat /\ k + 7 >= 1 /\ k + 8 = (k + 7) + 1 /\ k + 9 = (k + 7) + 2
    OBVIOUS
  <2>2. Reaches(Accept(s, Accept(s, f[6], "name"), "quote"), Len(s), k + 9, k + 2, <<>>)
    BY <1>3, <1>4, <1>r6, <2>1, NameReached
  <2> QED
    BY <1>7, <2>2
<1>r9. R(f[9], k + 10, <<>>)
  <2>1. k + 9 \in Nat /\ k + 9 >= 1 /\ k + 10 = (k + 9) + 1
    OBVIOUS
  <2>2. Reaches(Accept(s, f[8], "ws"), Len(s), k + 10, k + 2, <<>>)
    BY <1>3, <1>5, <1>r8, <2>1, TokenReached
  <2> QED
    BY <1>7, <2>2
<1>r10. R(f[10], k + 11, <<>>)
  <2>1. k + 10 \in Nat /\ k + 10 >= 1 /\ k + 11 = (k + 10) + 1
    OBVIOUS
  <2>2. Reaches(Accept(s, f[9], "enabled="), Len(s), k + 11, k + 2, <<>>)
    BY <1>3, <1>5, <1>r9, <2>1, TokenReached
  <2> QED
    BY <1>7, <2>2
<1>r11. R(f[11], k + 12, <<>>)
  <2>1. k + 11 \in Nat /\ k + 11 >= 1 /\ k + 12 = (k + 11) + 1 /\ "flag" \in {"number", "flag"}
    OBVIOUS
  <2>2. Reaches(Accept(s, f[10], "flag"), Len(s), k + 12, k + 2, <<>>)
    BY <1>3, <1>4, <1>r10, <2>1, ValueReached
  <2> QED
    BY <1>7, <2>2
<1>r12. R(f[12], k + 18, Span(s, k + 2, k + 17))
  <2>1. k + 12 \in Nat /\ k + 12 >= 1 /\ k + 17 = (k + 12) + 5 /\ k + 18 = (k + 12) + 6
    OBVIOUS
  <2>2. \A j \in k + 12 .. (k + 12) + 4 : j <= Len(s) => s[j] # "/>"
    <3>1. \A j \in k + 12 .. (k + 12) + 4 : j \in {k + 12, k + 13, k + 14, k + 15, k + 16}
      OBVIOUS
    <3> QED
      BY <1>3, <1>4, <3>1
  <2>3. Reaches(Accept(s, f[11], "rest"), Len(s), k + 18, k + 2, Span(s, k + 2, k + 17))
    BY <1>3, <1>r11, <2>1, <2>2, RestReached
  <2> QED
    BY <1>7, <2>3
<1>r13. R(f[13], k + 19, Span(s, k + 2, k + 17))
  <2>1. k + 18 \in Nat /\ k + 18 >= 1 /\ k + 19 = (k + 18) + 1
    OBVIOUS
  <2>2. Reaches(Accept(s, f[12], "ws"), Len(s), k + 19, k + 2, Span(s, k + 2, k + 17))
    BY <1>3, <1>5, <1>r12, <2>1, TokenReached
  <2> QED
    BY <1>7, <2>2
<1>8. AcceptField(s, k + 1) = f[13]
  BY <1>6 DEF Accepting
<1>9. ASSUME k + 18 <= n PROVE AcceptField(s, k + 1) = So(k + 19, k + 2, EditText(i, e))
  <2>1. FieldAt(i, e, s, k)
    <3>1. /\ k + 1 <= Len(s) /\ k + 2 <= Len(s) /\ k + 3 <= Len(s) /\ k + 4 <= Len(s) /\ k + 5 <= Len(s)
          /\ k + 6 <= Len(s) /\ k + 7 <= Len(s) /\ k + 8 <= Len(s) /\ k + 9 <= Len(s) /\ k + 10 <= Len(s)
          /\ k + 11 <= Len(s) /\ k + 12 <= Len(s) /\ k + 13 <= Len(s) /\ k + 14 <= Len(s) /\ k + 15 <= Len(s)
          /\ k + 16 <= Len(s) /\ k + 17 <= Len(s) /\ k + 18 <= Len(s)
      BY <1>1, <1>9
    <3>2. s[k] = t[k]
      BY <1>1
    <3> QED
      BY <1>k, <3>1, <3>2, Zenon DEF FieldAt
  <2>2. Span(s, k + 2, k + 17) = EditText(i, e)
    BY <2>1, EditSpan
  <2>3. f[13] = So(k + 19, k + 2, Span(s, k + 2, k + 17))
    BY <1>1, <1>9, <1>r13 DEF Reaches
  <2> QED
    BY <1>8, <2>2, <2>3, Zenon
<1>10. ASSUME k + 18 > n PROVE IsError(AcceptField(s, k + 1))
  BY <1>1, <1>8, <1>10, <1>r13 DEF Reaches
<1> QED
  BY <1>1, <1>9, <1>10

-----------------------------------------------------------------------------
(* parse_edits and read_from_file.                                         *)

\* What FieldsFrom is at q, given what it is behind the edit at q.
FieldsStep(s, q, others) ==
  LET field == AcceptField(s, q + 1)
  IN IF ~Accepts(s, q, "li") THEN [hashes |-> <<>>]
     ELSE IF IsError(field) THEN field
     ELSE IF IsError(others) THEN others
     ELSE [hashes |-> <<field.hash>> \o others.hashes]

\* What is read from q on is the edit at q and what is read from behind it on.
LEMMA FieldsFromIs ==
  ASSUME NEW S, NEW s \in Seq(S)
  PROVE  \A q \in 1 .. Len(s) + 1 :
           FieldsFrom(s, q) = FieldsStep(s, q, FieldsFrom(s, AcceptField(s, q + 1).at))
<1>1. PICK N \in Nat : N = Len(s) + 1
  OBVIOUS
<1> DEFINE Body(q, g) == FieldsStep(s, q, g[AcceptField(s, q + 1).at])
           From(g, k) == \A q \in k .. N : g[q] = Body(q, g)
           Exists(k) == \E g : From(g, k)
           T == {k \in Int : Exists(k)}
           All(g) == g = [q \in 1 .. Len(s) + 1 |->
                            IF ~Accepts(s, q, "li") THEN [hashes |-> <<>>]
                            ELSE LET field  == AcceptField(s, q + 1)
                                     others == g[field.at]
                                 IN IF IsError(field) THEN field
                                    ELSE IF IsError(others) THEN others
                                    ELSE [hashes |-> <<field.hash>> \o others.hashes]]
<1>2. ASSUME NEW q \in 1 .. N, NEW g, NEW h, \A r \in q + 1 .. N : g[r] = h[r]
      PROVE  Body(q, g) = Body(q, h)
  <2>1. CASE ~Accepts(s, q, "li") \/ IsError(AcceptField(s, q + 1))
    BY <2>1, Zenon DEF FieldsStep
  <2>2. CASE Accepts(s, q, "li") /\ ~IsError(AcceptField(s, q + 1))
    <3>1. q + 1 \in 1 .. Len(s) + 1
      BY <2>2 DEF Accepts
    <3>2. Comes(s, q + 1, AcceptField(s, q + 1))
      BY <3>1, FieldComes
    <3>3. PICK a \in q + 1 .. Len(s) + 1 : \E z : AcceptField(s, q + 1) = So(a, (q + 1) + 1, z)
      BY <2>2, <3>2, Zenon DEF Comes
    <3>4. PICK z : AcceptField(s, q + 1) = So(a, (q + 1) + 1, z)
      BY <3>3
    <3>5. AcceptField(s, q + 1).at = a
      BY <3>4 DEF So
    <3>6. g[a] = h[a]
      BY <1>1, <1>2, Zenon
    <3> QED
      BY <3>5, <3>6, Zenon
  <2> QED
    BY <2>1, <2>2
<1>3. Exists(N)
  <2> DEFINE g == [q \in {N} |-> [hashes |-> <<>>]]
  <2>1. ~Accepts(s, N, "li")
    BY <1>1 DEF Accepts
  <2>2. Body(N, g) = [hashes |-> <<>>]
    BY <2>1, Zenon DEF FieldsStep
  <2>3. \A q \in N .. N : q = N
    OBVIOUS
  <2>4. g[N] = [hashes |-> <<>>]
    OBVIOUS
  <2> QED
    BY <2>2, <2>3, <2>4
<1>4. ASSUME NEW k \in 1 .. N - 1, Exists(k + 1) PROVE Exists(k)
  <2>1. PICK g : From(g, k + 1)
    BY <1>4
  <2> DEFINE h == [q \in k .. N |-> IF q = k THEN Body(k, g) ELSE g[q]]
  <2>2. \A r \in k + 1 .. N : h[r] = g[r]
    OBVIOUS
  <2>3. h[k] = Body(k, g)
    OBVIOUS
  <2>4. ASSUME NEW q \in k .. N PROVE h[q] = Body(q, h)
    <3>1. Body(q, h) = Body(q, g)
      <4>1. q \in 1 .. N /\ \A r \in q + 1 .. N : r \in k + 1 .. N
        OBVIOUS
      <4>2. \A r \in q + 1 .. N : h[r] = g[r]
        BY <2>2, <4>1, Zenon
      <4> HIDE DEF h, Body
      <4> QED
        BY <1>2, <4>1, <4>2, Zenon
    <3>2. h[q] = Body(q, g)
      <4>1. q = k \/ q \in k + 1 .. N
        OBVIOUS
      <4> HIDE DEF h, Body
      <4> QED
        BY <2>1, <2>2, <2>3, <4>1, Zenon
    <3> HIDE DEF h, Body
    <3> QED
      BY <3>1, <3>2
  <2> HIDE DEF h, Body
  <2> QED
    BY <2>4, Zenon
<1>5. Exists(1)
  <2> HIDE DEF Exists
  <2>1. 1 \in Int /\ N \in Int /\ N \in T /\ \A k \in 1 .. N - 1 : k + 1 \in T => k \in T
    BY <1>3, <1>4
  <2>2. \A k \in 1 .. N : k \in T
    <3> HIDE DEF T
    <3> QED
      BY <2>1, DownInduction, Zenon
  <2>3. 1 \in 1 .. N
    BY <1>1
  <2> QED
    BY <2>2, <2>3
<1>6. PICK f : From(f, 1)
  BY <1>5
<1> DEFINE h == [q \in 1 .. Len(s) + 1 |-> f[q]]
<1>7. All(h)
  <2>1. ASSUME NEW q \in 1 .. Len(s) + 1 PROVE f[q] = Body(q, h)
    <3>1. q \in 1 .. N /\ \A r \in q + 1 .. N : h[r] = f[r]
      BY <1>1
    <3>2. Body(q, f) = Body(q, h)
      <4> HIDE DEF h, Body
      <4> QED
        BY <1>2, <3>1, Zenon
    <3>3. f[q] = Body(q, f)
      BY <1>6, <3>1, Zenon
    <3> QED
      BY <3>2, <3>3, Zenon
  <2>2. h = [q \in 1 .. Len(s) + 1 |-> Body(q, h)]
    BY <2>1, Zenon
  <2> HIDE DEF h
  <2> QED
    BY <2>2, Zenon DEF FieldsStep
<1>8. PICK g : All(g) /\ \A p : FieldsFrom(s, p) = g[p]
  <2>1. All(CHOOSE g : All(g))
    <3> HIDE DEF h
    <3> QED
      BY <1>7
  <2>2. \A p : FieldsFrom(s, p) = (CHOOSE g : All(g))[p]
    BY Zenon DEF FieldsFrom
  <2> HIDE DEF All
  <2> QED
    BY <2>1, <2>2, Zenon
<1>9. \A q \in 1 .. Len(s) + 1 : g[q] = Body(q, g)
  BY <1>8, Zenon DEF FieldsStep
<1> QED
  BY <1>8, <1>9, Zenon

\* What is hashed of the i-th edit, and of those from the i-th to the k-th.
HashAt(d, i)    == EditText(Num(i), d.edits[i])
Hashes(d, i, k) == [j \in 1 .. k - i + 1 |-> HashAt(d, i + j - 1)]

\* None of them.
LEMMA NoHashes ==
  ASSUME NEW d, NEW i \in Nat
  PROVE  Hashes(d, i, i - 1) = <<>>
<1>1. (i - 1) - i + 1 = 0
  OBVIOUS
<1>2. Hashes(d, i, i - 1) = [j \in 1 .. 0 |-> HashAt(d, i + j - 1)]
  BY <1>1, Zenon DEF Hashes
<1> QED
  BY <1>2

\* One of them before the others.
LEMMA HashesJoin ==
  ASSUME NEW d, NEW i \in Nat, NEW k \in Int, k >= i
  PROVE  <<HashAt(d, i)>> \o Hashes(d, i + 1, k) = Hashes(d, i, k)
<1> DEFINE V == {HashAt(d, j) : j \in Nat}
<1>1. PICK m \in Nat : m = k - i
  OBVIOUS
<1>2. k - (i + 1) + 1 = m /\ k - i + 1 = m + 1
  BY <1>1
<1>3. \A j \in Nat : HashAt(d, j) \in V
  OBVIOUS
<1> HIDE DEF V
<1>4. PICK x : x = Hashes(d, i + 1, k) /\ x = [j \in 1 .. m |-> HashAt(d, (i + 1) + j - 1)]
  BY <1>2, Zenon DEF Hashes
<1>5. PICK y : y = Hashes(d, i, k) /\ y = [j \in 1 .. m + 1 |-> HashAt(d, i + j - 1)]
  BY <1>2, Zenon DEF Hashes
<1>6. x \in Seq(V) /\ Len(x) = m
  <2>1. \A j \in 1 .. m : (i + 1) + j - 1 \in Nat
    OBVIOUS
  <2> QED
    BY <1>3, <1>4, <2>1
<1>7. y \in Seq(V) /\ Len(y) = m + 1
  <2>1. \A j \in 1 .. m + 1 : i + j - 1 \in Nat
    OBVIOUS
  <2> QED
    BY <1>3, <1>5, <2>1
<1>8. PICK h \in V : h = HashAt(d, i)
  BY <1>3
<1>9. PICK a \in Seq(V) : a = <<h>> /\ Len(a) = 1 /\ a[1] = h
  <2>1. <<h>> \in Seq(V) /\ Len(<<h>>) = 1 /\ <<h>>[1] = h
    OBVIOUS
  <2> QED
    BY <2>1
<1>10. PICK z : z = a \o x /\ Joins(V, a, x, z)
  BY <1>6, Concatenation
<1>11. z \in Seq(V) /\ Len(z) = m + 1 /\ z[1] = h /\ \A j \in 1 .. m : z[1 + j] = x[j]
  BY <1>6, <1>9, <1>10 DEF Joins
<1>12. \A j \in 1 .. m + 1 : z[j] = y[j]
  <2>1. z[1] = y[1]
    <3>1. 1 \in 1 .. m + 1 /\ i + 1 - 1 = i
      OBVIOUS
    <3>2. y[1] = HashAt(d, i)
      BY <1>5, <3>1
    <3> QED
      BY <1>8, <1>11, <3>2
  <2>2. ASSUME NEW j \in 1 .. m + 1, j # 1 PROVE z[j] = y[j]
    <3>1. j - 1 \in 1 .. m /\ 1 + (j - 1) = j /\ (i + 1) + (j - 1) - 1 = i + j - 1
      BY <2>2
    <3>2. x[j - 1] = HashAt(d, (i + 1) + (j - 1) - 1) /\ y[j] = HashAt(d, i + j - 1)
      BY <1>4, <1>5, <3>1, Zenon
    <3>3. z[1 + (j - 1)] = x[j - 1]
      BY <1>11, <3>1, Zenon
    <3> QED
      BY <3>1, <3>2, <3>3, Zenon
  <2> QED
    BY <2>1, <2>2
<1>13. z = y
  BY <1>7, <1>11, <1>12
<1> QED
  BY <1>4, <1>5, <1>8, <1>9, <1>10, <1>13, Zenon

\* What the text from the i-th edit on is read as.
EditsFrom(d, n, i, r) ==
  \/ IsError(r) /\ n # Len(Text(d))
  \/ \E k \in i - 1 .. Len(d.edits) :
       /\ r = [hashes |-> Hashes(d, i, k)]
       /\ n = Len(Text(d)) => k = Len(d.edits)

\* From the i-th edit on there are read the edits that are entirely there, or an
\* error: by induction from the last edit to the first.
LEMMA EditsRead ==
  ASSUME NEW d \in Document, d.edits # <<>>, NEW n, NEW s, Begins(d, n, s)
  PROVE  \A i \in 1 .. Len(d.edits) + 1 :
           EditAt(d, i) <= n + 1 => EditsFrom(d, n, i, FieldsFrom(s, EditAt(d, i)))
<1>1. PICK t, H : t = Text(d) /\ H \in Nat /\ H = HistoryIn(d) /\ FieldsAt(d, t)
  BY PositionsFound DEF Positions
<1>2. n \in Nat /\ n <= Len(t) /\ s \in Seq(Piece) /\ Len(s) = n /\ \A m \in 1 .. Len(s) : s[m] = t[m]
  BY <1>1, PositionsFound DEF Begins, Positions
<1>3. PICK N \in Nat : N = Len(d.edits) /\ \A i \in 1 .. N : d.edits[i] \in Edit
  BY DEF Document
<1>4. \A i \in 1 .. N + 1 : /\ EditAt(d, i) \in Nat /\ EditAt(d, i) >= 1 /\ EditAt(d, i + 1) = EditAt(d, i) + 19
                            /\ EditAt(d, i) <= EditAt(d, N + 1)
  BY <1>1 DEF EditAt
<1>5. Len(t) = EditAt(d, N + 1) + 7 /\ t[EditAt(d, N + 1)] = "/Seq"
  BY <1>1, <1>3 DEF FieldsAt
<1> DEFINE Good(i) == EditAt(d, i) <= n + 1 => EditsFrom(d, n, i, FieldsFrom(s, EditAt(d, i)))
           T == {i \in Int : Good(i)}
<1>6. Good(N + 1)
  <2>1. SUFFICES ASSUME EditAt(d, N + 1) <= n + 1 PROVE EditsFrom(d, n, N + 1, FieldsFrom(s, EditAt(d, N + 1)))
    OBVIOUS
  <2>2. PICK k \in Nat : k = EditAt(d, N + 1) /\ k >= 1 /\ k \in 1 .. Len(s) + 1
    BY <1>2, <1>4, <2>1
  <2>3. ~Accepts(s, k, "li")
    BY <1>2, <1>5, <2>2 DEF Accepts
  <2>4. FieldsFrom(s, k) = [hashes |-> <<>>]
    BY <1>2, <2>2, <2>3, FieldsFromIs, Zenon DEF FieldsStep
  <2>5. Hashes(d, N + 1, N) = <<>>
    <3>1. N + 1 \in Nat /\ (N + 1) - 1 = N
      OBVIOUS
    <3> QED
      BY <3>1, NoHashes, Zenon
  <2>6. N \in (N + 1) - 1 .. N
    OBVIOUS
  <2> QED
    BY <1>3, <2>2, <2>4, <2>5, <2>6, Zenon DEF EditsFrom
<1>7. ASSUME NEW i \in 1 .. N, Good(i + 1) PROVE Good(i)
  <2>1. SUFFICES ASSUME EditAt(d, i) <= n + 1 PROVE EditsFrom(d, n, i, FieldsFrom(s, EditAt(d, i)))
    OBVIOUS
  <2>i. i \in 1 .. N + 1 /\ i \in Nat /\ i + 1 \in 1 .. N + 1
    OBVIOUS
  <2>2. PICK k \in Nat : /\ k = EditAt(d, i) /\ k >= 1 /\ k \in 1 .. Len(s) + 1
                         /\ k + 19 = EditAt(d, i + 1) /\ k + 19 + 7 <= Len(t)
    <3>1. EditAt(d, i) \in Nat /\ EditAt(d, i) >= 1 /\ EditAt(d, i + 1) = EditAt(d, i) + 19
      BY <1>4, <2>i, Zenon
    <3>2. EditAt(d, i + 1) <= EditAt(d, N + 1) /\ EditAt(d, N + 1) \in Nat
      BY <1>4, <2>i
    <3> QED
      BY <1>2, <1>5, <2>1, <3>1, <3>2
  <2>3. FieldsFrom(s, k) = FieldsStep(s, k, FieldsFrom(s, AcceptField(s, k + 1).at))
    BY <1>2, <2>2, FieldsFromIs, Zenon
  <2>4. FieldAt(Num(i), d.edits[i], t, k) /\ Num(i) \in Digits /\ d.edits[i] \in Edit
    <3>1. FieldAt(Num(i), d.edits[i], t, k)
      BY <1>1, <1>3, <2>2, Zenon DEF FieldsAt
    <3> QED
      BY <1>3, <2>i, <3>1, NumIsDigit, Zenon
  <2>5. CASE k = n + 1
    <3>1. ~Accepts(s, k, "li")
      BY <1>2, <2>5 DEF Accepts
    <3>2. FieldsFrom(s, k) = [hashes |-> <<>>]
      BY <2>3, <3>1, Zenon DEF FieldsStep
    <3>3. Hashes(d, i, i - 1) = <<>>
      BY <2>i, NoHashes, Zenon
    <3>4. i - 1 \in i - 1 .. N /\ n # Len(t)
      BY <1>2, <2>2, <2>5
    <3> QED
      BY <1>1, <1>3, <2>2, <3>2, <3>3, <3>4, Zenon DEF EditsFrom
  <2>6. CASE k <= n
    <3>1. Accepts(s, k, "li")
      <4>1. k \in 1 .. Len(s) /\ t[k] = "li"
        BY <1>2, <2>2, <2>4, <2>6 DEF FieldAt
      <4> QED
        BY <1>2, <4>1 DEF Accepts
    <3>2. /\ k + 18 <= Len(s) => AcceptField(s, k + 1) = So(k + 19, k + 2, HashAt(d, i))
          /\ k + 18 > Len(s) => IsError(AcceptField(s, k + 1))
      <4>1. k <= Len(s)
        BY <1>2, <2>6
      <4> QED
        BY <1>2, <2>2, <2>4, <4>1, FieldRead, Zenon DEF HashAt
    <3>3. CASE k + 18 > n
      <4>1. IsError(AcceptField(s, k + 1))
        BY <1>2, <3>2, <3>3
      <4>2. FieldsFrom(s, k) = AcceptField(s, k + 1)
        BY <2>3, <3>1, <4>1, Zenon DEF FieldsStep
      <4>3. n # Len(t)
        BY <1>2, <2>2, <3>3
      <4> QED
        BY <1>1, <2>2, <4>1, <4>2, <4>3, Zenon DEF EditsFrom
    <3>4. CASE k + 18 <= n
      <4>1. AcceptField(s, k + 1) = So(k + 19, k + 2, HashAt(d, i))
        BY <1>2, <3>2, <3>4
      <4>2. PICK field : /\ field = AcceptField(s, k + 1) /\ ~IsError(field)
                         /\ field.at = EditAt(d, i + 1) /\ field.hash = HashAt(d, i)
        BY <2>2, <4>1, SoIs
      <4>3. EditAt(d, i + 1) <= n + 1
        <5>1. n \in Nat /\ EditAt(d, i + 1) = k + 19
          BY <1>2, <2>2
        <5> QED
          BY <3>4, <5>1
      <4>4. PICK others : others = FieldsFrom(s, EditAt(d, i + 1)) /\ EditsFrom(d, n, i + 1, others)
        BY <1>7, <4>3, Zenon
      <4>5. FieldsFrom(s, k) = FieldsStep(s, k, others)
        BY <2>3, <4>2, <4>4, Zenon
      <4>6. CASE IsError(others) /\ n # Len(Text(d))
        <5>1. FieldsFrom(s, k) = others
          BY <3>1, <4>2, <4>5, <4>6, Zenon DEF FieldsStep
        <5> QED
          BY <2>2, <4>6, <5>1, Zenon DEF EditsFrom
      <4>7. ASSUME NEW j \in (i + 1) - 1 .. Len(d.edits), others = [hashes |-> Hashes(d, i + 1, j)],
                   n = Len(Text(d)) => j = Len(d.edits)
            PROVE  EditsFrom(d, n, i, FieldsFrom(s, k))
        <5>1. ~IsError(others) /\ others.hashes = Hashes(d, i + 1, j)
          BY <4>7 DEF IsError
        <5>2. FieldsFrom(s, k) = [hashes |-> <<HashAt(d, i)>> \o Hashes(d, i + 1, j)]
          BY <3>1, <4>2, <4>5, <5>1, Zenon DEF FieldsStep
        <5>3. j \in Int /\ j >= i /\ j \in i - 1 .. Len(d.edits)
          BY <1>3
        <5>4. FieldsFrom(s, k) = [hashes |-> Hashes(d, i, j)]
          BY <2>i, <5>2, <5>3, HashesJoin, Zenon
        <5> QED
          BY <4>7, <5>3, <5>4, Zenon DEF EditsFrom
      <4> QED
        BY <2>2, <4>4, <4>6, <4>7, Zenon DEF EditsFrom
    <3> QED
      BY <1>2, <3>3, <3>4
  <2> QED
    BY <1>2, <2>1, <2>2, <2>5, <2>6
<1>8. \A i \in 1 .. N + 1 : i \in T
  <2> HIDE DEF Good
  <2>1. 1 \in Int /\ N + 1 \in Int /\ N + 1 \in T
    BY <1>6
  <2>2. \A i \in 1 .. (N + 1) - 1 : i + 1 \in T => i \in T
    <3>1. (N + 1) - 1 = N
      OBVIOUS
    <3> QED
      BY <1>7, <3>1
  <2> HIDE DEF T
  <2> QED
    BY <2>1, <2>2, DownInduction, Zenon
<1> QED
  BY <1>3, <1>8

\* And so does parse_edits, from the history on.
LEMMA EditsOfRead ==
  ASSUME NEW d \in Document, d.people => d.edits # <<>>, NEW n, NEW s, Begins(d, n, s)
  PROVE  EditsFrom(d, n, 1, EditsOf(s))
<1>1. PICK t, H : /\ t = Text(d) /\ t \in Seq(Piece) /\ H \in Nat /\ H = HistoryIn(d) /\ H >= 11
                  /\ HistoryStarts(d, t) /\ (d.edits # <<>> => FieldsAt(d, t)) /\ (d.edits = <<>> => NoFieldsAt(d, t))
  BY PositionsFound DEF Positions
<1>2. /\ n \in Nat /\ n <= Len(t) /\ s \in Seq(Piece) /\ Len(s) = n /\ \A m \in 1 .. n : s[m] = t[m]
      /\ 1 \in 1 .. Len(s) + 1
  BY <1>1 DEF Begins
<1>3. PICK N \in Nat : N = Len(d.edits)
  BY DEF Document
<1>4. Hashes(d, 1, 0) = <<>>
  <2>1. 1 \in Nat /\ 1 - 1 = 0
    OBVIOUS
  <2> QED
    BY <2>1, NoHashes
<1>5. ASSUME EditsOf(s) = [hashes |-> <<>>], n = Len(t) => N = 0
      PROVE  EditsFrom(d, n, 1, EditsOf(s))
  <2>1. 0 \in 1 - 1 .. N
    OBVIOUS
  <2> QED
    BY <1>1, <1>3, <1>4, <1>5, <2>1, Zenon DEF EditsFrom
<1>6. ASSUME NEW h \in 1 .. Len(s) + 1, HistoryAt(s) = h, \A m \in h .. n : s[m] # "Seq"
      PROVE  EditsOf(s) = [hashes |-> <<>>]
  <2>1. n + 1 \in h .. Len(s) + 1 /\ n + 1 = Len(s) + 1 /\ (n + 1) - 1 = n
    BY <1>2
  <2>2. Until(s, h, "Seq") = n + 1
    BY <1>2, <1>6, <2>1, UntilIs
  <2>3. AtEnd(s, n + 1)
    BY <1>2 DEF AtEnd
  <2> QED
    BY <1>6, <2>2, <2>3, Zenon DEF EditsOf
<1>7. CASE n < H
  <2>1. HistoryAt(s) = n + 1
    <3>1. n + 1 \in 1 .. Len(s) + 1 /\ n + 1 = Len(s) + 1 /\ (n + 1) - 1 = n
      BY <1>2
    <3>2. \A m \in 1 .. n : s[m] # "history"
      <4>1. \A m \in 1 .. n : m \in 1 .. H - 1
        BY <1>1, <1>2, <1>7
      <4> QED
        BY <1>1, <1>2, <4>1 DEF HistoryStarts
    <3> QED
      BY <1>2, <3>1, <3>2, UntilIs DEF HistoryAt
  <2>2. n + 1 \in 1 .. Len(s) + 1 /\ \A m \in n + 1 .. n : s[m] # "Seq"
    BY <1>2
  <2>3. n # Len(t)
    BY <1>1, <1>2, <1>7 DEF HistoryStarts
  <2> QED
    BY <1>5, <1>6, <2>1, <2>2, <2>3
<1>8. CASE n >= H
  <2>1. HistoryAt(s) = H /\ H \in 1 .. Len(s) + 1
    <3>1. H \in 1 .. Len(s) + 1 /\ s[H] = "history"
      BY <1>1, <1>2, <1>8 DEF HistoryStarts
    <3>2. \A m \in 1 .. H - 1 : s[m] # "history"
      <4>1. \A m \in 1 .. H - 1 : m \in 1 .. n
        BY <1>1, <1>2, <1>8
      <4> QED
        BY <1>1, <1>2, <4>1 DEF HistoryStarts
    <3> QED
      BY <1>2, <3>1, <3>2, UntilIs DEF HistoryAt
  <2>2. CASE d.edits = <<>>
    <3>1. \A m \in H .. n : s[m] # "Seq"
      <4>1. \A m \in H .. Len(t) : t[m] # "Seq"
        BY <1>1, <2>2 DEF NoFieldsAt
      <4>2. \A m \in H .. n : m \in 1 .. n /\ m \in H .. Len(t)
        BY <1>1, <1>2
      <4> QED
        BY <1>2, <4>1, <4>2
    <3>2. N = 0
      BY <1>3, <2>2
    <3> QED
      BY <1>5, <1>6, <2>1, <3>1, <3>2
  <2>3. CASE d.edits # <<>>
    <3>1. /\ t[H] = "history" /\ t[H + 1] = "ws" /\ t[H + 2] = "Seq" /\ t[H + 3] = "ws"
          /\ H + 4 = EditAt(d, 1)
      BY <1>1, <2>3 DEF HistoryStarts, FieldsAt, EditAt
    <3>2. Len(t) >= H + 4
      <4>1. Len(t) = (H + 4 + 19 * ((N + 1) - 1)) + 7
        BY <1>1, <1>3, <2>3 DEF FieldsAt, EditAt
      <4> QED
        BY <1>1, <1>3, <4>1
    <3>3. CASE n < H + 2
      <4>1. \A m \in H .. n : s[m] # "Seq"
        <5>1. \A m \in H .. n : m \in 1 .. n /\ m \in {H, H + 1}
          BY <1>1, <1>2, <3>3
        <5> QED
          BY <1>2, <3>1, <5>1
      <4>2. n # Len(t)
        BY <1>1, <1>2, <3>2, <3>3
      <4> QED
        BY <1>5, <1>6, <2>1, <4>1, <4>2
    <3>4. CASE n >= H + 2
      <4>1. Until(s, HistoryAt(s), "Seq") = H + 2
        <5>1. H + 2 \in H .. Len(s) + 1 /\ s[H + 2] = "Seq"
          BY <1>1, <1>2, <3>1, <3>4
        <5>2. \A m \in H .. (H + 2) - 1 : s[m] # "Seq"
          <6>1. \A m \in H .. (H + 2) - 1 : m \in 1 .. n /\ m \in {H, H + 1}
            BY <1>1, <1>2, <3>4
          <6> QED
            BY <1>2, <3>1, <6>1
        <5>3. Until(s, H, "Seq") = H + 2
          <6>1. s \in Seq(Piece) /\ H \in 1 .. Len(s) + 1
            BY <1>2, <2>1
          <6>2. PICK q : q = H + 2
            OBVIOUS
          <6>3. q \in H .. Len(s) + 1 /\ (q = Len(s) + 1 \/ s[q] = "Seq") /\ \A m \in H .. q - 1 : s[m] # "Seq"
            BY <5>1, <5>2, <6>2, Zenon
          <6>4. Until(s, H, "Seq") = q
            BY <6>1, <6>3, UntilIs
          <6> QED
            BY <6>2, <6>4, Zenon
        <5> QED
          BY <2>1, <5>3, Zenon
      <4>2. ~AtEnd(s, H + 2) /\ (H + 2) + 1 = H + 3 /\ (H + 2) + 2 = H + 4
        BY <1>1, <1>2, <3>4 DEF AtEnd
      <4>3. CASE n = H + 2
        <5>1. ~Accepts(s, H + 3, "ws")
          BY <1>1, <1>2, <4>3 DEF Accepts
        <5>2. EditsOf(s) = Error("ParseEdits")
          BY <4>1, <4>2, <5>1, Zenon DEF EditsOf
        <5>3. n # Len(t)
          BY <1>1, <1>2, <3>2, <4>3
        <5> QED
          BY <1>1, <5>2, <5>3, ErrorIs DEF EditsFrom
      <4>4. CASE n >= H + 3
        <5>1. Accepts(s, H + 3, "ws")
          <6>1. H + 3 \in 1 .. n
            BY <1>1, <1>2, <4>4
          <6> QED
            BY <1>2, <3>1, <6>1 DEF Accepts
        <5>2. EditsOf(s) = FieldsFrom(s, EditAt(d, 1))
          BY <3>1, <4>1, <4>2, <5>1, Zenon DEF EditsOf
        <5>3. EditAt(d, 1) <= n + 1 /\ 1 \in 1 .. Len(d.edits) + 1
          BY <1>1, <1>2, <1>3, <3>1, <4>4
        <5> QED
          BY <2>3, <5>2, <5>3, EditsRead, Zenon
      <4> QED
        BY <1>1, <1>2, <3>4, <4>3, <4>4
    <3> QED
      BY <1>1, <1>2, <3>3, <3>4
  <2> QED
    BY <2>2, <2>3
<1> QED
  BY <1>1, <1>2, <1>7, <1>8

\* What a beginning of a sidecar is read as: an error, or the sidecar with the
\* first of its edits; and the whole of it as the sidecar.
ReadAs(d, n, r) ==
  \/ IsError(r) /\ n # Len(Text(d))
  \/ \E k \in 0 .. Len(d.edits) :
       /\ r = [rating |-> d.rating, edits |-> Hashes(d, 1, k), raw |-> d.raw]
       /\ n = Len(Text(d)) => k = Len(d.edits)

\* read_from_file reads a beginning as ReadAs says.
LEMMA BeginningRead ==
  ASSUME NEW d \in Document, d.people => d.edits # <<>>, NEW n, NEW s, Begins(d, n, s)
  PROVE  ReadAs(d, n, ReadFromFile(s))
<1>1. PICK rating, edits, raw : rating = RatingOf(s) /\ edits = EditsOf(s) /\ raw = RawOf(s)
  OBVIOUS
<1>2. /\ IsError(rating) \/ rating = [rating |-> d.rating]
      /\ n = Len(Text(d)) => ~IsError(rating)
  BY <1>1, RatingRead
<1>3. /\ IsError(raw) \/ raw = [name |-> d.raw]
      /\ n = Len(Text(d)) => ~IsError(raw)
  BY <1>1, RawRead
<1>4. EditsFrom(d, n, 1, edits)
  BY <1>1, EditsOfRead
<1>5. ReadFromFile(s) =
        IF IsError(rating) THEN rating
        ELSE IF IsError(edits) THEN edits
        ELSE IF IsError(raw) THEN raw
        ELSE [rating |-> rating.rating, edits |-> edits.hashes, raw |-> raw.name]
  BY <1>1, Zenon DEF ReadFromFile
<1>6. CASE IsError(rating)
  BY <1>2, <1>5, <1>6, Zenon DEF ReadAs
<1>7. CASE ~IsError(rating) /\ IsError(edits) /\ n # Len(Text(d))
  BY <1>5, <1>7, Zenon DEF ReadAs
<1>8. ASSUME ~IsError(rating), NEW k \in 1 - 1 .. Len(d.edits), edits = [hashes |-> Hashes(d, 1, k)],
             n = Len(Text(d)) => k = Len(d.edits)
      PROVE  ReadAs(d, n, ReadFromFile(s))
  <2>1. ~IsError(edits) /\ edits.hashes = Hashes(d, 1, k)
    BY <1>8 DEF IsError
  <2>2. CASE IsError(raw)
    BY <1>3, <1>5, <1>8, <2>1, <2>2, Zenon DEF ReadAs
  <2>3. CASE ~IsError(raw)
    <3>1. rating.rating = d.rating /\ raw.name = d.raw
      BY <1>2, <1>3, <1>8, <2>3
    <3>2. ReadFromFile(s) = [rating |-> d.rating, edits |-> Hashes(d, 1, k), raw |-> d.raw]
      BY <1>5, <1>8, <2>1, <2>3, <3>1, Zenon
    <3>3. k \in 0 .. Len(d.edits)
      OBVIOUS
    <3> QED
      BY <1>8, <3>2, <3>3, Zenon DEF ReadAs
  <2> QED
    BY <2>2, <2>3
<1> QED
  BY <1>4, <1>6, <1>7, <1>8, Zenon DEF EditsFrom

\* Whatever else is in it.
LEMMA RawOfBeginning ==
  ASSUME NEW d \in Document, NEW n, NEW s, Begins(d, n, s), ~IsError(ReadFromFile(s))
  PROVE  ReadFromFile(s).raw = d.raw
<1>1. PICK rating, edits, raw : rating = RatingOf(s) /\ edits = EditsOf(s) /\ raw = RawOf(s)
  OBVIOUS
<1>2. IsError(raw) \/ raw = [name |-> d.raw]
  BY <1>1, RawRead
<1>3. ReadFromFile(s) =
        IF IsError(rating) THEN rating
        ELSE IF IsError(edits) THEN edits
        ELSE IF IsError(raw) THEN raw
        ELSE [rating |-> rating.rating, edits |-> edits.hashes, raw |-> raw.name]
  BY <1>1, Zenon DEF ReadFromFile
<1>4. ~IsError(raw) /\ ReadFromFile(s) = [rating |-> rating.rating, edits |-> edits.hashes, raw |-> raw.name]
  BY <1>3, Zenon
<1>5. raw.name = d.raw
  BY <1>2, <1>4
<1> QED
  BY <1>4, <1>5

\* The hashes are the same exactly when the edits are.
LEMMA HashesTell ==
  ASSUME NEW c \in Document, NEW d \in Document
  PROVE  Hashes(c, 1, Len(c.edits)) = Hashes(d, 1, Len(d.edits)) <=> c.edits = d.edits
<1>1. PICK C, D : C = c.edits /\ D = d.edits /\ C \in Seq(Edit) /\ D \in Seq(Edit)
  BY DEF Document
<1>2. PICK M \in Nat, N \in Nat : M = Len(C) /\ N = Len(D)
  BY <1>1
<1>3. M - 1 + 1 = M /\ N - 1 + 1 = N
  OBVIOUS
<1>4. PICK x, y : /\ x = Hashes(c, 1, M) /\ x = [j \in 1 .. M |-> HashAt(c, 1 + j - 1)]
                  /\ y = Hashes(d, 1, N) /\ y = [j \in 1 .. N |-> HashAt(d, 1 + j - 1)]
  BY <1>3, Zenon DEF Hashes
<1>5. ASSUME x = y PROVE C = D
  <2>1. M = N
    <3>1. DOMAIN x = 1 .. M /\ DOMAIN y = 1 .. N
      BY <1>4
    <3>2. 1 .. M = 1 .. N
      BY <1>5, <3>1
    <3> QED
      BY <3>2
  <2>2. ASSUME NEW j \in 1 .. M PROVE C[j] = D[j]
    <3>1. 1 + j - 1 = j
      OBVIOUS
    <3>2. HashAt(c, j) = HashAt(d, j)
      <4>1. x[j] = HashAt(c, 1 + j - 1) /\ y[j] = HashAt(d, 1 + j - 1)
        BY <1>4, <2>1, Zenon
      <4> QED
        BY <1>5, <3>1, <4>1, Zenon
    <3>3. PICK e \in Edit, f \in Edit : e = C[j] /\ f = D[j]
      <4>1. j \in 1 .. Len(C) /\ j \in 1 .. Len(D)
        BY <1>2, <2>1
      <4>2. C \in Seq(Edit) /\ D \in Seq(Edit)
        BY <1>1
      <4>3. C[j] \in Edit /\ D[j] \in Edit
        BY <4>1, <4>2
      <4> QED
        BY <4>3
    <3>4. EditText(Num(j), e) = EditText(Num(j), f)
      BY <1>1, <3>2, <3>3, Zenon DEF HashAt
    <3>5. e.operation = f.operation /\ e.enabled = f.enabled /\ e.params = f.params
      BY <3>4 DEF EditText
    <3>6. e = f
      BY <3>5 DEF Edit
    <3> QED
      BY <3>3, <3>6
  <2>3. C \in Seq(Edit) /\ D \in Seq(Edit) /\ Len(C) = Len(D) /\ \A j \in 1 .. Len(C) : C[j] = D[j]
    BY <1>1, <1>2, <2>1, <2>2, Zenon
  <2> QED
    BY <2>3
<1>6. ASSUME C = D PROVE x = y
  BY <1>1, <1>2, <1>4, <1>6, Zenon DEF Hashes, HashAt
<1> QED
  BY <1>1, <1>2, <1>4, <1>5, <1>6

\* The first of the hashes are the beginning of all of them.
LEMMA HashesPrefix ==
  ASSUME NEW d, NEW N \in Nat, NEW k \in 0 .. N
  PROVE  IsPrefix(Hashes(d, 1, k), Hashes(d, 1, N)) /\ Len(Hashes(d, 1, N)) = N
<1> DEFINE V == {HashAt(d, j) : j \in Nat}
<1>1. \A j \in Nat : HashAt(d, j) \in V
  OBVIOUS
<1> HIDE DEF V
<1>2. ASSUME NEW m \in 0 .. N
      PROVE  /\ Hashes(d, 1, m) \in Seq(V) /\ Len(Hashes(d, 1, m)) = m
             /\ \A j \in 1 .. m : Hashes(d, 1, m)[j] = HashAt(d, j)
  <2>1. m - 1 + 1 = m /\ \A j \in 1 .. m : 1 + j - 1 = j /\ j \in Nat
    OBVIOUS
  <2>2. Hashes(d, 1, m) = [j \in 1 .. m |-> HashAt(d, 1 + j - 1)]
    BY <2>1, Zenon DEF Hashes
  <2>3. PICK x : x = Hashes(d, 1, m) /\ x = [j \in 1 .. m |-> HashAt(d, j)]
    BY <2>1, <2>2
  <2>4. x \in Seq(V) /\ Len(x) = m /\ \A j \in 1 .. m : x[j] = HashAt(d, j)
    BY <1>1, <2>1, <2>3
  <2> QED
    BY <2>3, <2>4
<1>3. PICK x \in Seq(V), y \in Seq(V) :
        /\ x = Hashes(d, 1, k) /\ y = Hashes(d, 1, N) /\ Len(x) = k /\ Len(y) = N
        /\ \A j \in 1 .. k : x[j] = y[j]
  <2>1. N \in 0 .. N
    OBVIOUS
  <2>2. \A j \in 1 .. k : j \in 1 .. N
    OBVIOUS
  <2> QED
    BY <1>2, <2>1, <2>2
<1>4. IsPrefix(x, y)
  BY <1>3 DEF IsPrefix
<1> QED
  BY <1>3, <1>4

=============================================================================
