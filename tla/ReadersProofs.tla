--------------------------- MODULE ReadersProofs ---------------------------
(***************************************************************************)
(* Proofs about Readers, for files of any length.                          *)
(*                                                                         *)
(* What a loop computes is proved by induction over the lines.  No theorem *)
(* here has an operator for a parameter: an induction is about the set of  *)
(* the numbers that have the property, and the least number that does not  *)
(* is found in its complement (Induction, LeastNumber).                    *)
(***************************************************************************)
EXTENDS Readers, FiniteSetTheorems, SequenceTheorems, WellFoundedInduction, TLAPS

\* A set of naturals that is not empty has a least element.
LEMMA LeastNumber ==
    ASSUME NEW S \in SUBSET Nat, S # {}
    PROVE  \E m \in S : \A n \in S : m <= n
<1>1. PICK m \in S : \A n \in S : <<n, m>> \notin OpToRel(<, Nat)
  BY NatLessThanWellFounded, WFMin, Zenon
<1>2. \A n \in S : ~(n < m)
  BY <1>1 DEF OpToRel
<1> QED
  BY <1>2

\* A set that has 0, and with each number the next, has all of them.
LEMMA Induction ==
    ASSUME NEW S \in SUBSET Nat, 0 \in S, \A n \in S : n + 1 \in S
    PROVE  S = Nat
<1> SUFFICES ASSUME Nat \ S # {}
             PROVE  FALSE
  OBVIOUS
<1>1. PICK m \in Nat \ S : \A n \in Nat \ S : m <= n
  <2>1. Nat \ S \in SUBSET Nat
    OBVIOUS
  <2> QED
    BY <2>1, LeastNumber
<1>2. m # 0 /\ m - 1 \in Nat
  BY <1>1
<1>3. m - 1 \in S
  BY <1>1, <1>2
<1> QED
  BY <1>1, <1>2, <1>3

\* Min and Max of SequencesExt, for sets of lines of a file.
LEMMA MinLine ==
    ASSUME NEW S \in SUBSET Nat, S # {}
    PROVE  Min(S) \in S /\ \A n \in S : Min(S) <= n
BY LeastNumber DEF Min

LEMMA MaxLine ==
    ASSUME NEW N \in Nat, NEW S \in SUBSET (1 .. N), S # {}
    PROVE  Max(S) \in S /\ \A n \in S : n <= Max(S)
<1> DEFINE T == { N - n : n \in S }
<1>1. T \in SUBSET Nat /\ T # {}
  <2>1. \A n \in S : N - n \in Nat
    OBVIOUS
  <2> QED
    BY <2>1, Zenon
<1>2. PICK m \in T : \A n \in T : m <= n
  BY <1>1, LeastNumber
<1>3. PICK k \in S : m = N - k
  BY <1>2
<1>4. ASSUME NEW n \in S PROVE n <= k
  <2>1. m <= N - n
    <3>1. N - n \in T
      OBVIOUS
    <3> QED
      BY <1>2, <3>1, Zenon
  <2> QED
    BY <1>3, <2>1
<1> QED
  BY <1>3, <1>4 DEF Max
\* f has the values of a loop over N lines: start, and after each line what g makes
\* of the value before it
Loops(f, N, start, g) == f[0] = start /\ \A n \in 1 .. N : f[n] = g[<<f[n - 1], n>>]

\* A loop has a value after each line.
LEMMA Loop ==
    ASSUME NEW N \in Nat, NEW S, NEW start \in S, NEW g \in [S \X (1 .. N) -> S]
    PROVE  \E f \in [0 .. N -> S] : Loops(f, N, start, g)
<1> DEFINE Upto(n, f) == Loops(f, n, start, g)
           T == { n \in Nat : n <= N => \E f \in [0 .. n -> S] : Upto(n, f) }
<1> USE DEF Loops
<1>1. 0 \in T
  <2>1. [i \in 0 .. 0 |-> start] \in [0 .. 0 -> S] /\ Upto(0, [i \in 0 .. 0 |-> start])
    OBVIOUS
  <2> QED
    BY <2>1, Zenon
<1>2. ASSUME NEW n \in T, n + 1 <= N
      PROVE  \E f \in [0 .. n + 1 -> S] : Upto(n + 1, f)
  <2>1. PICK f \in [0 .. n -> S] : Upto(n, f)
    BY <1>2
  <2> DEFINE h == [i \in 0 .. n + 1 |-> IF i <= n THEN f[i] ELSE g[<<f[n], n + 1>>]]
  <2>2. f[n] \in S /\ <<f[n], n + 1>> \in S \X (1 .. N)
    BY <1>2
  <2>3. g[<<f[n], n + 1>>] \in S
    BY <2>2
  <2>4. h \in [0 .. n + 1 -> S]
    BY <2>3
  <2>5. h[0] = start
    BY <2>1
  <2>6. ASSUME NEW i \in 1 .. n + 1 PROVE h[i] = g[<<h[i - 1], i>>]
    <3>1. h[i - 1] = f[i - 1]
      OBVIOUS
    <3>2. CASE i <= n
      BY <2>1, <3>1, <3>2
    <3>3. CASE i = n + 1
      <4>1. h[i] = g[<<f[n], n + 1>>] /\ i - 1 = n
        BY <3>3
      <4> QED
        BY <3>1, <3>3, <4>1
    <3> QED
      BY <3>2, <3>3
  <2> QED
    BY <2>4, <2>5, <2>6
<1>3. T \in SUBSET Nat /\ \A n \in T : n + 1 \in T
  BY <1>2
<1>4. N \in T
  BY <1>1, <1>3, Induction
<1> QED
  BY <1>4

-----------------------------------------------------------------------------
(* The reader of the fence file.                                           *)

\* the reader's variables, and the lines of a file
States == [inside : BOOLEAN, emitted_index : Nat, info : [Fields -> Nat]]
Header_s == [what : {"ring"}, name : Seq(STRING)]
Fence_s == [what : Fields, value : Nat]
Lines == Header_s \cup Fence_s

LEMMA StateType ==
    ASSUME NEW s \in States, NEW e \in Nat, NEW x \in [Fields -> Nat]
    PROVE  [s EXCEPT !.emitted_index = e, !.info = x] \in States
BY DEF States

LEMMA LineType ==
    ASSUME NEW short, NEW s \in States, NEW line \in Lines
    PROVE  Line(short, s, line) \in States
<1>1. CASE line \in Header_s
  BY <1>1 DEF Line, Fence, Header, States, Header_s
<1>2. CASE line \in Fence_s
  <2>1. line.what \in Fields /\ line.value \in Nat /\ line.what # "ring"
    BY <1>2 DEF Fence_s, Fields
  <2>2. \A field \in Fields : [s.info EXCEPT ![field] = line.value] \in [Fields -> Nat]
    BY <2>1 DEF States
  <2>3. "emitted" \in Fields /\ "emitted_trial" \in Fields
    BY DEF Fields
  <2>4. CASE line.what = "emitted"
    <3> DEFINE x == CASE s.emitted_index = 0 -> [s.info EXCEPT !["emitted"] = line.value]
                      [] s.emitted_index = 1 -> [s.info EXCEPT !["emitted_trial"] = line.value]
                      [] OTHER -> s.info
    <3>1. x \in [Fields -> Nat]
      BY <2>2, <2>3 DEF States
    <3>2. Fence(s, line) = [s EXCEPT !.emitted_index = s.emitted_index + 1, !.info = x]
      BY <2>1, <2>4 DEF Fence
    <3>3. s.emitted_index + 1 \in Nat
      BY DEF States
    <3> HIDE DEF x
    <3>4. [s EXCEPT !.emitted_index = s.emitted_index + 1, !.info = x] \in States
      BY <3>1, <3>3, StateType
    <3> QED
      BY <2>1, <3>2, <3>4 DEF Line, Header
  <2>5. CASE line.what # "emitted"
    BY <2>1, <2>2, <2>5 DEF Line, Fence, Header, States
  <2> QED
    BY <2>4, <2>5
<1> QED
  BY <1>1, <1>2 DEF Lines

\* What the reader knows after each line follows from what it knew before.
LEMMA ReadingSteps ==
    ASSUME NEW f \in Seq(Lines), NEW short
    PROVE  /\ Reading(f, short) \in [0 .. Len(f) -> States]
           /\ Reading(f, short)[0] = Unread
           /\ \A n \in 1 .. Len(f) :
                 Reading(f, short)[n] = Line(short, Reading(f, short)[n - 1], f[n])
<1> DEFINE N == Len(f)
           Body(r) == [n \in 0 .. N |-> IF n = 0 THEN Unread ELSE Line(short, r[n - 1], f[n])]
           g == [p \in States \X (1 .. N) |-> Line(short, p[1], f[p[2]])]
           r == Reading(f, short)
<1>1. N \in Nat /\ \A n \in 1 .. N : f[n] \in Lines
  OBVIOUS
<1>2. Unread \in States
  BY DEF Unread, States, Zeroes
<1>3. g \in [States \X (1 .. N) -> States]
  BY <1>1, LineType
<1>4. \E x : x = Body(x)
  <2>1. PICK x \in [0 .. N -> States] : Loops(x, N, Unread, g)
    <3> HIDE DEF g, N
    <3> QED
      BY <1>1, <1>2, <1>3, Loop
  <2>2. ASSUME NEW n \in 1 .. N PROVE x[n] = Line(short, x[n - 1], f[n])
    <3>1. <<x[n - 1], n>> \in States \X (1 .. N)
      BY <1>1
    <3> QED
      BY <2>1, <3>1 DEF Loops
  <2>3. x = Body(x)
    BY <2>1, <2>2 DEF Loops
  <2> QED
    BY <2>3
<1>5. r = Body(r)
  <2>1. r = CHOOSE x : x = Body(x)
    BY DEF Reading
  <2> HIDE DEF r, Body
  <2> QED
    BY <1>4, <2>1
<1> HIDE DEF r
<1>6. /\ r[0] = Unread
      /\ \A n \in 1 .. N : r[n] = Line(short, r[n - 1], f[n])
      /\ DOMAIN r = 0 .. N /\ r = [n \in 0 .. N |-> r[n]]
  BY <1>1, <1>5
<1>7. \A n \in 0 .. N : r[n] \in States
  <2> DEFINE T == { n \in Nat : n <= N => r[n] \in States }
  <2>1. 0 \in T
    BY <1>2, <1>6
  <2>2. ASSUME NEW n \in T PROVE n + 1 \in T
    <3> SUFFICES ASSUME n + 1 <= N PROVE r[n + 1] \in States
      OBVIOUS
    <3>1. n + 1 \in 1 .. N /\ (n + 1) - 1 = n
      BY <1>1
    <3>2. r[n + 1] = Line(short, r[n], f[n + 1])
      BY <1>6, <3>1
    <3> QED
      BY <1>1, <3>1, <3>2, LineType
  <2>3. T = Nat
    BY <2>1, <2>2, Induction
  <2> QED
    BY <2>3
<1> QED
  BY <1>6, <1>7 DEF r
\* Lines that are added to a file do not change what was read before them.
LEMMA ReadBefore ==
    ASSUME NEW f \in Seq(Lines), NEW b \in Seq(Lines), NEW short
    PROVE  \A n \in 0 .. Len(f) : Reading(f \o b, short)[n] = Reading(f, short)[n]
<1> DEFINE r == Reading(f, short)
           q == Reading(f \o b, short)
           T == { n \in Nat : n <= Len(f) => q[n] = r[n] }
<1>1. /\ f \o b \in Seq(Lines) /\ Len(f) \in Nat /\ Len(f \o b) = Len(f) + Len(b)
      /\ Len(b) \in Nat
      /\ \A n \in 1 .. Len(f) : (f \o b)[n] = f[n]
  OBVIOUS
<1>2. r[0] = Unread /\ \A n \in 1 .. Len(f) : r[n] = Line(short, r[n - 1], f[n])
  BY ReadingSteps
<1>3. /\ q[0] = Unread
      /\ \A n \in 1 .. Len(f \o b) : q[n] = Line(short, q[n - 1], (f \o b)[n])
  BY <1>1, ReadingSteps
<1> HIDE DEF r, q
<1>4. 0 \in T
  BY <1>2, <1>3
<1>5. ASSUME NEW n \in T PROVE n + 1 \in T
  <2> SUFFICES ASSUME n + 1 <= Len(f) PROVE q[n + 1] = r[n + 1]
    OBVIOUS
  <2>1. n + 1 \in 1 .. Len(f) /\ n + 1 \in 1 .. Len(f \o b) /\ (n + 1) - 1 = n
    BY <1>1
  <2>2. r[n + 1] = Line(short, r[n], f[n + 1]) /\ q[n + 1] = Line(short, q[n], f[n + 1])
    BY <1>1, <1>2, <1>3, <2>1
  <2>3. q[n] = r[n]
    BY <1>1
  <2> QED
    BY <2>2, <2>3
<1>6. T = Nat
  <2> HIDE DEF T
  <2> QED
    BY <1>4, <1>5, Induction DEF T
<1> QED
  BY <1>6 DEF r, q

\* And the lines that are added are read one after another.
LEMMA ReadAdded ==
    ASSUME NEW f \in Seq(Lines), NEW b \in Seq(Lines), NEW short
    PROVE  LET end == Reading(f, short)[Len(f)]
               q == Reading(f \o b, short)
           IN /\ q[Len(f)] = end
              /\ \A n \in 1 .. Len(b) : q[Len(f) + n] = Line(short, q[Len(f) + n - 1], b[n])
              /\ Len(f \o b) = Len(f) + Len(b) /\ f \o b \in Seq(Lines)
<1>1. /\ f \o b \in Seq(Lines) /\ Len(f) \in Nat /\ Len(f \o b) = Len(f) + Len(b)
      /\ Len(b) \in Nat
      /\ \A n \in 1 .. Len(b) : (f \o b)[Len(f) + n] = b[n]
  OBVIOUS
<1> DEFINE q == Reading(f \o b, short)
<1>2. \A n \in 1 .. Len(f \o b) : q[n] = Line(short, q[n - 1], (f \o b)[n])
  BY <1>1, ReadingSteps
<1> HIDE DEF q
<1>3. ASSUME NEW n \in 1 .. Len(b)
      PROVE  q[Len(f) + n] = Line(short, q[Len(f) + n - 1], b[n])
  <2>1. Len(f) + n \in 1 .. Len(f \o b)
    BY <1>1
  <2> QED
    BY <1>1, <1>2, <2>1
<1>4. q[Len(f)] = Reading(f, short)[Len(f)]
  <2>1. Len(f) \in 0 .. Len(f)
    BY <1>1
  <2> QED
    BY <2>1, ReadBefore DEF q
<1> QED
  BY <1>1, <1>3, <1>4 DEF q

\* the fences in the order in which a ring has them, as many as it has
FenceOrder == <<"signaled", "emitted", "trailing_fence", "emitted", "preempted", "reset", "both">>

LEMMA RingFencesFew ==
    ASSUME NEW name \in RingNames, layout \in {"old", "new"}
    PROVE  /\ Len(RingFences(name)) \in {2, 4, 7}
           /\ DOMAIN RingFences(name) = 1 .. Len(RingFences(name))
           /\ \A n \in 1 .. Len(RingFences(name)) : RingFences(name)[n] = FenceOrder[n]
<1>1. CASE layout = "old" \/ Head(name) \notin {"gfx", "sdma"}
  <2>1. RingFences(name) = <<"signaled", "emitted">>
    BY <1>1 DEF RingFences
  <2> QED
    BY <2>1 DEF FenceOrder
<1>2. CASE layout = "new" /\ Head(name) = "sdma"
  <2>1. RingFences(name) = <<"signaled", "emitted", "trailing_fence", "emitted">>
    BY <1>2 DEF RingFences
  <2> QED
    BY <2>1 DEF FenceOrder
<1>3. CASE layout = "new" /\ Head(name) = "gfx"
  <2>1. RingFences(name) = FenceOrder
    BY <1>3 DEF RingFences, FenceOrder
  <2> QED
    BY <2>1 DEF FenceOrder
<1> QED
  BY <1>1, <1>2, <1>3

LEMMA BlockLines ==
    ASSUME NEW name \in RingNames, layout \in {"old", "new"}, NEW k \in Nat
    PROVE  LET b == Block(name, k)
               count == Len(RingFences(name))
           IN /\ b \in Seq(Lines) /\ Len(b) = count + 1 /\ count \in {2, 4, 7}
              /\ b[1] = [what |-> "ring", name |-> name] /\ b[1] \in Header_s
              /\ \A n \in 1 .. count :
                    /\ b[n + 1] = [what |-> FenceOrder[n], value |-> FenceValue(k, n)]
                    /\ b[n + 1] \in Fence_s
<1> DEFINE b == Block(name, k)
           count == Len(RingFences(name))
<1>1. count \in {2, 4, 7}
  BY RingFencesFew
<1>2. /\ b = [n \in 1 .. count + 1 |-> b[n]]
      /\ b[1] = [what |-> "ring", name |-> name]
      /\ \A n \in 2 .. count + 1 :
            b[n] = [what |-> RingFences(name)[n - 1], value |-> FenceValue(k, n - 1)]
  BY <1>1 DEF Block
<1>3. b[1] \in Header_s
  BY <1>2, NameAssumption DEF Header_s
<1> HIDE DEF b
<1>4. ASSUME NEW n \in 1 .. count
      PROVE  /\ b[n + 1] = [what |-> FenceOrder[n], value |-> FenceValue(k, n)]
             /\ b[n + 1] \in Fence_s
  <2>1. n + 1 \in 2 .. count + 1 /\ (n + 1) - 1 = n
    BY <1>1
  <2>2. b[n + 1] = [what |-> FenceOrder[n], value |-> FenceValue(k, n)]
    <3>1. b[n + 1] = [what |-> RingFences(name)[n], value |-> FenceValue(k, n)]
      BY <1>2, <2>1
    <3>2. RingFences(name)[n] = FenceOrder[n]
      BY RingFencesFew
    <3> QED
      BY <3>1, <3>2
  <2>3. FenceOrder[n] \in Fields /\ FenceValue(k, n) \in Nat
    <3> HIDE DEF count
    <3>1. n \in {1, 2, 3, 4, 5, 6, 7}
      BY <1>1
    <3>2. FenceOrder[n] \in Fields
      BY <3>1 DEF FenceOrder, Fields
    <3> QED
      BY <3>1, <3>2 DEF FenceValue
  <2> QED
    BY <2>2, <2>3 DEF Fence_s
<1>5. \A n \in 1 .. count + 1 : b[n] \in Lines
  <2>1. ASSUME NEW n \in 1 .. count + 1, n # 1 PROVE b[n] \in Lines
    <3>1. n - 1 \in 1 .. count /\ (n - 1) + 1 = n
      BY <1>1, <2>1
    <3> QED
      BY <1>4, <3>1 DEF Lines
  <2> QED
    BY <1>3, <2>1 DEF Lines
<1>6. b \in [1 .. count + 1 -> Lines] /\ count + 1 \in Nat
  BY <1>1, <1>2, <1>5
<1>7. b \in Seq(Lines) /\ Len(b) = count + 1
  BY <1>6
<1> QED
  BY <1>1, <1>2, <1>3, <1>4, <1>7 DEF b
\* The block of a ring whose name does not begin with that of the reader's ring ends
\* what is read, and nothing of it is taken over.
LEMMA OtherBlock ==
    ASSUME NEW f \in Seq(Lines), NEW name \in RingNames, layout \in {"old", "new"},
           NEW k \in Nat, NEW short, ~IsPrefix(short, name)
    PROVE  LET end == Reading(f, short)[Len(f)]
               b == Block(name, k)
           IN Reading(f \o b, short)[Len(f \o b)] = [end EXCEPT !.inside = FALSE]
<1> DEFINE end == Reading(f, short)[Len(f)]
           b == Block(name, k)
           q == Reading(f \o b, short)
           count == Len(RingFences(name))
           after == [end EXCEPT !.inside = FALSE]
<1>1. /\ b \in Seq(Lines) /\ Len(b) = count + 1 /\ count \in {2, 4, 7}
      /\ b[1] = [what |-> "ring", name |-> name]
      /\ \A n \in 1 .. count : b[n + 1] \in Fence_s
  BY BlockLines
<1>2. Len(f) \in Nat /\ end \in States
  <2>1. Len(f) \in Nat /\ Len(f) \in 0 .. Len(f)
    OBVIOUS
  <2> QED
    BY <2>1, ReadingSteps
<1>3. /\ q[Len(f)] = end
      /\ \A n \in 1 .. Len(b) : q[Len(f) + n] = Line(short, q[Len(f) + n - 1], b[n])
      /\ Len(f \o b) = Len(f) + Len(b)
  <2>1. b \in Seq(Lines)
    BY <1>1
  <2> HIDE DEF b, count
  <2> QED
    BY <2>1, ReadAdded
<1> HIDE DEF b, q, count, end
<1>4. q[Len(f) + 1] = after
  <2>1. q[Len(f) + 1] = Line(short, end, b[1])
    BY <1>1, <1>2, <1>3
  <2>2. Line(short, end, b[1]) = after
    <3>1. b[1].what = "ring" /\ ~Header(short, b[1])
      BY <1>1 DEF Header
    <3>2. CASE end.inside
      BY <3>1, <3>2 DEF Line, Fence
    <3>3. CASE ~end.inside
      <4>1. end.inside = FALSE
        BY <1>2, <3>3 DEF States
      <4>2. end = after
        BY <1>2, <4>1 DEF States
      <4> QED
        BY <3>1, <3>3, <4>2 DEF Line
    <3> QED
      BY <3>2, <3>3
  <2> QED
    BY <2>1, <2>2
<1> DEFINE T == { n \in Nat : n <= count => q[Len(f) + 1 + n] = after }
<1>5. 0 \in T
  BY <1>2, <1>4
<1>6. ASSUME NEW n \in T PROVE n + 1 \in T
  <2> SUFFICES ASSUME n + 1 <= count PROVE q[Len(f) + 1 + (n + 1)] = after
    OBVIOUS
  <2>1. /\ n + 2 \in 1 .. Len(b) /\ Len(f) + (n + 2) = Len(f) + 1 + (n + 1)
        /\ Len(f) + (n + 2) - 1 = Len(f) + 1 + n
        /\ n + 1 \in 1 .. count /\ (n + 1) + 1 = n + 2
    BY <1>1, <1>2
  <2>2. q[Len(f) + 1 + n] = after
    BY <1>1
  <2>3. q[Len(f) + 1 + (n + 1)] = Line(short, after, b[n + 2])
    BY <1>3, <2>1, <2>2
  <2>4. b[n + 2] \in Fence_s
    BY <1>1, <2>1
  <2>5. after.inside = FALSE /\ b[n + 2].what # "ring"
    BY <1>2, <2>4 DEF States, Fence_s, Fields
  <2> QED
    BY <2>3, <2>5 DEF Line, Header
<1>7. T = Nat
  <2> HIDE DEF T
  <2> QED
    BY <1>5, <1>6, Induction DEF T
<1>8. count \in Nat /\ Len(f \o b) = Len(f) + 1 + count
  BY <1>1, <1>2, <1>3
<1>9. q[Len(f \o b)] = after
  <2>1. q[Len(f) + 1 + count] = after
    <3>1. count \in T
      <4> HIDE DEF T
      <4> QED
        BY <1>7, <1>8
    <3> QED
      BY <1>8, <3>1
  <2> QED
    BY <1>8, <2>1
<1> QED
  BY <1>9 DEF b, q, end

\* The reader in the block of its ring, after n of the fences of ring k.
Info(k, n) == [f \in Fields |-> IF Place[f] <= n THEN FenceValue(k, Place[f]) ELSE 0]
After(s, k, n) ==
    /\ s \in States /\ s.inside
    /\ s.emitted_index = IF n < 2 THEN 0 ELSE IF n < 4 THEN 1 ELSE 2
    /\ s.info = Info(k, n)

\* a line of the ring's own block changes one of the fences
FenceStep(s, line, next) ==
    /\ next \in States /\ next.inside
    /\ next.emitted_index = s.emitted_index + (IF line.what = "emitted" THEN 1 ELSE 0)
    /\ line.what = "emitted" /\ s.emitted_index = 0 =>
          next.info = [s.info EXCEPT !["emitted"] = line.value]
    /\ line.what = "emitted" /\ s.emitted_index = 1 =>
          next.info = [s.info EXCEPT !["emitted_trial"] = line.value]
    /\ line.what = "emitted" /\ s.emitted_index \notin {0, 1} => next.info = s.info
    /\ line.what # "emitted" => next.info = [s.info EXCEPT ![line.what] = line.value]

LEMMA FenceSteps ==
    ASSUME NEW s \in States, s.inside, NEW line \in Fence_s, NEW short
    PROVE  /\ Line(short, s, line) = Fence(s, line)
           /\ FenceStep(s, line, Fence(s, line))
<1>1. Line(short, s, line) = Fence(s, line) /\ Line(short, s, line) \in States
  BY LineType DEF Line, Lines
<1>2. line.what # "ring"
  BY DEF Fence_s, Fields
<1>3. CASE line.what = "emitted"
  <2> DEFINE x == CASE s.emitted_index = 0 -> [s.info EXCEPT !["emitted"] = line.value]
                    [] s.emitted_index = 1 -> [s.info EXCEPT !["emitted_trial"] = line.value]
                    [] OTHER -> s.info
  <2>1. Fence(s, line) = [s EXCEPT !.emitted_index = s.emitted_index + 1, !.info = x]
    BY <1>3 DEF Fence
  <2> HIDE DEF x
  <2>2. /\ Fence(s, line).inside = s.inside
        /\ Fence(s, line).emitted_index = s.emitted_index + 1
        /\ Fence(s, line).info = x
    BY <2>1 DEF States
  <2> QED
    BY <1>1, <1>3, <2>2 DEF x, FenceStep
<1>4. CASE line.what # "emitted"
  <2>1. Fence(s, line) = [s EXCEPT !.info = [s.info EXCEPT ![line.what] = line.value]]
    BY <1>2, <1>4 DEF Fence
  <2>2. /\ Fence(s, line).inside = s.inside
        /\ Fence(s, line).emitted_index = s.emitted_index
        /\ Fence(s, line).info = [s.info EXCEPT ![line.what] = line.value]
    BY <2>1 DEF States
  <2>3. s.emitted_index \in Nat
    BY DEF States
  <2> QED
    BY <1>1, <1>4, <2>2, <2>3 DEF FenceStep
<1> QED
  BY <1>3, <1>4

LEMMA AfterNext ==
    ASSUME NEW k \in Nat, NEW n \in 1 .. 7, NEW short, NEW s, After(s, k, n - 1),
           NEW line, line \in Fence_s,
           line = [what |-> FenceOrder[n], value |-> FenceValue(k, n)]
    PROVE  After(Line(short, s, line), k, n)
<1> DEFINE next == Line(short, s, line)
           field == IF n = 4 THEN "emitted_trial" ELSE FenceOrder[n]
<1>1. n \in {1, 2, 3, 4, 5, 6, 7}
  OBVIOUS
<1>2. field \in Fields /\ Place[field] = n
  BY <1>1 DEF FenceOrder, Fields, Place
<1>3. \A g \in Fields : Place[g] <= n <=> g = field \/ Place[g] <= n - 1
  BY <1>1 DEF FenceOrder, Fields, Place
<1>4. s \in States /\ s.inside /\ s.info = Info(k, n - 1)
  BY DEF After
<1>5. line.what = FenceOrder[n] /\ line.value = FenceValue(k, n)
  OBVIOUS
<1>6. /\ n \in {2, 4} <=> line.what = "emitted"
      /\ n \notin {2, 4} => line.what = field
      /\ n = 2 => s.emitted_index = 0 /\ field = "emitted"
      /\ n = 4 => s.emitted_index = 1 /\ field = "emitted_trial"
  BY <1>1, <1>5 DEF FenceOrder, After
<1>10. FenceStep(s, line, next)
  BY <1>4, FenceSteps, Zenon
<1> HIDE DEF field, next
<1>7. [Info(k, n - 1) EXCEPT ![field] = FenceValue(k, n)] = Info(k, n)
  BY <1>2, <1>3 DEF Info
<1>8. next.info = [s.info EXCEPT ![field] = FenceValue(k, n)]
  <2>1. CASE n = 2
    BY <1>4, <1>5, <1>6, <2>1, <1>10 DEF FenceStep
  <2>2. CASE n = 4
    BY <1>4, <1>5, <1>6, <2>2, <1>10 DEF FenceStep
  <2>3. CASE n \notin {2, 4}
    BY <1>4, <1>5, <1>6, <2>3, <1>10 DEF FenceStep
  <2> QED
    BY <2>1, <2>2, <2>3
<1>9. next \in States /\ next.inside
      /\ next.emitted_index = IF n < 2 THEN 0 ELSE IF n < 4 THEN 1 ELSE 2
  <2>1. /\ next \in States /\ next.inside
        /\ next.emitted_index = s.emitted_index + (IF line.what = "emitted" THEN 1 ELSE 0)
    BY <1>10 DEF FenceStep
  <2>2. s.emitted_index = IF n - 1 < 2 THEN 0 ELSE IF n - 1 < 4 THEN 1 ELSE 2
    BY DEF After
  <2> QED
    BY <1>1, <1>6, <2>1, <2>2
<1> QED
  BY <1>4, <1>7, <1>8, <1>9 DEF After, next
\* The block of the reader's own ring leaves all of its fences.
LEMMA OwnBlock ==
    ASSUME NEW f \in Seq(Lines), NEW name \in RingNames, layout \in {"old", "new"},
           NEW k \in Nat, NEW short, IsPrefix(short, name),
           ~Reading(f, short)[Len(f)].inside, Reading(f, short)[Len(f)].info = Zeroes
    PROVE  LET b == Block(name, k)
           IN After(Reading(f \o b, short)[Len(f \o b)], k, Len(RingFences(name)))
<1> DEFINE end == Reading(f, short)[Len(f)]
           b == Block(name, k)
           q == Reading(f \o b, short)
           count == Len(RingFences(name))
<1>1. /\ b \in Seq(Lines) /\ Len(b) = count + 1 /\ count \in {2, 4, 7}
      /\ b[1] = [what |-> "ring", name |-> name]
      /\ \A n \in 1 .. count :
            /\ b[n + 1] = [what |-> FenceOrder[n], value |-> FenceValue(k, n)]
            /\ b[n + 1] \in Fence_s
  BY BlockLines
<1>2. Len(f) \in Nat /\ end \in States
  <2>1. Len(f) \in Nat /\ Len(f) \in 0 .. Len(f)
    OBVIOUS
  <2> QED
    BY <2>1, ReadingSteps
<1>3. /\ q[Len(f)] = end
      /\ \A n \in 1 .. Len(b) : q[Len(f) + n] = Line(short, q[Len(f) + n - 1], b[n])
      /\ Len(f \o b) = Len(f) + Len(b)
  <2>1. b \in Seq(Lines)
    BY <1>1
  <2> HIDE DEF b, count
  <2> QED
    BY <2>1, ReadAdded
<1> HIDE DEF b, q, count, end
<1> DEFINE T == { n \in Nat : n <= count => After(q[Len(f) + 1 + n], k, n) }
<1>4. 0 \in T
  <2>1. q[Len(f) + 1] = Line(short, end, b[1])
    BY <1>1, <1>2, <1>3
  <2>2. Header(short, b[1]) /\ ~end.inside
    BY <1>1 DEF Header, end
  <2>3. q[Len(f) + 1] = [end EXCEPT !.inside = TRUE, !.emitted_index = 0]
    BY <2>1, <2>2 DEF Line
  <2>4. Zeroes = Info(k, 0)
    BY DEF Zeroes, Info, Fields, Place
  <2>5. After(q[Len(f) + 1], k, 0)
    <3>1. end.info = Zeroes
      BY DEF end
    <3> DEFINE s == [end EXCEPT !.inside = TRUE, !.emitted_index = 0]
    <3>2. s \in States /\ s.inside /\ s.emitted_index = 0 /\ s.info = end.info
      BY <1>2 DEF States
    <3> HIDE DEF s
    <3>3. After(s, k, 0)
      BY <2>4, <3>1, <3>2 DEF After
    <3> QED
      BY <2>3, <3>3 DEF s
  <2>6. Len(f) + 1 + 0 = Len(f) + 1
    BY <1>2
  <2> QED
    BY <2>5, <2>6
<1>5. ASSUME NEW n \in T PROVE n + 1 \in T
  <2> SUFFICES ASSUME n + 1 <= count PROVE After(q[Len(f) + 1 + (n + 1)], k, n + 1)
    OBVIOUS
  <2>1. /\ n + 2 \in 1 .. Len(b) /\ Len(f) + (n + 2) = Len(f) + 1 + (n + 1)
        /\ Len(f) + (n + 2) - 1 = Len(f) + 1 + n
        /\ n + 1 \in 1 .. count /\ n + 1 \in 1 .. 7 /\ (n + 1) + 1 = n + 2 /\ (n + 1) - 1 = n
    BY <1>1, <1>2
  <2>2. After(q[Len(f) + 1 + n], k, n)
    BY <1>1
  <2> DEFINE s == q[Len(f) + 1 + n]
             line == b[n + 2]
             i == n + 1
  <2>3. q[Len(f) + 1 + (n + 1)] = Line(short, s, line)
    BY <1>3, <2>1
  <2>4. /\ line = [what |-> FenceOrder[i], value |-> FenceValue(k, i)]
        /\ line \in Fence_s
    BY <1>1, <2>1
  <2>5. i \in 1 .. 7 /\ After(s, k, i - 1)
    BY <2>1, <2>2
  <2> HIDE DEF s, line, i
  <2>6. After(Line(short, s, line), k, i)
    BY <2>4, <2>5, AfterNext
  <2> QED
    BY <2>3, <2>6 DEF i
<1>6. T = Nat
  <2> HIDE DEF T
  <2> QED
    BY <1>4, <1>5, Induction DEF T
<1>7. count \in Nat /\ Len(f \o b) = Len(f) + 1 + count
  BY <1>1, <1>2, <1>3
<1>8. After(q[Len(f \o b)], k, count)
  <2>1. After(q[Len(f) + 1 + count], k, count)
    <3>1. count \in T
      <4> HIDE DEF T
      <4> QED
        BY <1>6, <1>7
    <3> QED
      BY <1>7, <3>1
  <2> QED
    BY <1>7, <2>1
<1> QED
  BY <1>8 DEF b, q, count

\* The rings that the name of a ring begins.
Hits(short) == { m \in DOMAIN rings : IsPrefix(short, rings[m]) }

\* What the reader of a ring knows at the end of the file: nothing if no ring has a
\* name with that beginning; all fences of the ring if it is the only one.
ReadSoFar(short) ==
    LET end == Reading(file, short)[Len(file)]
    IN /\ Hits(short) = {} => ~end.inside /\ end.info = Zeroes
       /\ \A k \in DOMAIN rings : Hits(short) = {k} =>
             LET count == Len(RingFences(rings[k]))
             IN IF k = Len(rings) THEN After(end, k, count)
                ELSE ~end.inside /\ end.info = Info(k, count)

LastLine ==
    rings # <<>> =>
        LET k == Len(rings)
            count == Len(RingFences(rings[k]))
        IN /\ Len(file) > 0
           /\ file[Len(file)] = [what |-> FenceOrder[count], value |-> FenceValue(k, count)]

FencesInv ==
    topic = "fences" =>
        /\ layout \in {"old", "new"} /\ rings \in Seq(RingNames) /\ file \in Seq(Lines)
        /\ LastLine /\ \A short \in RingNames : ReadSoFar(short)

LEMMA FencesInit == Init => FencesInv
<1> SUFFICES ASSUME Init, topic = "fences"
             PROVE  FencesInv
  BY DEF FencesInv
<1>1. /\ layout \in {"old", "new"} /\ rings = <<>> /\ file = <<>>
      /\ rings \in Seq(RingNames) /\ file \in Seq(Lines)
      /\ Len(file) = 0 /\ DOMAIN rings = {}
  BY DEF Init
<1>2. ASSUME NEW short \in RingNames PROVE ReadSoFar(short)
  <2>1. Reading(file, short)[0] = Unread
    BY <1>1, ReadingSteps
  <2> QED
    BY <1>1, <2>1 DEF ReadSoFar, Unread
<1> QED
  BY <1>1, <1>2 DEF FencesInv, LastLine
\* A ring that is added to the file is read by the reader of its name alone.
LEMMA FencesStep == FencesInv /\ [Next]_vars => FencesInv'
<1> SUFFICES ASSUME FencesInv, [Next]_vars, topic' = "fences"
             PROVE  FencesInv'
  BY DEF FencesInv
<1>1. CASE UNCHANGED vars
  BY <1>1 DEF FencesInv, vars, LastLine, ReadSoFar, Hits, RingFences
<1>2. CASE AddRing
  <2>1. PICK name \in RingNames :
           rings' = Append(rings, name) /\ file' = file \o Block(name, Len(rings) + 1)
    BY <1>2 DEF AddRing
  <2>2. /\ topic = "fences" /\ layout' = layout /\ layout \in {"old", "new"}
        /\ rings \in Seq(RingNames) /\ file \in Seq(Lines)
        /\ \A short \in RingNames : ReadSoFar(short)
    BY <1>2 DEF AddRing, FencesInv
  <2> DEFINE k == Len(rings) + 1
             b == Block(name, k)
             count == Len(RingFences(name))
  <2>3. /\ k \in Nat /\ Len(rings) \in Nat /\ Len(rings') = k /\ rings' \in Seq(RingNames)
        /\ rings'[k] = name /\ DOMAIN rings' = 1 .. k /\ DOMAIN rings = 1 .. k - 1
        /\ \A m \in 1 .. k - 1 : rings'[m] = rings[m]
    BY <2>1, <2>2
  <2>4. /\ b \in Seq(Lines) /\ Len(b) = count + 1 /\ count \in {2, 4, 7}
        /\ b[count + 1] = [what |-> FenceOrder[count], value |-> FenceValue(k, count)]
    <3> HIDE DEF k
    <3>1. /\ b \in Seq(Lines) /\ Len(b) = count + 1 /\ count \in {2, 4, 7}
          /\ \A n \in 1 .. count :
                b[n + 1] = [what |-> FenceOrder[n], value |-> FenceValue(k, n)]
      BY <2>2, <2>3, BlockLines
    <3> HIDE DEF b, count
    <3>2. count \in 1 .. count
      BY <3>1
    <3> QED
      BY <3>1, <3>2
  <2>5. RingFences(name)' = RingFences(name)
    BY <2>2 DEF RingFences
  <2> HIDE DEF b, count
  <2>6. file' = file \o b /\ file' \in Seq(Lines) /\ Len(file') = Len(file) + count + 1
        /\ file'[Len(file')] = b[count + 1] /\ Len(file') > 0
    BY <2>1, <2>2, <2>4 DEF b
  <2>7. LastLine'
    BY <2>3, <2>4, <2>5, <2>6 DEF LastLine, count
  <2>8. ASSUME NEW short \in RingNames PROVE ReadSoFar(short)'
    <3> DEFINE end == Reading(file, short)[Len(file)]
               new == Reading(file', short)[Len(file')]
    <3>0. end \in States
      <4>1. Len(file) \in 0 .. Len(file)
        BY <2>2
      <4> QED
        BY <2>2, <4>1, ReadingSteps
    <3>1. ReadSoFar(short)
      BY <2>2
    <3>2. CASE IsPrefix(short, name)
      <4>1. Hits(short)' = Hits(short) \cup {k}
        BY <2>3, <3>2 DEF Hits
      <4>2. CASE Hits(short) = {}
        <5>1. ~end.inside /\ end.info = Zeroes
          BY <3>1, <4>2 DEF ReadSoFar
        <5>2. After(new, k, count)
          <6> HIDE DEF k
          <6> QED
            BY <2>2, <2>3, <2>6, <3>2, <5>1, OwnBlock DEF b, count
        <5>3. Hits(short)' = {k}
          BY <4>1, <4>2
        <5> HIDE DEF new
        <5> QED
          BY <2>3, <2>5, <5>2, <5>3 DEF ReadSoFar, count, new
      <4>3. CASE Hits(short) # {}
        <5>1. \A m : Hits(short)' # {m}
          BY <2>3, <4>1, <4>3 DEF Hits
        <5> QED
          BY <4>1, <5>1 DEF ReadSoFar
      <4> QED
        BY <4>2, <4>3
    <3>3. CASE ~IsPrefix(short, name)
      <4>1. Hits(short)' = Hits(short)
        BY <2>3, <3>3 DEF Hits
      <4>2. new = [end EXCEPT !.inside = FALSE]
        <5> HIDE DEF k
        <5> QED
          BY <2>2, <2>3, <2>6, <3>3, OtherBlock DEF b
      <4>3. ~new.inside /\ new.info = end.info
        BY <3>0, <4>2 DEF States
      <4>4. Hits(short) = {} => end.info = Zeroes
        BY <3>1 DEF ReadSoFar
      <4>5. ASSUME NEW m \in DOMAIN rings', Hits(short) = {m}
            PROVE  m # Len(rings') /\ new.info = Info(m, Len(RingFences(rings[m])'))
        <5>1. m \in DOMAIN rings /\ m < k /\ rings'[m] = rings[m]
          BY <2>3, <4>5 DEF Hits
        <5>2. end.info = Info(m, Len(RingFences(rings[m])))
          BY <3>1, <4>5, <5>1 DEF ReadSoFar, After
        <5>3. RingFences(rings[m])' = RingFences(rings[m])
          BY <2>2, <5>1 DEF RingFences
        <5> QED
          BY <2>3, <4>3, <5>1, <5>2, <5>3
      <4> HIDE DEF new, end
      <4> QED
        BY <4>1, <4>3, <4>4, <4>5 DEF ReadSoFar, new
    <3> QED
      BY <3>2, <3>3
  <2> QED
    BY <2>2, <2>3, <2>6, <2>7, <2>8 DEF FencesInv
<1>3. CASE AddClient \/ AddId \/ AddCpuLine \/ AddKeyLine \/ AddTable \/ AddCapability
  BY <1>3 DEF AddClient, AddId, AddCpuLine, AddKeyLine, AddTable, AddCapability, Add
<1> QED
  BY <1>1, <1>2, <1>3 DEF Next
\* The ring files among the entries of the directory, in their order.
LEMMA RingsListed ==
    ASSUME rings \in Seq(RingNames)
    PROVE  LET listed == amdGpuRingInfo(Directory)
           IN /\ DOMAIN listed = 1 .. Len(rings) /\ Len(listed) = Len(rings)
              /\ \A n \in 1 .. Len(rings) : listed[n].shortname = rings[n]
<1> DEFINE N == Len(Directory)
           Parsed == [shortname : Seq(STRING), type : RingTypes \cup {"unknow"}]
           More(list, n) == IF Directory[n] = <<>> THEN list
                            ELSE Append(list, parseRingInfo(Directory[n]))
           Body(r) == [n \in 0 .. N |-> IF n = 0 THEN <<>> ELSE More(r[n - 1], n)]
           g == [p \in Seq(Parsed) \X (1 .. N) |-> More(p[1], p[2])]
<1>1. /\ Len(rings) \in Nat /\ N = Len(rings) + 2
      /\ Directory[1] = <<>> /\ Directory[N] = <<>>
      /\ \A n \in 1 .. Len(rings) :
            /\ Directory[n + 1] = rings[n] /\ rings[n] # <<>> /\ rings[n] \in Seq(STRING)
  <2>1. \A n \in 1 .. Len(rings) :
           rings[n] \in RingNames /\ rings[n] # <<>> /\ rings[n] \in Seq(STRING)
    BY NameAssumption
  <2>2. rings \in Seq(Seq(STRING)) /\ <<<<>>>> \in Seq(Seq(STRING))
    BY <2>1
  <2>3. Len(<<<<>>>>) = 1 /\ <<<<>>>>[1] = <<>>
    OBVIOUS
  <2> DEFINE start == <<<<>>>> \o rings
             none == <<<<>>>>
  <2>4. /\ start \in Seq(Seq(STRING)) /\ Len(start) = Len(rings) + 1 /\ start[1] = <<>>
        /\ \A n \in 1 .. Len(rings) : start[n + 1] = rings[n]
    <3>1. Directory = start \o none
      BY DEF Directory
    <3> QED
      BY <2>2, <2>3
  <2> HIDE DEF start, none
  <2>5. Directory = start \o none
    BY DEF Directory, start, none
  <2>6. none \in Seq(Seq(STRING)) /\ Len(none) = 1 /\ none[1] = <<>>
    BY <2>2, <2>3 DEF none
  <2>7. /\ N = Len(start) + 1 /\ Directory[N] = none[1]
        /\ \A n \in 1 .. Len(start) : Directory[n] = start[n]
    <3>1. /\ Len(start \o none) = Len(start) + Len(none)
          /\ \A n \in 1 .. Len(start) + Len(none) :
                (start \o none)[n] = IF n <= Len(start) THEN start[n]
                                     ELSE none[n - Len(start)]
      BY <2>4, <2>6, ConcatProperties
    <3>2. Len(start) \in Nat /\ (Len(start) + 1) - Len(start) = 1
      BY <2>4
    <3> QED
      BY <2>5, <2>6, <3>1, <3>2
  <2>8. Len(rings) \in Nat
    OBVIOUS
  <2> HIDE DEF N
  <2> QED
    BY <2>1, <2>4, <2>6, <2>7, <2>8
<1>2. \A name \in Seq(STRING) \ {<<>>} : parseRingInfo(name) \in Parsed
  <2> SUFFICES ASSUME NEW name \in Seq(STRING) \ {<<>>}
               PROVE  parseRingInfo(name) \in Parsed
    OBVIOUS
  <2> DEFINE type == IF Head(name) \in RingTypes THEN Head(name) ELSE "unknow"
  <2>1. type \in RingTypes \cup {"unknow"}
    OBVIOUS
  <2>2. parseRingInfo(name) = [shortname |-> name, type |-> type]
    BY DEF parseRingInfo
  <2> HIDE DEF type
  <2> QED
    BY <2>1, <2>2
<1>3. \A n \in 1 .. N : Directory[n] \in Seq(STRING)
  <2>1. ASSUME NEW n \in 1 .. N PROVE Directory[n] \in Seq(STRING)
    <3>1. n = 1 \/ n = N \/ (n - 1 \in 1 .. Len(rings) /\ (n - 1) + 1 = n)
      BY <1>1
    <3>2. <<>> \in Seq(STRING)
      OBVIOUS
    <3> HIDE DEF N
    <3> QED
      BY <1>1, <3>1, <3>2
  <2> QED
    BY <2>1
<1> HIDE DEF N, Parsed
<1>4. g \in [Seq(Parsed) \X (1 .. N) -> Seq(Parsed)] /\ <<>> \in Seq(Parsed)
  <2>1. \A list \in Seq(Parsed), n \in 1 .. N : More(list, n) \in Seq(Parsed)
    BY <1>2, <1>3
  <2> HIDE DEF More
  <2> QED
    BY <2>1
<1>5. \E x : x = Body(x)
  <2>1. PICK x \in [0 .. N -> Seq(Parsed)] : Loops(x, N, <<>>, g)
    <3>1. N \in Nat
      BY <1>1
    <3> HIDE DEF g
    <3> QED
      BY <1>4, <3>1, Loop
  <2>2. ASSUME NEW n \in 1 .. N PROVE x[n] = More(x[n - 1], n)
    <3>1. <<x[n - 1], n>> \in Seq(Parsed) \X (1 .. N)
      <4>1. n - 1 \in 0 .. N
        BY <1>1
      <4>2. x[n - 1] \in Seq(Parsed)
        BY <4>1
      <4> QED
        BY <4>2
    <3> HIDE DEF More
    <3> QED
      BY <2>1, <3>1 DEF Loops
  <2> HIDE DEF More
  <2>3. x = Body(x)
    BY <2>1, <2>2 DEF Loops
  <2> QED
    BY <2>3
<1> DEFINE r == CHOOSE x : x = Body(x)
<1>6. amdGpuRingInfo(Directory) = r[N] /\ r = Body(r)
  <2>1. amdGpuRingInfo(Directory) = r[N]
    BY DEF amdGpuRingInfo, N
  <2> HIDE DEF Body
  <2> QED
    BY <1>5, <2>1
<1> HIDE DEF r
<1>7. r[0] = <<>> /\ \A n \in 1 .. N : r[n] = More(r[n - 1], n)
  <2>1. r = [n \in 0 .. N |-> IF n = 0 THEN <<>> ELSE More(r[n - 1], n)]
    BY <1>6
  <2>2. N \in Nat
    BY <1>1
  <2> HIDE DEF More
  <2> QED
    BY <2>1, <2>2
<1> DEFINE Listed(list, n) ==
               /\ list \in Seq(Parsed) /\ Len(list) = n
               /\ \A m \in 1 .. n : list[m].shortname = rings[m]
           T == { n \in Nat : n <= Len(rings) => Listed(r[n + 1], n) }
<1>8. 0 \in T
  <2>1. 1 \in 1 .. N /\ r[1] = <<>>
    BY <1>1, <1>7
  <2>2. Listed(<<>>, 0)
    BY <1>4
  <2>3. 0 + 1 = 1
    OBVIOUS
  <2> HIDE DEF Listed
  <2> QED
    BY <2>1, <2>2, <2>3
<1>9. ASSUME NEW n \in T PROVE n + 1 \in T
  <2> SUFFICES ASSUME n + 1 <= Len(rings) PROVE Listed(r[(n + 1) + 1], n + 1)
    OBVIOUS
  <2>1. /\ n + 2 \in 1 .. N /\ (n + 1) + 1 = n + 2 /\ (n + 2) - 1 = n + 1
        /\ n + 1 \in 1 .. Len(rings)
    BY <1>1
  <2>2. Listed(r[n + 1], n)
    BY <1>1
  <2>3. Directory[n + 2] = rings[n + 1] /\ rings[n + 1] # <<>> /\ rings[n + 1] \in Seq(STRING)
    BY <1>1, <2>1
  <2>4. r[n + 2] = Append(r[n + 1], parseRingInfo(rings[n + 1]))
    BY <1>7, <2>1, <2>3
  <2>5. /\ parseRingInfo(rings[n + 1]) \in Parsed
        /\ parseRingInfo(rings[n + 1]).shortname = rings[n + 1]
    BY <1>2, <2>3 DEF parseRingInfo
  <2> DEFINE list == r[n + 1]
             entry == parseRingInfo(rings[n + 1])
  <2> HIDE DEF list, entry
  <2>6. list \in Seq(Parsed) /\ Len(list) = n /\ entry \in Parsed
        /\ \A m \in 1 .. n : list[m].shortname = rings[m]
    BY <2>2, <2>5 DEF list, entry
  <2>7. /\ Append(list, entry) \in Seq(Parsed) /\ Len(Append(list, entry)) = n + 1
        /\ Append(list, entry)[n + 1] = entry
        /\ \A m \in 1 .. n : Append(list, entry)[m] = list[m]
    BY <2>6
  <2>8. \A m \in 1 .. n + 1 : m \in 1 .. n \/ m = n + 1
    OBVIOUS
  <2>9. Listed(Append(list, entry), n + 1)
    BY <2>5, <2>6, <2>7, <2>8 DEF entry
  <2>10. r[(n + 1) + 1] = Append(list, entry)
    BY <2>1, <2>4 DEF list, entry
  <2> HIDE DEF Listed
  <2> QED
    BY <2>9, <2>10
<1>10. T = Nat
  <2> HIDE DEF T
  <2> QED
    BY <1>8, <1>9, Induction DEF T
<1>11. Listed(r[Len(rings) + 1], Len(rings))
  <2>1. Len(rings) \in T
    <3> HIDE DEF T
    <3> QED
      BY <1>1, <1>10
  <2> QED
    BY <1>1, <2>1
<1>12. r[N] = r[Len(rings) + 1]
  BY <1>1, <1>7
<1>13. Listed(amdGpuRingInfo(Directory), Len(rings))
  BY <1>6, <1>11, <1>12
<1>14. DOMAIN amdGpuRingInfo(Directory) = 1 .. Len(rings)
  BY <1>13
<1> QED
  BY <1>13, <1>14

\* What the Fence page shows of a ring whose name begins that of no other.
LEMMA OwnFences ==
    ASSUME FencesInv, topic = "fences", NEW k \in DOMAIN rings, Hits(rings[k]) = {k}
    PROVE  amdGpuQueryFenceInfo(file, rings[k]) = FencesOf(k)
<1> DEFINE short == rings[k]
           count == Len(RingFences(short))
           end == Reading(file, short)[Len(file)]
<1>1. /\ layout \in {"old", "new"} /\ rings \in Seq(RingNames) /\ short \in RingNames
      /\ LastLine /\ ReadSoFar(short) /\ k \in Nat
  BY DEF FencesInv
<1>2. count \in {2, 4, 7}
  BY <1>1, RingFencesFew
<1>3. amdGpuQueryFenceInfo(file, short)
         = IF end.inside THEN Fence(end, file[Len(file)]).info ELSE end.info
  BY DEF amdGpuQueryFenceInfo
<1>4. \A f \in Fields : Place[f] \in 1 .. 7 /\ (Place[f] = 4 <=> f = "emitted_trial")
                         /\ (Place[f] = 7 <=> f = "both")
  BY DEF Fields, Place
<1>5. FencesOf(k) = [f \in Fields |->
            CASE Place[f] <= count -> FenceValue(k, Place[f])
              [] count = 2 /\ f = "emitted_trial" /\ k = Len(rings) -> FenceValue(k, 2)
              [] OTHER -> 0]
  BY DEF FencesOf
<1>6. CASE k = Len(rings)
  <2>1. After(end, k, count)
    BY <1>1, <1>6 DEF ReadSoFar
  <2> DEFINE line == file[Len(file)]
             next == Fence(end, line)
  <2>2. line = [what |-> FenceOrder[count], value |-> FenceValue(k, count)]
    BY <1>1, <1>6 DEF LastLine
  <2> HIDE DEF end, line, count, short
  <2>3. line \in Fence_s /\ line.what = FenceOrder[count] /\ line.value = FenceValue(k, count)
    <3>1. FenceOrder[count] \in Fields /\ FenceValue(k, count) \in Nat
      BY <1>1, <1>2 DEF FenceOrder, Fields, FenceValue
    <3> QED
      BY <2>2, <3>1 DEF Fence_s
  <2>4. end \in States /\ end.inside /\ end.info = Info(k, count)
        /\ end.emitted_index = IF count < 2 THEN 0 ELSE IF count < 4 THEN 1 ELSE 2
    BY <2>1 DEF After
  <2>5. FenceStep(end, line, next)
    BY <2>3, <2>4, FenceSteps, Zenon
  <2> HIDE DEF next
  <2>6. next.info = FencesOf(k)
    <3>1. CASE count = 2
      <4>1. next.info = [Info(k, 2) EXCEPT !["emitted_trial"] = FenceValue(k, 2)]
        BY <2>3, <2>4, <2>5, <3>1 DEF FenceStep, FenceOrder
      <4>2. FencesOf(k) = [f \in Fields |->
                  IF f = "emitted_trial" THEN FenceValue(k, 2) ELSE Info(k, 2)[f]]
        BY <1>4, <1>5, <1>6, <3>1 DEF Info
      <4>3. Info(k, 2) = [f \in Fields |-> Info(k, 2)[f]]
        BY DEF Info
      <4> QED
        BY <4>1, <4>2, <4>3
    <3>2. CASE count = 4
      <4>1. next.info = Info(k, 4)
        BY <2>3, <2>4, <2>5, <3>2 DEF FenceStep, FenceOrder
      <4> QED
        BY <1>4, <1>5, <3>2, <4>1 DEF Info
    <3>3. CASE count = 7
      <4>1. next.info = [Info(k, 7) EXCEPT !["both"] = FenceValue(k, 7)]
        BY <2>3, <2>4, <2>5, <3>3 DEF FenceStep, FenceOrder
      <4> QED
        BY <1>4, <1>5, <3>3, <4>1 DEF Info
    <3> QED
      BY <1>2, <3>1, <3>2, <3>3
  <2> QED
    BY <1>3, <2>4, <2>6 DEF next, line, short
<1>7. CASE k # Len(rings)
  <2>1. ~end.inside /\ end.info = Info(k, count)
    BY <1>1, <1>7 DEF ReadSoFar
  <2> HIDE DEF end, count, short
  <2>2. Info(k, count) = FencesOf(k)
    BY <1>4, <1>5, <1>7 DEF Info
  <2> QED
    BY <1>3, <2>1, <2>2 DEF short
<1> QED
  BY <1>6, <1>7

\* The Fence page has a row for each ring, with the fences of that ring and of no
\* other (amdGpuQueryFenceInfo, update_fence_info), for any number of rings.
THEOREM FencesAreRight == Spec => []FencesRight
<1>1. FencesInv => FencesRight
  <2> SUFFICES ASSUME FencesInv, topic = "fences"
               PROVE  FencesRight
    BY DEF FencesRight
  <2> DEFINE listed == amdGpuRingInfo(Directory)
             rows == FenceRows(listed, file)
  <2>1. rings \in Seq(RingNames)
    BY DEF FencesInv
  <2>2. /\ DOMAIN listed = 1 .. Len(rings) /\ Len(listed) = Len(rings)
        /\ \A n \in 1 .. Len(rings) : listed[n].shortname = rings[n]
    BY <2>1, RingsListed
  <2> HIDE DEF listed
  <2>3. ASSUME NEW k \in DOMAIN rings, \A m \in DOMAIN rings \ {k} : ~IsPrefix(rings[k], rings[m])
        PROVE  listed[k].shortname = rings[k] /\ rows[k] = FencesOf(k)
    <3>1. k \in 1 .. Len(rings) /\ rings[k] \in RingNames /\ rings[k] \in Seq(STRING)
      BY <2>1, NameAssumption
    <3>2. IsPrefix(rings[k], rings[k])
      BY <3>1 DEF IsPrefix
    <3>3. Hits(rings[k]) = {k}
      BY <2>3, <3>2 DEF Hits
    <3>4. rows[k] = amdGpuQueryFenceInfo(file, rings[k])
      BY <2>2, <3>1 DEF FenceRows
    <3> QED
      BY <2>2, <3>1, <3>3, <3>4, OwnFences
  <2> QED
    BY <2>2, <2>3 DEF FencesRight, listed
<1> QED
  BY <1>1, FencesInit, FencesStep, PTL DEF Spec

-----------------------------------------------------------------------------
(* The list of clients.                                                    *)

\* A set of lines that has with each line those before it is the beginning of the
\* file.
LEMMA Beginnings ==
    ASSUME NEW N \in Nat, NEW S \in SUBSET (1 .. N), \A n \in S : 1 .. n \subseteq S
    PROVE  S = 1 .. Cardinality(S) /\ Cardinality(S) \in 0 .. N
<1> DEFINE T == (1 .. N + 1) \ S
<1>1. T \in SUBSET Nat /\ N + 1 \in T
  OBVIOUS
<1> HIDE DEF T
<1>2. PICK m \in T : \A n \in T : m <= n
  BY <1>1, LeastNumber
<1>3. m \in 1 .. N + 1 /\ m \notin S
  BY <1>2 DEF T
<1>4. S = 1 .. m - 1
  <2>1. ASSUME NEW n \in S PROVE n \in 1 .. m - 1
    <3>1. n \in 1 .. N /\ ~(m <= n)
      BY <1>3, <2>1
    <3> QED
      BY <1>3, <3>1
  <2>2. ASSUME NEW n \in 1 .. m - 1 PROVE n \in S
    BY <1>2, <1>3 DEF T
  <2> QED
    BY <2>1, <2>2
<1>5. m - 1 \in 0 .. N /\ Cardinality(1 .. m - 1) = m - 1
  BY <1>3, FS_Interval
<1> QED
  BY <1>4, <1>5

\* The clients that are read are those of the first lines, as far as they can be
\* read and the room they are told of goes.
LEMMA ClientsRead ==
    ASSUME NEW f, NEW N \in Nat, DOMAIN f = 1 .. N, Len(f) = N
    PROVE  LET infos == amdGpuQueryClientInfo(f)
               count == Len(infos)
           IN /\ count \in 0 .. N /\ DOMAIN infos = 1 .. count
              /\ \A n \in 1 .. N : n <= count <=> n <= ToldCount /\ Readable(f, n)
              /\ \A n \in 1 .. count :
                    infos[n].command = f[n].command /\ infos[n].uid = ScannedUid(f[n])
<1> DEFINE R == { n \in DOMAIN f : n <= ToldCount /\ Readable(f, n) }
           count == Cardinality(R)
           infos == amdGpuQueryClientInfo(f)
<1>1. ToldCount \in Nat
  BY BoundAssumption
<1>2. R \in SUBSET (1 .. N) /\ \A n \in R : 1 .. n \subseteq R
  BY <1>1 DEF Readable
<1>3. R = 1 .. count /\ count \in 0 .. N
  <2> HIDE DEF R
  <2> QED
    BY <1>2, Beginnings
<1>4. \A n \in 1 .. N : n <= count <=> n <= ToldCount /\ Readable(f, n)
  <2>1. \A n \in 1 .. N : n \in R <=> n <= ToldCount /\ Readable(f, n)
    OBVIOUS
  <2> HIDE DEF R, count
  <2> QED
    BY <1>3, <2>1
<1>5. infos = [n \in 1 .. count |->
                  [command |-> f[n].command, uid |-> ScannedUid(f[n])]]
  BY DEF amdGpuQueryClientInfo
<1> HIDE DEF count, infos
<1>6. Len(infos) = count /\ DOMAIN infos = 1 .. count
  BY <1>3, <1>5
<1> QED
  BY <1>3, <1>4, <1>5, <1>6 DEF infos

ClientsInv == topic = "clients" => file \in Seq(Clients)

\* For any number of clients of any shape, the list is the beginning of the file, all
\* of it if every line is plain; the array is overrun only by more clients than it has
\* room for, or by what is left of the line of the last one, and an owner is looked up
\* in vain only if the file has such a client (amdGpuQueryClientInfo, update_client_info).
THEOREM ClientsAreListed == Spec => []ClientsListed
<1>1. Init => ClientsInv
  BY DEF Init, ClientsInv
<1>2. ClientsInv /\ [Next]_vars => ClientsInv'
  <2> SUFFICES ASSUME ClientsInv, [Next]_vars, topic' = "clients"
               PROVE  file' \in Seq(Clients)
    BY DEF ClientsInv
  <2>1. CASE AddClient
    BY <2>1 DEF ClientsInv, AddClient, Add
  <2>2. CASE AddRing \/ AddId \/ AddCpuLine \/ AddKeyLine \/ AddTable \/ AddCapability
    BY <2>2 DEF AddRing, AddId, AddCpuLine, AddKeyLine, AddTable, AddCapability, Add
  <2>3. CASE UNCHANGED vars
    BY <2>3 DEF ClientsInv, vars
  <2> QED
    BY <2>1, <2>2, <2>3 DEF Next
<1>3. ClientsInv => ClientsListed
  <2> SUFFICES ASSUME ClientsInv, topic = "clients"
               PROVE  ClientsListed
    BY DEF ClientsListed
  <2> DEFINE infos == amdGpuQueryClientInfo(file)
             count == Len(infos)
             N == Len(file)
             plain == \A k \in DOMAIN file : file[k].shape = "plain"
  <2>1. N \in Nat /\ DOMAIN file = 1 .. N /\ ToldCount \in Nat /\ MAX_CLIENT_COUNT \in Nat
    BY BoundAssumption DEF ClientsInv
  <2>2. /\ count \in 0 .. N /\ DOMAIN infos = 1 .. count
        /\ \A n \in 1 .. N : n <= count <=> n <= ToldCount /\ Readable(file, n)
        /\ \A n \in 1 .. count :
              infos[n].command = file[n].command /\ infos[n].uid = ScannedUid(file[n])
    BY <2>1, ClientsRead
  <2> HIDE DEF infos, N
  <2>3. \A n \in 1 .. count - 1 : infos[n].uid = file[n].uid
    <3>1. \A n \in 1 .. count - 1 : count \in 1 .. N /\ n \in 1 .. count
      BY <2>1, <2>2
    <3>2. \A n \in 1 .. count - 1 : file[n].shape # "long_uid"
      BY <2>2, <3>1 DEF Readable
    <3> QED
      BY <2>2, <3>1, <3>2 DEF ScannedUid
  <2>4. ASSUME plain PROVE count = IF N < ToldCount THEN N ELSE ToldCount
    <3>1. \A n \in 1 .. N : Readable(file, n)
      BY <2>1, <2>4 DEF Readable, Fails
    <3>2. \A n \in 1 .. N : n <= count <=> n <= ToldCount
      BY <2>2, <3>1
    <3> HIDE DEF count, plain
    <3>3. CASE N < ToldCount
      <4>1. N = 0 \/ N \in 1 .. N
        BY <2>1
      <4> QED
        BY <2>1, <2>2, <3>2, <3>3, <4>1
    <3>4. CASE ~(N < ToldCount)
      <4>1. ToldCount = 0 \/ ToldCount \in 1 .. N
        BY <2>1, <3>4
      <4>2. count = 0 \/ count \in 1 .. N
        BY <2>1, <2>2
      <4> QED
        BY <2>1, <2>2, <3>2, <3>4, <4>1, <4>2
    <3> QED
      BY <3>3, <3>4
  <2>5. ASSUME Touched(file) > MAX_CLIENT_COUNT, ~(N > MAX_CLIENT_COUNT)
        PROVE  N = MAX_CLIENT_COUNT /\ file[N].shape = "long_uid"
    <3> DEFINE more == \/ count < N
                       \/ count > 0 /\ file[count].shape = "long_uid"
    <3>1. Touched(file) = IF count < ToldCount /\ more THEN count + 1 ELSE count
      BY DEF Touched, infos, N
    <3>2. count \in Nat /\ count <= N /\ N <= MAX_CLIENT_COUNT
      BY <2>1, <2>2, <2>5
    <3> HIDE DEF count
    <3>3. more /\ count + 1 > MAX_CLIENT_COUNT
      BY <2>1, <2>5, <3>1, <3>2
    <3>4. count = N /\ N = MAX_CLIENT_COUNT
      BY <2>1, <3>2, <3>3
    <3> QED
      BY <3>2, <3>3, <3>4
  <2>6. ASSUME ClientRows(file, MAX_CLIENT_COUNT, Accounts).crashed
        PROVE  \E k \in DOMAIN file :
                  /\ file[k].command # "unknow"
                  /\ file[k].uid \notin Accounts \/ file[k].shape = "long_uid"
    <3> DEFINE shown == { n \in 1 .. MAX_CLIENT_COUNT : n <= count /\ infos[n].command # "unknow" }
    <3>1. ClientRows(file, MAX_CLIENT_COUNT, Accounts).crashed
            = \E n \in shown : infos[n].uid \notin Accounts
      BY DEF ClientRows, infos
    <3>2. PICK n \in shown : infos[n].uid \notin Accounts
      BY <2>6, <3>1
    <3>3. n \in 1 .. count /\ n \in DOMAIN file /\ infos[n].command # "unknow"
      BY <2>1, <2>2, <3>2
    <3>4. infos[n].command = file[n].command /\ infos[n].uid = ScannedUid(file[n])
      BY <2>2, <3>3
    <3>5. file[n].uid \notin Accounts \/ file[n].shape = "long_uid"
      BY <3>2, <3>4 DEF ScannedUid
    <3> QED
      BY <3>3, <3>4, <3>5
  <2> QED
    BY <2>2, <2>3, <2>4, <2>5, <2>6 DEF ClientsListed, infos, N
<1> QED
  BY <1>1, <1>2, <1>3, PTL DEF Spec

-----------------------------------------------------------------------------
(* The names of the cards.                                                 *)

\* what NamesFound says of one card
NameRight(did, rid) ==
    LET got == getDeviceNameFromAmdgpuIDS(file, [did |-> did, rid |-> rid, amd |-> TRUE])
        own == { k \in DOMAIN file : file[k].did = did /\ file[k].rid = rid }
        odd == { k \in DOMAIN file : Odd(file[k]) }
    IN /\ got.ok => \E k \in own : got.name = file[k].name.head
       /\ own # {} /\ (\A k \in odd : Min(own) <= k) =>
             got.ok /\ got.name = file[Min(own)].name.head

IdsInv == topic = "ids" => file \in Seq(IdEntries)

\* A card that is listed is called by its entry, unless an entry before it cannot be
\* scanned, and no card gets the name of another (getDeviceNameFromAmdgpuIDS).
THEOREM NamesAreFound == Spec => []NamesFound
<1>1. Init => IdsInv
  BY DEF Init, IdsInv
<1>2. IdsInv /\ [Next]_vars => IdsInv'
  <2> SUFFICES ASSUME IdsInv, [Next]_vars, topic' = "ids"
               PROVE  file' \in Seq(IdEntries)
    BY DEF IdsInv
  <2>1. CASE AddId
    BY <2>1 DEF IdsInv, AddId, Add
  <2>2. CASE AddRing \/ AddClient \/ AddCpuLine \/ AddKeyLine \/ AddTable \/ AddCapability
    BY <2>2 DEF AddRing, AddClient, AddCpuLine, AddKeyLine, AddTable, AddCapability, Add
  <2>3. CASE UNCHANGED vars
    BY <2>3 DEF IdsInv, vars
  <2> QED
    BY <2>1, <2>2, <2>3 DEF Next
<1>3. IdsInv => NamesFound
  <2> SUFFICES ASSUME IdsInv, topic = "ids"
               PROVE  \A did \in { e.did : e \in IdEntries }, rid \in { e.rid : e \in IdEntries } :
                          NameRight(did, rid)
    BY Zenon DEF NamesFound, NameRight
  <2> SUFFICES ASSUME NEW did, NEW rid
               PROVE  NameRight(did, rid)
    BY Zenon
  <2> DEFINE got == getDeviceNameFromAmdgpuIDS(file, [did |-> did, rid |-> rid, amd |-> TRUE])
             own == { k \in DOMAIN file : file[k].did = did /\ file[k].rid = rid }
             odd == { k \in DOMAIN file : Odd(file[k]) }
             hits == { k \in DOMAIN file : /\ \A m \in 1 .. k - 1 : ~Odd(file[m])
                                           /\ file[k].did = did /\ file[k].rid = rid }
  <2>1. DOMAIN file \in SUBSET Nat /\ DOMAIN file = 1 .. Len(file) /\ Len(file) \in Nat
    BY DEF IdsInv
  <2>2. /\ hits # {} => got = [ok |-> TRUE, name |-> file[Min(hits)].name.head]
        /\ hits = {} => got = [ok |-> FALSE]
    BY DEF getDeviceNameFromAmdgpuIDS, EntryOf
  <2>3. hits \in SUBSET Nat /\ own \in SUBSET Nat /\ hits \subseteq own
    BY <2>1
  <2>4. /\ hits # {} => Min(hits) \in hits /\ \A n \in hits : Min(hits) <= n
        /\ own # {} => Min(own) \in own /\ \A n \in own : Min(own) <= n
    <3> HIDE DEF hits, own
    <3> QED
      BY <2>3, MinLine
  <2>5. ASSUME own # {}, \A k \in odd : Min(own) <= k
        PROVE  hits # {} /\ Min(hits) = Min(own)
    <3>1. \A m \in 1 .. Min(own) - 1 : ~Odd(file[m])
      <4> SUFFICES ASSUME NEW m \in 1 .. Min(own) - 1, Odd(file[m])
                   PROVE  FALSE
        OBVIOUS
      <4>1. Min(own) \in 1 .. Len(file)
        BY <2>1, <2>4, <2>5
      <4>2. m \in odd /\ ~(Min(own) <= m)
        BY <2>1, <4>1
      <4> QED
        BY <2>5, <4>2
    <3>2. Min(own) \in own
      BY <2>4, <2>5
    <3>3. Min(own) \in hits
      BY <3>1, <3>2
    <3>4. Min(hits) \in hits /\ Min(hits) <= Min(own) /\ Min(own) <= Min(hits)
      BY <2>3, <2>4, <2>5, <3>3
    <3>5. hits # {}
      BY <3>3
    <3>6. Min(hits) \in Nat /\ Min(own) \in Nat
      BY <2>3, <3>2, <3>4
    <3> HIDE DEF hits, own
    <3> QED
      BY <3>4, <3>5, <3>6
  <2> HIDE DEF hits, own, odd, got
  <2>6. ASSUME got.ok PROVE \E k \in own : got.name = file[k].name.head
    <3>1. hits # {}
      <4>1. hits = {} => got.ok = FALSE
        BY <2>2
      <4> QED
        BY <2>6, <4>1, Zenon
    <3>2. Min(hits) \in own
      BY <2>3, <2>4, <3>1
    <3>3. got.name = file[Min(hits)].name.head
      BY <2>2, <3>1
    <3> QED
      BY <3>2, <3>3
  <2>7. ASSUME own # {}, \A k \in odd : Min(own) <= k
        PROVE  got.ok /\ got.name = file[Min(own)].name.head
    BY <2>2, <2>5, <2>7
  <2> QED
    BY <2>6, <2>7, Zenon DEF own, odd, got, NameRight
<1> QED
  BY <1>1, <1>2, <1>3, PTL DEF Spec

-----------------------------------------------------------------------------
(* Lookups in /proc/cpuinfo and in the files of keys and values.           *)

\* A number that has no fewer digits than what the buffer held is all of it.
LEMMA Overwritten ==
    ASSUME NEW S, NEW buf \in Seq(S), NEW digits \in Seq(S), Len(digits) >= Len(buf)
    PROVE  Overwrite(buf, digits) = digits
<1>1. SubSeq(buf, Len(digits) + 1, Len(buf)) = <<>>
  BY SubSeqEmpty
<1> QED
  BY <1>1, ConcatEmptySeq DEF Overwrite

LEMMA OwnPrefix ==
    ASSUME NEW S, NEW s \in Seq(S)
    PROVE  IsPrefix(s, s)
BY DEF IsPrefix

\* What parseCpuInfo tells of an item.
LEMMA Parsed ==
    ASSUME NEW f, NEW item, NEW buf
    PROVE  LET hits == Beginning(f, item)
               p == parseCpuInfo(f, item, buf)
           IN /\ p.found <=> hits # {}
              /\ hits # {} => p.buf = Overwrite(buf, f[Min(hits)].value)
<1> DEFINE hits == Beginning(f, item)
           p == parseCpuInfo(f, item, buf)
           new == Overwrite(buf, f[Min(hits)].value)
<1>1. p = IF hits = {} THEN [found |-> FALSE, buf |-> buf] ELSE [found |-> TRUE, buf |-> new]
  BY DEF parseCpuInfo
<1> HIDE DEF hits, p, new
<1>2. CASE hits = {}
  <2>1. p.found = FALSE
    BY <1>1, <1>2
  <2> QED
    BY <1>2, <2>1, Zenon DEF hits, p
<1>3. CASE hits # {}
  <2>1. p.found = TRUE /\ p.buf = new
    BY <1>1, <1>3
  <2> QED
    BY <1>3, <2>1, Zenon DEF hits, p, new
<1> QED
  BY <1>2, <1>3

\* every line is from the lines that may be in the file, and no key is there twice
CpuInv ==
    topic = "cpuinfo" =>
        /\ file \in Seq(CpuLines)
        /\ \A k, m \in DOMAIN file : file[k].key = file[m].key => k = m

KeysInv == topic = "keys" => file \in Seq(KeyLines)

LEMMA CpuInvStep == CpuInv /\ [Next]_vars => CpuInv'
<1> SUFFICES ASSUME CpuInv, [Next]_vars, topic' = "cpuinfo"
             PROVE  CpuInv'
  BY DEF CpuInv
<1>1. CASE AddCpuLine
  <2>1. PICK line \in { l \in CpuLines : \A k \in DOMAIN file : file[k].key # l.key } :
           file' = Append(file, line)
    BY <1>1 DEF AddCpuLine, Add
  <2>2. topic = "cpuinfo" /\ file \in Seq(CpuLines) /\ line \in CpuLines
    BY <1>1, <2>1 DEF AddCpuLine, Add, CpuInv
  <2>3. /\ file' \in Seq(CpuLines) /\ DOMAIN file' = DOMAIN file \cup {Len(file) + 1}
        /\ file'[Len(file) + 1] = line
        /\ \A k \in DOMAIN file : file'[k] = file[k]
    BY <2>1, <2>2
  <2> QED
    BY <2>1, <2>2, <2>3 DEF CpuInv
<1>2. CASE AddRing \/ AddClient \/ AddId \/ AddKeyLine \/ AddTable \/ AddCapability
  BY <1>2 DEF AddRing, AddClient, AddId, AddKeyLine, AddTable, AddCapability, Add
<1>3. CASE UNCHANGED vars
  BY <1>3 DEF CpuInv, vars
<1> QED
  BY <1>1, <1>2, <1>3 DEF Next

\* The two counts are those of their lines.
LEMMA CountsRight ==
    ASSUME CpuInv, topic = "cpuinfo"
    PROVE  LET got == getCpuCores(file)
               Of(key) == { file[k].value : k \in { m \in DOMAIN file : file[m].key = key } }
           IN /\ got.ok <=> Of(<<"cpu", "cores">>) # {} /\ Of(<<"siblings">>) # {}
              /\ \A c \in Of(<<"cpu", "cores">>), t \in Of(<<"siblings">>) :
                    got.cores = c /\ (Len(t) >= Len(c) => got.threads = t)
<1> DEFINE Own(key) == { m \in DOMAIN file : file[m].key = key }
           Of(key) == { file[k].value : k \in Own(key) }
           cc == <<"cpu", "cores">>
           ss == <<"siblings">>
           got == getCpuCores(file)
           cores == parseCpuInfo(file, cc, <<>>)
           threads == parseCpuInfo(file, ss, cores.buf)
<1>1. file \in Seq(CpuLines) /\ \A k, m \in DOMAIN file : file[k].key = file[m].key => k = m
  BY DEF CpuInv
<1>2. Beginning(file, cc) = Own(cc) /\ Beginning(file, ss) = Own(ss)
  <2>1. IsPrefix(cc, cc) /\ IsPrefix(ss, ss)
    <3> DEFINE Words == {"cpu", "cores", "siblings"}
    <3>1. cc \in Seq(Words) /\ ss \in Seq(Words)
      OBVIOUS
    <3> HIDE DEF cc, ss, Words
    <3> QED
      BY <3>1, OwnPrefix
  <2>2. \A k \in DOMAIN file : file[k] \in CpuLines
    BY <1>1
  <2>3. \A k \in DOMAIN file : /\ IsPrefix(cc, file[k].key) => file[k].key = cc
                               /\ IsPrefix(ss, file[k].key) => file[k].key = ss
    BY <2>2, CpuLinesAssumption
  <2> QED
    BY <2>1, <2>3, Zenon DEF Beginning
<1>3. \A key : Own(key) # {} => Min(Own(key)) \in Own(key) /\ Own(key) \in SUBSET Nat
  <2> SUFFICES ASSUME NEW key, Own(key) # {}
               PROVE  Min(Own(key)) \in Own(key) /\ Own(key) \in SUBSET Nat
    OBVIOUS
  <2>1. Own(key) \in SUBSET Nat
    BY <1>1
  <2> HIDE DEF Own
  <2> QED
    BY <2>1, MinLine
<1>4. \A key : \A v \in Of(key) : v = file[Min(Own(key))].value /\ v \in Seq(0 .. 9)
  <2> SUFFICES ASSUME NEW key, NEW v \in Of(key)
               PROVE  v = file[Min(Own(key))].value /\ v \in Seq(0 .. 9)
    OBVIOUS
  <2>1. PICK k \in Own(key) : v = file[k].value
    OBVIOUS
  <2>2. Min(Own(key)) \in Own(key)
    BY <1>3, <2>1
  <2>3. k = Min(Own(key)) /\ file[k] \in CpuLines
    BY <1>1, <2>2
  <2> QED
    BY <2>1, <2>3, CpuLinesAssumption
<1>5. /\ cores.found <=> Own(cc) # {}
      /\ threads.found <=> Own(ss) # {}
      /\ Own(cc) # {} => cores.buf = Overwrite(<<>>, file[Min(Own(cc))].value)
      /\ Own(ss) # {} => threads.buf = Overwrite(cores.buf, file[Min(Own(ss))].value)
  <2> HIDE DEF Own, cc, ss
  <2> QED
    BY <1>2, Parsed, Zenon
<1>6. got = [ok |-> cores.found /\ threads.found, cores |-> cores.buf, threads |-> threads.buf]
  BY DEF getCpuCores
<1> HIDE DEF got, cores, threads, cc, ss
<1>7. \A key : Of(key) # {} <=> Own(key) # {}
  OBVIOUS
<1>8. got.ok <=> Of(cc) # {} /\ Of(ss) # {}
  <2>1. got.ok = (cores.found /\ threads.found)
    BY <1>6
  <2> HIDE DEF Own, Of
  <2> QED
    BY <1>5, <1>7, <2>1, Zenon
<1>9. ASSUME NEW c \in Of(cc), NEW t \in Of(ss)
      PROVE  got.cores = c /\ (Len(t) >= Len(c) => got.threads = t)
  <2>1. Own(cc) # {} /\ Own(ss) # {}
    OBVIOUS
  <2>2. /\ c = file[Min(Own(cc))].value /\ c \in Seq(0 .. 9)
        /\ t = file[Min(Own(ss))].value /\ t \in Seq(0 .. 9)
    BY <1>4
  <2>3. got.cores = cores.buf /\ got.threads = threads.buf
    BY <1>6
  <2> HIDE DEF Own, Of
  <2>4. cores.buf = Overwrite(<<>>, c) /\ threads.buf = Overwrite(cores.buf, t)
    BY <1>5, <2>1, <2>2
  <2>5. Overwrite(<<>>, c) = c
    <3>1. <<>> \in Seq(0 .. 9) /\ Len(c) >= Len(<<>>)
      BY <2>2
    <3> QED
      BY <2>2, <3>1, Overwritten
  <2>6. Len(t) >= Len(c) => Overwrite(c, t) = t
    BY <2>2, Overwritten
  <2> QED
    BY <2>3, <2>4, <2>5, <2>6
<1> QED
  BY <1>8, <1>9, Zenon DEF got, cc, ss

\* A key holds itself, and those it begins with.
LEMMA HoldsPrefix ==
    ASSUME NEW key \in Seq(STRING), key # <<>>, NEW name, IsPrefix(name, key)
    PROVE  Holds(key, name)
<1>1. 1 \in 1 .. Len(key) /\ SubSeq(key, 1, Len(key)) = key
  BY SubSeqFull
<1> QED
  BY <1>1 DEF Holds

\* The line of a key that no other line holds is found by all three readers.
LEMMA KeyFound ==
    ASSUME KeysInv, topic = "keys", NEW k \in DOMAIN file,
           \A m \in DOMAIN file \ {k} : ~Holds(file[m].key, file[k].key)
    PROVE  /\ getProcMemInfo(file, file[k].key) = file[k].value
           /\ sysfs_get_uevent(file, file[k].key).value = file[k].value
           /\ getOSReleaseInfo(file, file[k].key) = file[k].value
<1> DEFINE name == file[k].key
<1>1. /\ file \in Seq(KeyLines) /\ DOMAIN file = 1 .. Len(file) /\ Len(file) \in Nat
      /\ DOMAIN file \in SUBSET Nat
  BY DEF KeysInv
<1>2. \A m \in DOMAIN file : file[m].key \in Seq(STRING) /\ file[m].key # <<>>
  BY <1>1, NameAssumption
<1>3. IsPrefix(name, name)
  BY <1>2, OwnPrefix
<1>4. \A m \in DOMAIN file : IsPrefix(name, file[m].key) => m = k
  BY <1>2, HoldsPrefix
<1>5. Holds(name, name)
  BY <1>2, <1>3, HoldsPrefix
<1>6. { m \in DOMAIN file : Holds(file[m].key, name) } = {k}
  BY <1>5
<1>7. { m \in DOMAIN file : file[m].key = name } = {k}
  BY <1>5
<1>8. Beginning(file, name) = {k}
  BY <1>3, <1>4 DEF Beginning
<1>9. Min({k}) = k /\ Max({k}) = k
  <2>1. {k} \in SUBSET Nat /\ {k} \in SUBSET (1 .. Len(file))
    BY <1>1
  <2>2. Min({k}) \in {k}
    BY <2>1, MinLine
  <2>3. Max({k}) \in {k}
    BY <1>1, <2>1, MaxLine
  <2> QED
    BY <2>2, <2>3
<1> HIDE DEF name
<1>10. getProcMemInfo(file, name) = file[k].value
  BY <1>6, <1>9 DEF getProcMemInfo
<1>11. sysfs_get_uevent(file, name).value = file[k].value
  BY <1>7, <1>9 DEF sysfs_get_uevent
<1>12. getOSReleaseInfo(file, name) = file[k].value
  BY <1>8, <1>9 DEF getOSReleaseInfo
<1> QED
  BY <1>10, <1>11, <1>12 DEF name

\* The counts of cores and threads, and the values of keys, are those of the file
\* under the conditions of the property (getCpuCores, getProcMemInfo,
\* sysfs_get_uevent, getOSReleaseInfo).
THEOREM LookupsAreRight == Spec => []LookupsRight
<1>1. Init => CpuInv /\ KeysInv
  BY DEF Init, CpuInv, KeysInv
<1>2. KeysInv /\ [Next]_vars => KeysInv'
  <2> SUFFICES ASSUME KeysInv, [Next]_vars, topic' = "keys"
               PROVE  file' \in Seq(KeyLines)
    BY DEF KeysInv
  <2>1. CASE AddKeyLine
    BY <2>1 DEF KeysInv, AddKeyLine, Add
  <2>2. CASE AddRing \/ AddClient \/ AddId \/ AddCpuLine \/ AddTable \/ AddCapability
    BY <2>2 DEF AddRing, AddClient, AddId, AddCpuLine, AddTable, AddCapability, Add
  <2>3. CASE UNCHANGED vars
    BY <2>3 DEF KeysInv, vars
  <2> QED
    BY <2>1, <2>2, <2>3 DEF Next
<1>3. CpuInv /\ KeysInv => LookupsRight
  <2>1. ASSUME KeysInv, topic = "keys", NEW k \in DOMAIN file,
               \A m \in DOMAIN file \ {k} : ~Holds(file[m].key, file[k].key)
        PROVE  /\ getProcMemInfo(file, file[k].key) = file[k].value
               /\ sysfs_get_uevent(file, file[k].key).value = file[k].value
               /\ getOSReleaseInfo(file, file[k].key) = file[k].value
    BY <2>1, KeyFound
  <2> QED
    BY <2>1, CountsRight, Zenon DEF LookupsRight
<1> QED
  BY <1>1, <1>2, <1>3, CpuInvStep, PTL DEF Spec

-----------------------------------------------------------------------------
(* The Bios page.                                                          *)

\* A table the image lacks has no lines, if the image has the length of neither of the
\* revisions that are drawn.
LEMMA NoLinesOfStart ==
    ASSUME NEW blocks, blocks \notin {2, 3}, NEW l \in DOMAIN BiosLines(Image(blocks))
    PROVE  BiosLines(Image(blocks))[l] # "start"
<1> DEFINE image == Image(blocks)
           Of(table) == atombios_get_data_by_id(image, table).of
           lines == FirmwareLines(image) \cup SmuLines(image) \cup GfxLines(image)
                        \cup MMLines(image)
           LinesOf == [n \in lines \cup {"vram"} |->
                          IF n = "vram" THEN VramType(image) ELSE Of(Source(n))]
           drawn == BiosLines(image)
<1>1. image.blocks = blocks /\ image.blocks \notin {2, 3}
  BY DEF Image
<1> HIDE DEF image
<1>2. \A table \in Tables :
         LET got == atombios_get_data_by_id(image, table)
         IN got.format \in {2, 3} => got.of = table
  <2> SUFFICES ASSUME NEW table \in Tables
               PROVE  LET got == atombios_get_data_by_id(image, table)
                      IN got.format \in {2, 3} => got.of = table
    OBVIOUS
  <2>1. CASE table \in DOMAIN image.tables
    BY <2>1 DEF atombios_get_data_by_id
  <2>2. CASE table \notin DOMAIN image.tables
    BY <1>1, <2>2 DEF atombios_get_data_by_id
  <2> QED
    BY <2>1, <2>2
<1>3. ASSUME NEW n \in lines PROVE Source(n) \in Tables /\ Of(Source(n)) = Source(n)
  <2>1. CASE n \in FirmwareLines(image)
    <3>1. Source(n) = "firmwareinfo" /\ Revision(image, "firmwareinfo", 3)
      BY <2>1 DEF FirmwareLines, Source
    <3> QED
      BY <1>2, <3>1 DEF Revision, Tables
  <2>2. CASE n \in SmuLines(image)
    <3>1. Source(n) = "smu_info" /\ Revision(image, "smu_info", 3)
      BY <2>2 DEF SmuLines, Source
    <3> QED
      BY <1>2, <3>1 DEF Revision, Tables
  <2>3. CASE n \in GfxLines(image)
    <3>1. Source(n) = "gfx_info" /\ Revision(image, "gfx_info", 2)
      BY <2>3 DEF GfxLines, Source
    <3> QED
      BY <1>2, <3>1 DEF Revision, Tables
  <2>4. CASE n \in MMLines(image)
    <3>1. Source(n) = "multimedia_info" /\ Revision(image, "multimedia_info", 2)
      BY <2>4 DEF MMLines, Source
    <3> QED
      BY <1>2, <3>1 DEF Revision, Tables
  <2> QED
    BY <2>1, <2>2, <2>3, <2>4
<1>4. VramType(image) \in {"vram_info", "unknow"}
  <2>1. "vram_info" \in Tables
    BY DEF Tables
  <2> QED
    BY <1>2, <2>1 DEF VramType
<1>5. \A n \in DOMAIN LinesOf : LinesOf[n] # "start"
  <2> HIDE DEF lines, Of
  <2>1. \A n \in lines : Of(Source(n)) # "start"
    BY <1>3 DEF Tables
  <2> QED
    BY <1>4, <2>1
<1>6. drawn = IF ~atombios_init(image) THEN <<>> ELSE LinesOf
  BY DEF BiosLines
<1>7. l \in DOMAIN drawn
  BY DEF image
<1> HIDE DEF drawn, LinesOf
<1>8. CASE ~atombios_init(image)
  <2>1. drawn = <<>>
    BY <1>6, <1>8
  <2> QED
    BY <1>7, <2>1
<1>9. CASE atombios_init(image)
  BY <1>5, <1>6, <1>7, <1>9 DEF drawn, image
<1> QED
  BY <1>8, <1>9

\* The size after all six of the names.
LEMMA NamesFit ==
    ASSUME NEW library \in Libraries, NEW caps,
           \/ library = "empties_first"
           \/ \E c, d \in 1 .. 6 : c # d /\ c \notin caps /\ d \notin caps
    PROVE  vbios_get_capability(library, caps).size \in 0 .. 99
<1> DEFINE Sizes == [length : Nat, size : Nat]
           With(s, c) == IF c \in caps THEN Joined(library, s, c) ELSE s
           kept == library = "in_place"
           none == [length |-> 0, size |-> 0]
           posted == With(none, 1)
           virtual == With(posted, 2)
           wmi == With(virtual, 3)
           hwemu == With(wmi, 4)
           cfg == With(hwemu, 5)
           ecc == With(cfg, 6)
<1>1. ASSUME NEW s \in Sizes, NEW c \in 1 .. 6
      PROVE  /\ With(s, c) \in Sizes
             /\ c \notin caps => With(s, c) = s
             /\ c \in caps =>
                   /\ With(s, c).length = 1 + NameLength[c] + (IF kept THEN s.length ELSE 0)
                   /\ With(s, c).size = s.size + With(s, c).length
  <2>1. c \in {1, 2, 3, 4, 5, 6}
    OBVIOUS
  <2>2. NameLength[c] \in Nat
    BY <2>1 DEF NameLength
  <2> QED
    BY <2>2 DEF Joined
<1>2. none \in Sizes /\ none.length = 0 /\ none.size = 0
  OBVIOUS
<1>3. vbios_get_capability(library, caps) = ecc
  BY DEF vbios_get_capability
<1>4. /\ NameLength[1] = 6 /\ NameLength[2] = 7 /\ NameLength[3] = 3
      /\ NameLength[4] = 5 /\ NameLength[5] = 5 /\ NameLength[6] = 8
  BY DEF NameLength
<1> HIDE DEF With, none
<1>5. posted \in Sizes /\ virtual \in Sizes /\ wmi \in Sizes /\ hwemu \in Sizes /\ cfg \in Sizes
  BY <1>1, <1>2
<1> DEFINE Took(s, t, c) ==
               IF c \in caps THEN /\ t.length = 1 + NameLength[c] + (IF kept THEN s.length ELSE 0)
                                  /\ t.size = s.size + t.length
               ELSE t.length = s.length /\ t.size = s.size
<1>6. /\ Took(none, posted, 1) /\ Took(posted, virtual, 2) /\ Took(virtual, wmi, 3)
      /\ Took(wmi, hwemu, 4) /\ Took(hwemu, cfg, 5) /\ Took(cfg, ecc, 6) /\ ecc \in Sizes
  <2>1. \A s \in Sizes : \A c \in 1 .. 6 : With(s, c) \in Sizes /\ Took(s, With(s, c), c)
    BY <1>1
  <2>2. 1 \in 1 .. 6 /\ 2 \in 1 .. 6 /\ 3 \in 1 .. 6 /\ 4 \in 1 .. 6 /\ 5 \in 1 .. 6 /\ 6 \in 1 .. 6
    OBVIOUS
  <2> HIDE DEF Sizes, Took
  <2> QED
    BY <1>2, <1>5, <2>1, <2>2, Zenon
<1> HIDE DEF posted, virtual, wmi, hwemu, cfg, ecc
<1>7. /\ posted.length \in Nat /\ posted.size \in Nat /\ virtual.length \in Nat /\ virtual.size \in Nat
      /\ wmi.length \in Nat /\ wmi.size \in Nat /\ hwemu.length \in Nat /\ hwemu.size \in Nat
      /\ cfg.length \in Nat /\ cfg.size \in Nat /\ ecc.length \in Nat /\ ecc.size \in Nat
  BY <1>5, <1>6
<1>8. CASE library = "empties_first"
  <2>1. ~kept
    BY <1>8
  <2> HIDE DEF kept
  <2>2. posted.size <= 7 /\ virtual.size <= posted.size + 8
    BY <1>2, <1>4, <1>6, <1>7, <2>1
  <2>3. wmi.size <= virtual.size + 4 /\ hwemu.size <= wmi.size + 6
    BY <1>4, <1>6, <1>7, <2>1
  <2>4. cfg.size <= hwemu.size + 6 /\ ecc.size <= cfg.size + 9
    BY <1>4, <1>6, <1>7, <2>1
  <2> HIDE DEF Took
  <2> QED
    BY <1>3, <1>7, <2>2, <2>3, <2>4
<1>9. CASE library # "empties_first"
  <2>1. kept
    BY <1>9 DEF Libraries
  <2>2. PICK c \in 1 .. 6, d \in 1 .. 6 : c # d /\ c \notin caps /\ d \notin caps
    BY <1>9
  <2>3. c \in {1, 2, 3, 4, 5, 6} /\ d \in {1, 2, 3, 4, 5, 6}
    OBVIOUS
  <2> HIDE DEF kept
  <2> QED
    BY <1>2, <1>3, <1>4, <1>6, <1>7, <2>1, <2>2, <2>3
<1> QED
  BY <1>8, <1>9

CapabilitiesInv == topic = "capabilities" => file \in Seq(1 .. 6)

\* A table the image lacks is not drawn from the start of the image, and the names of the
\* capabilities end inside their buffer, under the conditions of the property
\* (atombios_get_data_by_id and the print functions, vbios_get_capability).
THEOREM BiosStaysInBounds == Spec => []BiosInBounds
<1>1. Init => CapabilitiesInv
  BY DEF Init, CapabilitiesInv
<1>2. CapabilitiesInv /\ [Next]_vars => CapabilitiesInv'
  <2> SUFFICES ASSUME CapabilitiesInv, [Next]_vars, topic' = "capabilities"
               PROVE  file' \in Seq(1 .. 6)
    BY DEF CapabilitiesInv
  <2>1. CASE AddCapability
    <3>1. Len(Capabilities) = 6
      BY DEF Capabilities
    <3> QED
      BY <2>1, <3>1 DEF CapabilitiesInv, AddCapability, Add
  <2>2. CASE AddRing \/ AddClient \/ AddId \/ AddCpuLine \/ AddKeyLine \/ AddTable
    BY <2>2 DEF AddRing, AddClient, AddId, AddCpuLine, AddKeyLine, AddTable, Add
  <2>3. CASE UNCHANGED vars
    BY <2>3 DEF CapabilitiesInv, vars
  <2> QED
    BY <2>1, <2>2, <2>3 DEF Next
<1>3. ASSUME CapabilitiesInv, topic = "capabilities", NEW library \in Libraries,
             library = "empties_first" \/ Len(file) <= 4
      PROVE  vbios_get_capability(library, Range(file)).size < CapabilitySize
  <2>1. ASSUME Len(file) <= 4
        PROVE  \E c, d \in 1 .. 6 : c # d /\ c \notin Range(file) /\ d \notin Range(file)
    <3> DEFINE F(n) == IF n <= Len(file) THEN file[n] ELSE 1
    <3>1. file \in Seq(1 .. 6)
      BY <1>3 DEF CapabilitiesInv
    <3>2. F(1) \in 1 .. 6 /\ F(2) \in 1 .. 6 /\ F(3) \in 1 .. 6 /\ F(4) \in 1 .. 6
      BY <3>1
    <3>3. Range(file) \subseteq {F(1), F(2), F(3), F(4)}
      <4>1. \A n \in DOMAIN file : n \in 1 .. Len(file) /\ n \in {1, 2, 3, 4}
        BY <2>1, <3>1
      <4> QED
        BY <4>1 DEF Range
    <3> HIDE DEF F
    <3>4. ASSUME NEW f1 \in 1 .. 6, NEW f2 \in 1 .. 6, NEW f3 \in 1 .. 6, NEW f4 \in 1 .. 6
          PROVE  \E c, d \in 1 .. 6 : c # d /\ c \notin {f1, f2, f3, f4} /\ d \notin {f1, f2, f3, f4}
      OBVIOUS
    <3> QED
      BY <3>2, <3>3, <3>4
  <2>2. vbios_get_capability(library, Range(file)).size \in 0 .. 99
    BY <1>3, <2>1, NamesFit
  <2> QED
    BY <2>2, CapabilitySizeAssumption
<1>4. CapabilitiesInv => BiosInBounds
  BY <1>3, NoLinesOfStart, Zenon DEF BiosInBounds
<1> QED
  BY <1>1, <1>2, <1>4, PTL DEF Spec

=============================================================================
