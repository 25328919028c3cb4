----------------------------- MODULE SpeechProofs -----------------------------
(***************************************************************************)
(* Proofs about the way from decoded audio to the text, for every          *)
(* recording, setting, rate and window.                                    *)
(***************************************************************************)
EXTENDS Speech, InductionLemmas, FiniteSetTheorems, SequenceTheorems

-----------------------------------------------------------------------------
\* Numbers and sequences.

LEMMA MaxOfTwo == \A a, b \in Int : Max({a, b}) = IF a >= b THEN a ELSE b
<1> SUFFICES ASSUME NEW a \in Int, NEW b \in Int PROVE Max({a, b}) = IF a >= b THEN a ELSE b
  OBVIOUS
<1> DEFINE m == IF a >= b THEN a ELSE b
<1>1. m \in {a, b} /\ \A y \in {a, b} : m >= y
  OBVIOUS
<1>2. \A x \in {a, b} : (\A y \in {a, b} : x >= y) => x = m
  OBVIOUS
<1> HIDE DEF m
<1> QED BY <1>1, <1>2 DEF Max

LEMMA MinOfTwo == \A a, b \in Int : Min({a, b}) = IF a <= b THEN a ELSE b
<1> SUFFICES ASSUME NEW a \in Int, NEW b \in Int PROVE Min({a, b}) = IF a <= b THEN a ELSE b
  OBVIOUS
<1> DEFINE m == IF a <= b THEN a ELSE b
<1>1. m \in {a, b} /\ \A y \in {a, b} : m <= y
  OBVIOUS
<1>2. \A x \in {a, b} : (\A y \in {a, b} : x <= y) => x = m
  OBVIOUS
<1> HIDE DEF m
<1> QED BY <1>1, <1>2 DEF Min

LEMMA LastReplaced ==
  ASSUME NEW A, NEW s \in Seq(A), s # << >>, NEW e \in A
  PROVE  LET t == [s EXCEPT ![Len(s)] = e] IN
         /\ t \in Seq(A) /\ Len(t) = Len(s) /\ t # << >> /\ t[Len(s)] = e /\ Last(t) = e
         /\ \A i \in 1..Len(s) - 1 : t[i] = s[i]
<1> DEFINE t == [s EXCEPT ![Len(s)] = e]
<1>1. Len(s) \in Nat \ {0} /\ s \in [1..Len(s) -> A]
  BY EmptySeq, LenProperties
<1>2. t \in [1..Len(s) -> A]
  BY <1>1
<1>3. t \in Seq(A) /\ Len(t) = Len(s)
  BY <1>1, <1>2, IsASeq, LenProperties
<1>4. t[Len(s)] = e /\ \A i \in 1..Len(s) - 1 : t[i] = s[i]
  <2> DEFINE n == Len(s)
  <2>1. n \in 1..n /\ s \in [1..n -> A] /\ t = [s EXCEPT ![n] = e] /\ n \in Nat
    BY <1>1
  <2> HIDE DEF n, t
  <2>2. t[n] = e /\ \A i \in 1..n - 1 : t[i] = s[i]
    BY <2>1
  <2> QED BY <2>2 DEF n
<1>5. t # << >>
  BY <1>1, <1>3
<1> HIDE DEF t
<1> QED BY <1>3, <1>4, <1>5 DEF Last, t

LEMMA OneMore ==
  ASSUME NEW A, NEW s \in Seq(A), NEW e \in A
  PROVE  LET t == Append(s, e) IN
         /\ t \in Seq(A) /\ Len(t) = Len(s) + 1 /\ t # << >> /\ t[Len(s) + 1] = e /\ Last(t) = e
         /\ \A i \in 1..Len(s) : t[i] = s[i]
<1> QED BY AppendProperties DEF Last

\* What is flattened is what each turn of the loop has added.
LEMMA FlattenCourse ==
  ASSUME NEW A, NEW seqs \in Seq(Seq(A))
  PROVE  \E f \in [0..Len(seqs) -> Seq(A)] :
           /\ f[0] = << >> /\ FlattenSeq(seqs) = f[Len(seqs)]
           /\ \A i \in 1..Len(seqs) : f[i] = f[i - 1] \o seqs[i]
<1> DEFINE n == Len(seqs)
           F == [i \in 1..n |-> [x \in Seq(A) |-> x \o seqs[i]]]
           flat[i \in 1..n] == IF i = 1 THEN seqs[i] ELSE flat[i - 1] \o seqs[i]
<1>1. n \in Nat /\ << >> \in Seq(A) /\ \A i \in 1..n : seqs[i] \in Seq(A)
  BY EmptySeq
<1>2. n > 0 => FlattenSeq(seqs) = flat[n]
  BY DEF FlattenSeq
<1>3. n = 0 => FlattenSeq(seqs) = << >>
  BY EmptySeq DEF FlattenSeq
<1>4. flat = CHOOSE g : g = [i \in 1..n |-> IF i = 1 THEN seqs[i] ELSE g[i - 1] \o seqs[i]]
  OBVIOUS
<1> HIDE DEF n, flat
<1>5. F \in Turns(Seq(A), n) /\ \A i \in 1..n, x \in Seq(A) : F[i][x] = x \o seqs[i]
  BY <1>1, ConcatProperties DEF Turns
<1> HIDE DEF F
<1>6. PICK h : h \in Courses(Seq(A), n, << >>, F)
  BY <1>1, <1>5, Recursion
<1>7. h \in [0..n -> Seq(A)] /\ h[0] = << >> /\ \A i \in 1..n : h[i] = F[i][h[i - 1]]
  BY <1>6 DEF Courses
<1>8. ASSUME NEW i \in 1..n PROVE h[i] = h[i - 1] \o seqs[i]
  <2>1. i - 1 \in 0..n
    BY <1>1
  <2>2. h[i - 1] \in Seq(A)
    BY <1>7, <2>1
  <2> QED BY <1>5, <1>7, <2>2
<1> DEFINE g == [i \in 1..n |-> h[i]]
<1>9. g = [i \in 1..n |-> IF i = 1 THEN seqs[i] ELSE g[i - 1] \o seqs[i]]
  <2>1. ASSUME NEW i \in 1..n, i # 1 PROVE g[i] = g[i - 1] \o seqs[i]
    <3>1. i - 1 \in 1..n
      BY <1>1, <2>1
    <3>2. g[i - 1] = h[i - 1]
      BY <3>1
    <3> QED BY <1>8, <3>2
  <2>2. ASSUME NEW i \in 1..n, i = 1 PROVE g[i] = seqs[i]
    <3>1. i - 1 = 0 /\ h[i - 1] = << >>
      BY <1>7, <2>2
    <3>2. h[i] = << >> \o seqs[i] /\ seqs[i] \in Seq(A)
      BY <1>1, <1>8, <3>1
    <3> QED BY <3>2, ConcatEmptySeq
  <2> HIDE DEF g
  <2>3. g = [i \in 1..n |-> g[i]]
    BY DEF g
  <2> QED BY <2>1, <2>2, <2>3
<1> HIDE DEF g
<1>10. flat = [i \in 1..n |-> IF i = 1 THEN seqs[i] ELSE flat[i - 1] \o seqs[i]]
  BY <1>4, <1>9
<1>11. \A i \in 1..n : flat[i] = IF i = 1 THEN seqs[i] ELSE flat[i - 1] \o seqs[i]
  <2> DEFINE v(i) == IF i = 1 THEN seqs[i] ELSE flat[i - 1] \o seqs[i]
  <2>1. flat = [i \in 1..n |-> v(i)]
    BY <1>10
  <2> HIDE DEF v
  <2>2. \A i \in 1..n : flat[i] = v(i)
    BY <2>1
  <2> QED BY <2>2 DEF v
<1> DEFINE S == {i \in 0..n : i > 0 => flat[i] = h[i]}
<1>12. 0 \in S
  BY <1>1
<1>13. ASSUME NEW i \in 0..n - 1, i \in S PROVE i + 1 \in S
  <2>1. i + 1 \in 1..n /\ (i + 1) - 1 = i
    BY <1>1
  <2>2. h[i + 1] = h[i] \o seqs[i + 1]
    BY <1>8, <2>1
  <2>3. CASE i = 0
    <3>1. i + 1 = 1 /\ h[i] = << >>
      BY <1>7, <2>3
    <3>2. flat[i + 1] = seqs[i + 1] /\ h[i + 1] = << >> \o seqs[i + 1] /\ seqs[i + 1] \in Seq(A)
      BY <1>1, <1>11, <2>1, <2>2, <3>1
    <3>3. flat[i + 1] = h[i + 1]
      BY <3>2, ConcatEmptySeq
    <3>4. i + 1 \in 0..n
      BY <2>1
    <3> QED BY <3>3, <3>4
  <2>4. CASE i # 0
    <3>1. flat[i] = h[i]
      BY <1>13, <2>4
    <3>2. flat[i + 1] = IF i + 1 = 1 THEN seqs[i + 1] ELSE flat[(i + 1) - 1] \o seqs[i + 1]
      BY <1>11, <2>1
    <3>3. i + 1 # 1
      BY <2>4
    <3>4. flat[i + 1] = h[i + 1]
      BY <2>1, <2>2, <3>1, <3>2, <3>3
    <3>5. i + 1 \in 0..n
      BY <2>1
    <3> QED BY <3>4, <3>5
  <2> QED BY <2>3, <2>4
<1>14. n \in S
  <2> HIDE DEF S
  <2> QED BY <1>1, <1>12, <1>13, InductionUpTo, n \in 0..n
<1>15. FlattenSeq(seqs) = h[n]
  <2>1. CASE n = 0
    BY <1>3, <1>7, <2>1
  <2>2. CASE n # 0
    BY <1>1, <1>2, <1>14, <2>2
  <2> QED BY <2>1, <2>2
<1> QED BY <1>7, <1>8, <1>15 DEF n

\* Flattening distributes over concatenation.
LEMMA Associative ==
  \A A : \A x, y, z \in Seq(A) : (x \o y) \o z = x \o (y \o z)
<1> SUFFICES ASSUME NEW A, NEW x \in Seq(A), NEW y \in Seq(A), NEW z \in Seq(A)
             PROVE  (x \o y) \o z = x \o (y \o z)
  OBVIOUS
<1> QED BY ConcatAssociative

LEMMA FlattenConcat ==
  ASSUME NEW A, NEW a \in Seq(Seq(A)), NEW b \in Seq(Seq(A))
  PROVE  /\ FlattenSeq(a) \in Seq(A)
         /\ FlattenSeq(a \o b) = FlattenSeq(a) \o FlattenSeq(b)
<1> DEFINE m == Len(a)
           n == Len(b)
           c == a \o b
<1>1. m \in Nat /\ n \in Nat
  OBVIOUS
<1>2. c \in Seq(Seq(A)) /\ Len(c) = m + n
  BY ConcatProperties
<1>3. /\ \A i \in 1..m : c[i] = a[i] /\ a[i] \in Seq(A)
      /\ \A i \in 1..n : c[m + i] = b[i] /\ b[i] \in Seq(A)
  <2>1. \A i \in 1..m + n : c[i] = IF i <= m THEN a[i] ELSE b[i - m]
    BY ConcatProperties
  <2> HIDE DEF m, n
  <2>2. \A i \in 1..m : i \in 1..m + n /\ i <= m
    BY <1>1
  <2>3. \A i \in 1..n : m + i \in 1..m + n /\ ~(m + i <= m) /\ (m + i) - m = i
    BY <1>1
  <2> QED BY <2>1, <2>2, <2>3 DEF m, n
<1>4. PICK f \in [0..m -> Seq(A)] :
        /\ f[0] = << >> /\ FlattenSeq(a) = f[m] /\ \A i \in 1..m : f[i] = f[i - 1] \o a[i]
  BY FlattenCourse
<1>5. PICK g \in [0..n -> Seq(A)] :
        /\ g[0] = << >> /\ FlattenSeq(b) = g[n] /\ \A i \in 1..n : g[i] = g[i - 1] \o b[i]
  BY FlattenCourse
<1> HIDE DEF c
<1>6. PICK h \in [0..m + n -> Seq(A)] :
        /\ h[0] = << >> /\ FlattenSeq(c) = h[m + n]
        /\ \A i \in 1..m + n : h[i] = h[i - 1] \o c[i]
  <2>1. \E h \in [0..Len(c) -> Seq(A)] :
           /\ h[0] = << >> /\ FlattenSeq(c) = h[Len(c)]
           /\ \A i \in 1..Len(c) : h[i] = h[i - 1] \o c[i]
    BY <1>2, FlattenCourse
  <2> HIDE DEF m, n
  <2> QED BY <1>2, <2>1
<1> HIDE DEF m, n
<1>7. f[m] \in Seq(A)
  BY <1>1
<1> DEFINE S == {i \in 0..m : h[i] = f[i]}
           T == {i \in 0..n : h[m + i] = f[m] \o g[i]}
<1>8. 0 \in S
  BY <1>1, <1>4, <1>6
<1>9. ASSUME NEW i \in 0..m - 1, i \in S PROVE i + 1 \in S
  <2>1. i + 1 \in 1..m /\ i + 1 \in 1..m + n /\ (i + 1) - 1 = i /\ i + 1 \in 0..m
    BY <1>1
  <2>2. h[i + 1] = h[i] \o c[i + 1] /\ f[i + 1] = f[i] \o a[i + 1]
    BY <1>4, <1>6, <2>1
  <2> QED BY <1>3, <1>9, <2>1, <2>2
<1>10. m \in S
  <2> HIDE DEF S
  <2> QED BY <1>1, <1>8, <1>9, InductionUpTo, m \in 0..m
<1>11. 0 \in T
  <2>1. f[m] \o << >> = f[m] /\ m + 0 = m /\ 0 \in 0..n
    BY <1>1, <1>7, ConcatEmptySeq
  <2> QED BY <1>5, <1>10, <2>1
<1>12. ASSUME NEW i \in 0..n - 1, i \in T PROVE i + 1 \in T
  <2>1. /\ i + 1 \in 1..n /\ m + (i + 1) \in 1..m + n /\ (i + 1) - 1 = i /\ i + 1 \in 0..n
        /\ (m + (i + 1)) - 1 = m + i /\ i \in 0..n
    BY <1>1
  <2>2. h[m + (i + 1)] = h[m + i] \o c[m + (i + 1)] /\ g[i + 1] = g[i] \o b[i + 1]
    BY <1>5, <1>6, <2>1
  <2>3. h[m + i] = f[m] \o g[i]
    BY <1>12
  <2>4. (f[m] \o g[i]) \o b[i + 1] = f[m] \o (g[i] \o b[i + 1])
    <3>1. f[m] \in Seq(A) /\ g[i] \in Seq(A) /\ b[i + 1] \in Seq(A)
      BY <1>3, <1>7, <2>1
    <3> DEFINE x == f[m]
               y == g[i]
               z == b[i + 1]
    <3> HIDE DEF x, y, z
    <3>2. x \in Seq(A) /\ y \in Seq(A) /\ z \in Seq(A)
      BY <3>1 DEF x, y, z
    <3>3. (x \o y) \o z = x \o (y \o z)
      BY <3>2, Associative, SMTT(30)
    <3> QED BY <3>3 DEF x, y, z
  <2> QED BY <1>3, <2>1, <2>2, <2>3, <2>4
<1>13. n \in T
  <2> HIDE DEF T
  <2> QED BY <1>1, <1>11, <1>12, InductionUpTo, n \in 0..n
<1> QED BY <1>4, <1>5, <1>6, <1>7, <1>13 DEF c

LEMMA FlattenOne ==
  ASSUME NEW A, NEW a \in Seq(Seq(A)), NEW e \in Seq(A)
  PROVE  /\ FlattenSeq(<< >>) = << >> /\ FlattenSeq(<<e>>) = e
         /\ FlattenSeq(Append(a, e)) = FlattenSeq(a) \o e
<1>1. FlattenSeq(<< >>) = << >>
  BY EmptySeq DEF FlattenSeq
<1>2. <<e>> \in Seq(Seq(A)) /\ Len(<<e>>) = 1 /\ <<e>>[1] = e
  OBVIOUS
<1>3. FlattenSeq(<<e>>) = e
  <2>1. PICK f \in [0..1 -> Seq(A)] :
          /\ f[0] = << >> /\ FlattenSeq(<<e>>) = f[1] /\ \A i \in 1..1 : f[i] = f[i - 1] \o <<e>>[i]
    BY <1>2, FlattenCourse
  <2>2. f[1] = f[1 - 1] \o <<e>>[1] /\ 1 - 1 = 0
    BY <2>1
  <2>3. f[1] = << >> \o e
    BY <1>2, <2>1, <2>2
  <2> QED BY <2>1, <2>3, ConcatEmptySeq
<1>4. Append(a, e) = a \o <<e>>
  BY AppendIsConcat
<1> QED BY <1>1, <1>2, <1>3, <1>4, FlattenConcat

-----------------------------------------------------------------------------
\* The loops of the segmentation.
Pairs == Nat \X Nat

LEMMA AddWindowType ==
  ASSUME NEW runs \in Seq(Pairs), NEW w \in Nat \ {0}, NEW talk
  PROVE  AddWindow(runs, w, talk) \in Seq(Pairs)
<1>1. <<w - 1, w>> \in Pairs
  BY DEF Pairs
<1>2. ASSUME runs # << >> PROVE [runs EXCEPT ![Len(runs)] = <<@[1], w>>] \in Seq(Pairs)
  <2>1. runs[Len(runs)] \in Pairs
    BY <1>2
  <2>2. <<runs[Len(runs)][1], w>> \in Pairs
    BY <2>1 DEF Pairs
  <2> QED BY <1>2, <2>2, LastReplaced
<1> QED BY <1>1, <1>2, OneMore DEF AddWindow

\* The loops compute what their recursive functions say, turn by turn.
LEMMA RunsCourse ==
  ASSUME NEW windows \in Nat, NEW talk
  PROVE  \E f \in [0..windows -> Seq(Pairs)] :
           /\ f[0] = << >> /\ Runs(windows, talk) = f[windows]
           /\ \A i \in 1..windows : f[i] = AddWindow(f[i - 1], i, talk)
<1> DEFINE n == windows
           F == [i \in 1..n |-> [x \in Seq(Pairs) |-> AddWindow(x, i, talk)]]
           after[i \in 0..n] == IF i = 0 THEN << >> ELSE AddWindow(after[i - 1], i, talk)
<1>1. n \in Nat /\ << >> \in Seq(Pairs)
  OBVIOUS
<1>2. Runs(windows, talk) = after[windows]
  BY DEF Runs
<1>3. after = CHOOSE g : g = [i \in 0..n |-> IF i = 0 THEN << >> ELSE AddWindow(g[i - 1], i, talk)]
  OBVIOUS
<1> HIDE DEF n, after
<1>4. F \in Turns(Seq(Pairs), n) /\ \A i \in 1..n, x \in Seq(Pairs) : F[i][x] = AddWindow(x, i, talk)
  BY <1>1, AddWindowType DEF Turns
<1> HIDE DEF F
<1>5. PICK h : h \in Courses(Seq(Pairs), n, << >>, F)
  BY <1>1, <1>4, Recursion
<1>6. h \in [0..n -> Seq(Pairs)] /\ h[0] = << >> /\ \A i \in 1..n : h[i] = F[i][h[i - 1]]
  BY <1>5 DEF Courses
<1>7. ASSUME NEW i \in 1..n PROVE h[i] = AddWindow(h[i - 1], i, talk)
  <2>1. i - 1 \in 0..n
    BY <1>1
  <2>2. h[i - 1] \in Seq(Pairs)
    BY <1>6, <2>1
  <2> QED BY <1>4, <1>6, <2>2
<1>8. h = [i \in 0..n |-> IF i = 0 THEN << >> ELSE AddWindow(h[i - 1], i, talk)]
  BY <1>1, <1>6, <1>7
<1>9. after = [i \in 0..n |-> IF i = 0 THEN << >> ELSE AddWindow(after[i - 1], i, talk)]
  BY <1>3, <1>8
<1>10. /\ after = [i \in 0..n |-> after[i]] /\ after[0] = << >>
       /\ \A i \in 1..n : after[i] = AddWindow(after[i - 1], i, talk)
  BY <1>1, <1>9
<1>11. \A i \in 1..n : after[i - 1] \in Seq(Pairs) => after[i] = F[i][after[i - 1]]
  BY <1>4, <1>10
<1>12. after \in Courses(Seq(Pairs), n, << >>, F)
  BY <1>1, <1>4, <1>10, <1>11, CourseUnique
<1>13. after \in [0..n -> Seq(Pairs)]
  BY <1>12 DEF Courses
<1> QED BY <1>2, <1>10, <1>13 DEF n

LEMMA MergeRunType ==
  ASSUME NEW merged \in Seq(Pairs), NEW run \in Pairs, NEW least
  PROVE  MergeRun(merged, run, least) \in Seq(Pairs)
<1>1. ASSUME merged # << >> PROVE [merged EXCEPT ![Len(merged)] = <<@[1], run[2]>>] \in Seq(Pairs)
  <2>1. merged[Len(merged)] \in Pairs
    BY <1>1
  <2>2. <<merged[Len(merged)][1], run[2]>> \in Pairs
    BY <2>1 DEF Pairs
  <2> QED BY <1>1, <2>2, LastReplaced
<1> QED BY <1>1, OneMore DEF MergeRun

LEMMA MergedCourse ==
  ASSUME NEW runs \in Seq(Pairs), NEW least
  PROVE  \E f \in [0..Len(runs) -> Seq(Pairs)] :
           /\ f[0] = << >> /\ Merged(runs, least) = f[Len(runs)]
           /\ \A i \in 1..Len(runs) : f[i] = MergeRun(f[i - 1], runs[i], least)
<1> DEFINE n == Len(runs)
           F == [i \in 1..n |-> [x \in Seq(Pairs) |-> MergeRun(x, runs[i], least)]]
           after[i \in 0..n] == IF i = 0 THEN << >> ELSE MergeRun(after[i - 1], runs[i], least)
<1>1. n \in Nat /\ << >> \in Seq(Pairs)
  OBVIOUS
<1>2. Merged(runs, least) = after[Len(runs)]
  BY DEF Merged
<1>3. after = CHOOSE g : g = [i \in 0..n |-> IF i = 0 THEN << >> ELSE MergeRun(g[i - 1], runs[i], least)]
  OBVIOUS
<1> HIDE DEF n, after
<1>4. F \in Turns(Seq(Pairs), n) /\ \A i \in 1..n, x \in Seq(Pairs) : F[i][x] = MergeRun(x, runs[i], least)
  BY <1>1, MergeRunType DEF Turns, n
<1> HIDE DEF F
<1>5. PICK h : h \in Courses(Seq(Pairs), n, << >>, F)
  BY <1>1, <1>4, Recursion
<1>6. h \in [0..n -> Seq(Pairs)] /\ h[0] = << >> /\ \A i \in 1..n : h[i] = F[i][h[i - 1]]
  BY <1>5 DEF Courses
<1>7. ASSUME NEW i \in 1..n PROVE h[i] = MergeRun(h[i - 1], runs[i], least)
  <2>1. i - 1 \in 0..n
    BY <1>1
  <2>2. h[i - 1] \in Seq(Pairs)
    BY <1>6, <2>1
  <2> QED BY <1>4, <1>6, <2>2
<1>8. h = [i \in 0..n |-> IF i = 0 THEN << >> ELSE MergeRun(h[i - 1], runs[i], least)]
  BY <1>1, <1>6, <1>7
<1>9. after = [i \in 0..n |-> IF i = 0 THEN << >> ELSE MergeRun(after[i - 1], runs[i], least)]
  BY <1>3, <1>8
<1>10. /\ after = [i \in 0..n |-> after[i]] /\ after[0] = << >>
       /\ \A i \in 1..n : after[i] = MergeRun(after[i - 1], runs[i], least)
  BY <1>1, <1>9
<1>11. \A i \in 1..n : after[i - 1] \in Seq(Pairs) => after[i] = F[i][after[i - 1]]
  BY <1>4, <1>10
<1>12. after \in Courses(Seq(Pairs), n, << >>, F)
  BY <1>1, <1>4, <1>10, <1>11, CourseUnique
<1>13. after \in [0..n -> Seq(Pairs)]
  BY <1>12 DEF Courses
<1> QED BY <1>2, <1>10, <1>13 DEF n

Keep(kept, run, s) == IF LongEnough(run, s) THEN Append(kept, run) ELSE kept

LEMMA KeptCourse ==
  ASSUME NEW runs \in Seq(Pairs), NEW s
  PROVE  \E f \in [0..Len(runs) -> Seq(Pairs)] :
           /\ f[0] = << >> /\ Kept(runs, s) = f[Len(runs)]
           /\ \A i \in 1..Len(runs) : f[i] = Keep(f[i - 1], runs[i], s)
<1> DEFINE n == Len(runs)
           F == [i \in 1..n |-> [x \in Seq(Pairs) |-> Keep(x, runs[i], s)]]
           after[i \in 0..n] == IF i = 0 THEN << >> ELSE Keep(after[i - 1], runs[i], s)
<1>1. n \in Nat /\ << >> \in Seq(Pairs)
  OBVIOUS
<1>2. Kept(runs, s) = after[Len(runs)]
  BY DEF Kept, Keep
<1>3. after = CHOOSE g : g = [i \in 0..n |-> IF i = 0 THEN << >> ELSE Keep(g[i - 1], runs[i], s)]
  OBVIOUS
<1> HIDE DEF n, after
<1>4. F \in Turns(Seq(Pairs), n) /\ \A i \in 1..n, x \in Seq(Pairs) : F[i][x] = Keep(x, runs[i], s)
  BY <1>1, OneMore DEF Turns, n, Keep
<1> HIDE DEF F
<1>5. PICK h : h \in Courses(Seq(Pairs), n, << >>, F)
  BY <1>1, <1>4, Recursion
<1>6. h \in [0..n -> Seq(Pairs)] /\ h[0] = << >> /\ \A i \in 1..n : h[i] = F[i][h[i - 1]]
  BY <1>5 DEF Courses
<1>7. ASSUME NEW i \in 1..n PROVE h[i] = Keep(h[i - 1], runs[i], s)
  <2>1. i - 1 \in 0..n
    BY <1>1
  <2>2. h[i - 1] \in Seq(Pairs)
    BY <1>6, <2>1
  <2> QED BY <1>4, <1>6, <2>2
<1>8. h = [i \in 0..n |-> IF i = 0 THEN << >> ELSE Keep(h[i - 1], runs[i], s)]
  BY <1>1, <1>6, <1>7
<1>9. after = [i \in 0..n |-> IF i = 0 THEN << >> ELSE Keep(after[i - 1], runs[i], s)]
  BY <1>3, <1>8
<1>10. /\ after = [i \in 0..n |-> after[i]] /\ after[0] = << >>
       /\ \A i \in 1..n : after[i] = Keep(after[i - 1], runs[i], s)
  BY <1>1, <1>9
<1>11. \A i \in 1..n : after[i - 1] \in Seq(Pairs) => after[i] = F[i][after[i - 1]]
  BY <1>4, <1>10
<1>12. after \in Courses(Seq(Pairs), n, << >>, F)
  BY <1>1, <1>4, <1>10, <1>11, CourseUnique
<1>13. after \in [0..n -> Seq(Pairs)]
  BY <1>12 DEF Courses
<1> QED BY <1>2, <1>10, <1>13 DEF n

-----------------------------------------------------------------------------
\* What the loops have found after some turns.

\* Runs in order, with at least one window between two.
Ordered(runs) == \A i, j \in 1..Len(runs) : i < j => runs[i][2] < runs[j][1]

\* The windows of talk up to w, each in a run.
RunsUpTo(runs, w, talk) ==
  /\ runs \in Seq(Pairs) /\ Ordered(runs)
  /\ \A i \in 1..Len(runs) : /\ runs[i][1] < runs[i][2] /\ runs[i][2] <= w
                             /\ \A x \in Nat : runs[i][1] < x /\ x <= runs[i][2] => x \in talk
  /\ \A x \in talk : x <= w => \E i \in 1..Len(runs) : runs[i][1] < x /\ x <= runs[i][2]

LEMMA AddWindowKeeps ==
  ASSUME NEW talk \in SUBSET (Nat \ {0}), NEW w \in Nat \ {0}, NEW runs, RunsUpTo(runs, w - 1, talk)
  PROVE  RunsUpTo(AddWindow(runs, w, talk), w, talk)
<1> DEFINE n == Len(runs)
<1>1. runs \in Seq(Pairs) /\ n \in Nat
  BY DEF RunsUpTo
<1>2. \A i \in 1..n : runs[i][1] \in Nat /\ runs[i][2] \in Nat /\ runs[i] \in Pairs
  BY <1>1 DEF Pairs
<1>3. \A i \in 1..n : /\ runs[i][1] < runs[i][2] /\ runs[i][2] <= w - 1
                      /\ \A x \in Nat : runs[i][1] < x /\ x <= runs[i][2] => x \in talk
  BY DEF RunsUpTo
<1>4. \A i, j \in 1..n : i < j => runs[i][2] < runs[j][1]
  BY DEF RunsUpTo, Ordered
<1>5. \A x \in talk : x <= w - 1 => \E i \in 1..n : runs[i][1] < x /\ x <= runs[i][2]
  BY DEF RunsUpTo
<1>6. CASE w \notin talk
  <2>1. AddWindow(runs, w, talk) = runs
    BY <1>6 DEF AddWindow
  <2>2. \A i \in 1..n : runs[i][2] <= w
    BY <1>2, <1>3
  <2>3. \A x \in talk : x <= w => x <= w - 1
    BY <1>6
  <2> QED BY <1>1, <1>3, <1>4, <1>5, <2>1, <2>2, <2>3 DEF RunsUpTo, Ordered
<1>7. CASE w \in talk /\ runs # << >> /\ Last(runs)[2] = w - 1
  <2> DEFINE e == <<runs[n][1], w>>
             t == [runs EXCEPT ![n] = e]
  <2>1. AddWindow(runs, w, talk) = t
    BY <1>7 DEF AddWindow
  <2>2. n \in 1..n /\ e \in Pairs /\ e[1] = runs[n][1] /\ e[2] = w /\ runs[n][2] = w - 1
    BY <1>1, <1>2, <1>7 DEF Pairs, Last
  <2>3. t \in Seq(Pairs) /\ Len(t) = n /\ t[n] = e /\ \A i \in 1..n - 1 : t[i] = runs[i]
    BY <1>1, <1>7, <2>2, LastReplaced
  <2> HIDE DEF t, e, n
  <2>4. ASSUME NEW i \in 1..n
        PROVE  t[i][1] = runs[i][1] /\ t[i][2] = IF i = n THEN w ELSE runs[i][2]
    BY <1>1, <2>2, <2>3
  <2>5. ASSUME NEW i \in 1..n, NEW j \in 1..n, i < j
        PROVE  t[i][2] < t[j][1]
    <3>1. i # n
      BY <1>1, <2>5
    <3> QED BY <1>4, <2>4, <2>5, <3>1
  <2>6. ASSUME NEW i \in 1..n
        PROVE  t[i][1] < t[i][2] /\ t[i][2] <= w
    BY <1>2, <1>3, <2>4
  <2>7. ASSUME NEW i \in 1..n, NEW x \in Nat, t[i][1] < x, x <= t[i][2]
        PROVE  x \in talk
    BY <1>2, <1>3, <1>7, <2>2, <2>4, <2>7
  <2>8. ASSUME NEW x \in talk, x <= w
        PROVE  \E i \in 1..n : t[i][1] < x /\ x <= t[i][2]
    <3>1. CASE x = w
      <4>1. t[n][1] < x /\ x <= t[n][2]
        BY <1>2, <1>3, <2>2, <2>4, <3>1
      <4> QED BY <2>2, <4>1
    <3>2. CASE x # w
      <4>1. PICK i \in 1..n : runs[i][1] < x /\ x <= runs[i][2]
        BY <1>5, <2>8, <3>2
      <4>2. t[i][1] < x /\ x <= t[i][2]
        BY <1>2, <2>4, <2>8, <4>1
      <4> QED BY <4>2
    <3> QED BY <3>1, <3>2
  <2> QED BY <2>1, <2>3, <2>5, <2>6, <2>7, <2>8 DEF RunsUpTo, Ordered
<1>8. CASE w \in talk /\ ~(runs # << >> /\ Last(runs)[2] = w - 1)
  <2> DEFINE e == <<w - 1, w>>
             t == Append(runs, e)
  <2>1. AddWindow(runs, w, talk) = t
    BY <1>8 DEF AddWindow
  <2>2. e \in Pairs /\ e[1] = w - 1 /\ e[2] = w /\ (n > 0 => runs[n][2] # w - 1)
    BY <1>1, <1>8 DEF Pairs, Last
  <2>3. t \in Seq(Pairs) /\ Len(t) = n + 1 /\ t[n + 1] = e /\ \A i \in 1..n : t[i] = runs[i]
    BY <1>1, <2>2, OneMore
  <2> HIDE DEF t, e, n
  <2>4. ASSUME NEW i \in 1..n PROVE runs[i][2] < w - 1
    <3>1. CASE i = n
      BY <1>2, <1>3, <2>2, <3>1
    <3>2. CASE i < n
      <4>1. n \in 1..n /\ runs[i][2] < runs[n][1] /\ runs[n][1] < runs[n][2] /\ runs[n][2] <= w - 1
        BY <1>1, <1>3, <1>4, <3>2
      <4> QED BY <1>2, <4>1
    <3> QED BY <1>1, <3>1, <3>2
  <2>5. ASSUME NEW i \in 1..n + 1, NEW j \in 1..n + 1, i < j
        PROVE  t[i][2] < t[j][1]
    <3>1. i \in 1..n /\ t[i] = runs[i] /\ (j \in 1..n \/ j = n + 1)
      BY <1>1, <2>3, <2>5
    <3> QED BY <1>4, <2>2, <2>3, <2>4, <2>5, <3>1
  <2>6. ASSUME NEW i \in 1..n + 1
        PROVE  t[i][1] < t[i][2] /\ t[i][2] <= w
    <3>1. i \in 1..n \/ i = n + 1
      BY <1>1
    <3> QED BY <1>2, <1>3, <2>2, <2>3, <3>1
  <2>7. ASSUME NEW i \in 1..n + 1, NEW x \in Nat, t[i][1] < x, x <= t[i][2]
        PROVE  x \in talk
    <3>1. i \in 1..n \/ i = n + 1
      BY <1>1
    <3> QED BY <1>2, <1>3, <1>8, <2>2, <2>3, <2>7, <3>1
  <2>8. ASSUME NEW x \in talk, x <= w
        PROVE  \E i \in 1..n + 1 : t[i][1] < x /\ x <= t[i][2]
    <3>1. CASE x = w
      <4>1. n + 1 \in 1..n + 1 /\ t[n + 1][1] < x /\ x <= t[n + 1][2]
        BY <1>1, <2>2, <2>3, <3>1
      <4> QED BY <4>1
    <3>2. CASE x # w
      <4>1. PICK i \in 1..n : runs[i][1] < x /\ x <= runs[i][2]
        BY <1>5, <2>8, <3>2
      <4>2. i \in 1..n + 1 /\ t[i][1] < x /\ x <= t[i][2]
        BY <1>1, <2>3, <4>1
      <4> QED BY <4>2
    <3> QED BY <3>1, <3>2
  <2> QED BY <2>1, <2>3, <2>5, <2>6, <2>7, <2>8 DEF RunsUpTo, Ordered
<1> QED BY <1>6, <1>7, <1>8

\* The first loop of assemble_segments marks the windows of talk.
LEMMA RunsFound ==
  ASSUME NEW windows \in Nat, NEW talk \in SUBSET (1..windows)
  PROVE  RunsUpTo(Runs(windows, talk), windows, talk)
<1>1. PICK f \in [0..windows -> Seq(Pairs)] :
        /\ f[0] = << >> /\ Runs(windows, talk) = f[windows]
        /\ \A i \in 1..windows : f[i] = AddWindow(f[i - 1], i, talk)
  BY RunsCourse
<1> DEFINE S == {w \in 0..windows : RunsUpTo(f[w], w, talk)}
<1>2. 0 \in S
  <2>1. f[0] \in Seq(Pairs) /\ Len(f[0]) = 0 /\ 1..0 = {}
    BY <1>1
  <2>2. \A x \in talk : ~(x <= 0)
    OBVIOUS
  <2> QED BY <2>1, <2>2 DEF RunsUpTo, Ordered
<1>3. ASSUME NEW w \in 0..windows - 1, w \in S PROVE w + 1 \in S
  <2>1. RunsUpTo(f[w], (w + 1) - 1, talk) /\ w + 1 \in Nat \ {0} /\ talk \in SUBSET (Nat \ {0})
    BY <1>3
  <2>2. RunsUpTo(AddWindow(f[w], w + 1, talk), w + 1, talk)
    BY <2>1, AddWindowKeeps
  <2>3. w + 1 \in 1..windows /\ f[w + 1] = AddWindow(f[w], w + 1, talk)
    BY <1>1
  <2> QED BY <2>2, <2>3
<1>4. windows \in S
  <2> HIDE DEF S
  <2> QED BY <1>2, <1>3, InductionUpTo, windows \in 0..windows
<1> QED BY <1>1, <1>4

\* Groups of talk with no long pause inside and long pauses between, after k runs.
\* The silence before the first and between two is silence indeed.
MergedUpTo(merged, k, runs, talk, pause) ==
  LET n == Len(merged) IN
  /\ merged \in Seq(Pairs)
  /\ k = 0 <=> n = 0
  /\ k > 0 => merged[n][2] = runs[k][2]
  /\ \A i \in 1..n : /\ merged[i][1] < merged[i][2]
                     /\ merged[i][1] + 1 \in talk /\ merged[i][2] \in talk
                     /\ \A w \in Nat : merged[i][1] < w /\ w <= merged[i][2] - pause =>
                          \E x \in talk : w <= x /\ x <= w + pause - 1
  /\ \A i, j \in 1..n : i < j => merged[i][2] + pause <= merged[j][1]
  /\ \A x \in talk : k > 0 /\ x <= runs[k][2] => \E i \in 1..n : merged[i][1] < x /\ x <= merged[i][2]

LEMMA MergeRunKeeps ==
  ASSUME NEW windows \in Nat, NEW talk \in SUBSET (1..windows), NEW runs, RunsUpTo(runs, windows, talk),
         NEW least \in Nat, NEW pause \in Nat, pause = IF least >= 1 THEN least ELSE 1,
         NEW k \in 0..Len(runs) - 1, NEW merged, MergedUpTo(merged, k, runs, talk, pause)
  PROVE  MergedUpTo(MergeRun(merged, runs[k + 1], least), k + 1, runs, talk, pause)
<1> DEFINE n == Len(merged)
           run == runs[k + 1]
<1>1. merged \in Seq(Pairs) /\ n \in Nat /\ (k = 0 <=> n = 0) /\ (k > 0 => merged[n][2] = runs[k][2])
  BY DEF MergedUpTo
<1>2. \A i \in 1..n : merged[i][1] \in Nat /\ merged[i][2] \in Nat /\ merged[i] \in Pairs
  BY <1>1 DEF Pairs
<1>3. \A i \in 1..n : merged[i][1] < merged[i][2] /\ merged[i][1] + 1 \in talk /\ merged[i][2] \in talk
  BY DEF MergedUpTo
<1>4. \A i \in 1..n, w \in Nat : merged[i][1] < w /\ w <= merged[i][2] - pause =>
        \E x \in talk : w <= x /\ x <= w + pause - 1
  BY DEF MergedUpTo
<1>5. \A i, j \in 1..n : i < j => merged[i][2] + pause <= merged[j][1]
  BY DEF MergedUpTo
<1>6. \A x \in talk : k > 0 /\ x <= runs[k][2] => \E i \in 1..n : merged[i][1] < x /\ x <= merged[i][2]
  BY DEF MergedUpTo
<1>7. runs \in Seq(Pairs) /\ Len(runs) \in Nat /\ k + 1 \in 1..Len(runs) /\ k \in Nat
  BY DEF RunsUpTo
<1>8. run \in Pairs /\ run[1] \in Nat /\ run[2] \in Nat
  BY <1>7 DEF Pairs
<1>9. run[1] < run[2] /\ \A x \in Nat : run[1] < x /\ x <= run[2] => x \in talk
  BY <1>7 DEF RunsUpTo
<1>10. ASSUME k > 0 PROVE runs[k][2] \in Nat /\ runs[k][2] < run[1]
  <2>1. k \in 1..Len(runs) /\ k < k + 1
    BY <1>7, <1>10
  <2>2. runs[k] \in Pairs
    BY <1>7, <2>1
  <2> QED BY <1>7, <2>1, <2>2 DEF RunsUpTo, Ordered, Pairs
\* What talk there is up to the end of the run is in it or before.
<1>11. ASSUME NEW x \in talk, x <= run[2], ~(run[1] < x)
       PROVE  k > 0 /\ x <= runs[k][2]
  <2>1. x \in Nat /\ x <= windows
    OBVIOUS
  <2>2. PICK i \in 1..Len(runs) : runs[i][1] < x /\ x <= runs[i][2]
    BY <2>1 DEF RunsUpTo
  <2>3. runs[i][1] \in Nat /\ runs[i][2] \in Nat
    BY <1>7 DEF Pairs
  <2>4. ~(k + 1 < i)
    <3>1. k + 1 < i => run[2] < runs[i][1]
      BY <1>7 DEF RunsUpTo, Ordered
    <3> HIDE DEF run
    <3> QED BY <1>8, <1>11, <2>1, <2>2, <2>3, <3>1
  <2>5. i # k + 1
    BY <1>11, <2>2
  <2>6. i <= k /\ k > 0 /\ k \in 1..Len(runs)
    BY <1>7, <2>4, <2>5
  <2>7. CASE i = k
    BY <2>2, <2>6, <2>7
  <2>8. CASE i < k
    <3>1. runs[i][2] < runs[k][1] /\ runs[k][1] < runs[k][2] /\ runs[k] \in Pairs
      BY <1>7, <2>6, <2>8 DEF RunsUpTo, Ordered
    <3>2. runs[k][1] \in Nat /\ runs[k][2] \in Nat
      BY <3>1 DEF Pairs
    <3> QED BY <2>1, <2>2, <2>3, <2>6, <3>1, <3>2
  <2> QED BY <2>6, <2>7, <2>8
<1>12. pause >= 1 /\ talk \in SUBSET Nat
  OBVIOUS
<1> HIDE DEF run
<1>13. CASE merged # << >> /\ run[1] - Last(merged)[2] < least
  <2> DEFINE e == <<merged[n][1], run[2]>>
             t == [merged EXCEPT ![n] = e]
  <2>1. MergeRun(merged, run, least) = t
    BY <1>13 DEF MergeRun
  <2>2. /\ n \in 1..n /\ e \in Pairs /\ e[1] = merged[n][1] /\ e[2] = run[2]
        /\ run[1] - merged[n][2] < least
    BY <1>1, <1>2, <1>8, <1>13 DEF Pairs, Last
  <2>3. t \in Seq(Pairs) /\ Len(t) = n /\ t[n] = e /\ \A i \in 1..n - 1 : t[i] = merged[i]
    BY <1>1, <1>13, <2>2, LastReplaced
  <2> HIDE DEF t, e, n
  <2>4. ASSUME NEW i \in 1..n
        PROVE  t[i][1] = merged[i][1] /\ t[i][2] = IF i = n THEN run[2] ELSE merged[i][2]
    BY <1>1, <2>2, <2>3
  <2>5. /\ merged[n][1] \in Nat /\ merged[n][2] \in Nat /\ merged[n][1] < merged[n][2]
        /\ merged[n][2] < run[1] /\ least > 1 /\ pause = least
        /\ t[n][1] = merged[n][1] /\ t[n][2] = run[2]
    BY <1>1, <1>2, <1>3, <1>7, <1>8, <1>10, <2>2, <2>3
  <2>6. ASSUME NEW i \in 1..n
        PROVE  t[i][1] < t[i][2] /\ t[i][1] + 1 \in talk /\ t[i][2] \in talk
    <3>1. CASE i = n
      <4>1. merged[n][1] + 1 \in talk /\ run[2] \in talk
        BY <1>3, <1>8, <1>9, <2>2
      <4> DEFINE a == merged[n][1]
                 b == merged[n][2]
                 c == run[1]
                 d == run[2]
      <4>2. a \in Nat /\ b \in Nat /\ c \in Nat /\ d \in Nat /\ a < b /\ b < c /\ c < d
        BY <1>8, <1>9, <2>5
      <4>3. t[i][1] = a /\ t[i][2] = d
        BY <2>5, <3>1
      <4>4. a < d
        <5> HIDE DEF a, b, c, d
        <5> QED BY <4>2
      <4> QED BY <4>1, <4>3, <4>4
    <3>2. CASE i # n
      BY <1>3, <2>4, <3>2
    <3> QED BY <3>1, <3>2
  <2>7. ASSUME NEW i \in 1..n, NEW w \in Nat, t[i][1] < w, w <= t[i][2] - pause
        PROVE  \E x \in talk : w <= x /\ x <= w + pause - 1
    <3>1. CASE i # n
      BY <1>4, <2>4, <2>7, <3>1
    <3>2. CASE i = n /\ w <= merged[n][2] - pause
      BY <1>4, <2>2, <2>4, <2>7, <3>2
    <3>3. CASE i = n /\ merged[n][2] - pause < w /\ w <= merged[n][2]
      <4>1. merged[n][2] \in talk /\ w <= merged[n][2] /\ merged[n][2] <= w + pause - 1
        BY <1>2, <1>3, <1>12, <2>2, <3>3
      <4> QED BY <4>1
    <3>4. CASE i = n /\ merged[n][2] < w /\ w <= run[1]
      <4>1. run[1] + 1 \in talk
        BY <1>8, <1>9
      <4>2. w <= run[1] + 1 /\ run[1] + 1 <= w + pause - 1
        <5> DEFINE b == merged[n][2]
                   c == run[1]
        <5>1. b \in Nat /\ c \in Nat /\ pause \in Nat /\ c - b < pause /\ b < w /\ w <= c
          BY <1>8, <2>2, <2>5, <3>4
        <5> HIDE DEF b, c
        <5>2. w <= c + 1 /\ c + 1 <= w + pause - 1
          BY <5>1
        <5> QED BY <5>2 DEF c
      <4> QED BY <4>1, <4>2
    <3>5. CASE i = n /\ run[1] < w
      <4>1. w \in talk /\ w <= w /\ w <= w + pause - 1
        BY <1>8, <1>9, <1>12, <2>4, <2>7, <3>5
      <4> QED BY <4>1
    <3> QED BY <1>8, <2>5, <3>1, <3>2, <3>3, <3>4, <3>5
  <2>8. ASSUME NEW i \in 1..n, NEW j \in 1..n, i < j
        PROVE  t[i][2] + pause <= t[j][1]
    <3>1. i # n
      BY <1>1, <2>8
    <3> QED BY <1>5, <2>4, <2>8, <3>1
  <2>9. ASSUME NEW x \in talk, x <= run[2]
        PROVE  \E i \in 1..n : t[i][1] < x /\ x <= t[i][2]
    <3>1. CASE run[1] < x
      <4>1. t[n][1] < x /\ x <= t[n][2]
        BY <1>8, <1>12, <2>5, <2>9, <3>1
      <4> QED BY <2>2, <4>1
    <3>2. CASE ~(run[1] < x)
      <4>1. PICK i \in 1..n : merged[i][1] < x /\ x <= merged[i][2]
        BY <1>6, <1>11, <2>9, <3>2
      <4>2. t[i][1] < x /\ x <= t[i][2]
        BY <1>8, <1>12, <2>4, <2>5, <2>9, <4>1
      <4> QED BY <4>2
    <3> QED BY <3>1, <3>2
  <2>10. k + 1 # 0 /\ n # 0 /\ t[n][2] = run[2]
    BY <1>7, <2>2, <2>4
  <2> QED BY <2>1, <2>3, <2>6, <2>7, <2>8, <2>9, <2>10 DEF MergedUpTo, run
<1>14. CASE ~(merged # << >> /\ run[1] - Last(merged)[2] < least)
  <2> DEFINE t == Append(merged, run)
  <2>1. MergeRun(merged, run, least) = t
    BY <1>14 DEF MergeRun
  <2>2. n > 0 => run[1] - merged[n][2] >= least
    BY <1>1, <1>2, <1>8, <1>14 DEF Last
  <2>3. t \in Seq(Pairs) /\ Len(t) = n + 1 /\ t[n + 1] = run /\ \A i \in 1..n : t[i] = merged[i]
    BY <1>1, <1>8, OneMore
  <2> HIDE DEF t, n
  <2>4. ASSUME NEW i \in 1..n + 1
        PROVE  (i \in 1..n /\ t[i] = merged[i]) \/ (i = n + 1 /\ t[i] = run)
    BY <1>1, <2>3
  <2>5. n > 0 => merged[n][2] + pause <= run[1]
    BY <1>1, <1>2, <1>7, <1>8, <1>10, <2>2
  <2>6. ASSUME NEW i \in 1..n + 1
        PROVE  t[i][1] < t[i][2] /\ t[i][1] + 1 \in talk /\ t[i][2] \in talk
    BY <1>3, <1>8, <1>9, <2>4
  <2>7. ASSUME NEW i \in 1..n + 1, NEW w \in Nat, t[i][1] < w, w <= t[i][2] - pause
        PROVE  \E x \in talk : w <= x /\ x <= w + pause - 1
    <3>1. CASE i \in 1..n
      BY <1>4, <2>3, <2>7, <3>1
    <3>2. CASE i = n + 1
      <4>1. w \in talk /\ w <= w /\ w <= w + pause - 1
        BY <1>8, <1>9, <1>12, <2>3, <2>7, <3>2
      <4> QED BY <4>1
    <3> QED BY <2>4, <3>1, <3>2
  <2>8. ASSUME NEW i \in 1..n + 1, NEW j \in 1..n + 1, i < j
        PROVE  t[i][2] + pause <= t[j][1]
    <3>1. i \in 1..n /\ t[i] = merged[i] /\ n \in 1..n
      BY <1>1, <2>3, <2>8
    <3>2. CASE j \in 1..n
      BY <1>5, <2>3, <2>8, <3>1, <3>2
    <3>3. CASE j = n + 1
      <4>1. CASE i = n
        BY <2>3, <2>5, <3>1, <3>3, <4>1
      <4>2. CASE i # n
        <5>1. merged[i][2] + pause <= merged[n][1] /\ merged[n][1] < merged[n][2] /\ merged[n][2] + pause <= run[1]
          BY <1>1, <1>3, <1>5, <2>5, <3>1, <4>2
        <5>2. merged[i][2] \in Nat /\ merged[n][1] \in Nat /\ merged[n][2] \in Nat
          BY <1>2, <3>1
        <5>3. merged[i][2] + pause <= run[1]
          <6> DEFINE a == merged[i][2]
                     b == merged[n][1]
                     c == merged[n][2]
                     d == run[1]
          <6>1. /\ a \in Nat /\ b \in Nat /\ c \in Nat /\ d \in Nat /\ pause \in Nat
                /\ a + pause <= b /\ b < c /\ c + pause <= d
            BY <1>8, <5>1, <5>2
          <6> HIDE DEF a, b, c, d
          <6>2. a + pause <= d
            BY <6>1
          <6> QED BY <6>2 DEF a, d
        <5> QED BY <2>3, <3>1, <3>3, <5>3
      <4> QED BY <4>1, <4>2
    <3> QED BY <2>4, <3>2, <3>3
  <2>9. ASSUME NEW x \in talk, x <= run[2]
        PROVE  \E i \in 1..n + 1 : t[i][1] < x /\ x <= t[i][2]
    <3>1. CASE run[1] < x
      <4>1. n + 1 \in 1..n + 1 /\ t[n + 1][1] < x /\ x <= t[n + 1][2]
        BY <1>1, <2>3, <2>9, <3>1
      <4> QED BY <4>1
    <3>2. CASE ~(run[1] < x)
      <4>1. PICK i \in 1..n : merged[i][1] < x /\ x <= merged[i][2]
        BY <1>6, <1>11, <2>9, <3>2
      <4>2. i \in 1..n + 1 /\ t[i][1] < x /\ x <= t[i][2]
        BY <1>1, <2>3, <4>1
      <4> QED BY <4>2
    <3> QED BY <3>1, <3>2
  <2>10. k + 1 # 0 /\ n + 1 # 0 /\ t[n + 1][2] = run[2]
    BY <1>1, <1>7, <2>3
  <2> QED BY <2>1, <2>3, <2>6, <2>7, <2>8, <2>9, <2>10 DEF MergedUpTo, run
<1> QED BY <1>13, <1>14 DEF run

\* After the second loop: groups of talk, each window of talk in one.
Grouped(merged, windows, talk, pause) ==
  /\ merged \in Seq(Pairs)
  /\ \A i \in 1..Len(merged) :
       /\ merged[i][1] < merged[i][2] /\ merged[i][2] <= windows
       /\ merged[i][1] + 1 \in talk /\ merged[i][2] \in talk
       /\ \A w \in Nat : merged[i][1] < w /\ w <= merged[i][2] - pause =>
            \E x \in talk : w <= x /\ x <= w + pause - 1
  /\ \A i, j \in 1..Len(merged) : i < j => merged[i][2] + pause <= merged[j][1]
  /\ \A x \in talk : \E i \in 1..Len(merged) : merged[i][1] < x /\ x <= merged[i][2]

LEMMA MergedFound ==
  ASSUME NEW windows \in Nat, NEW talk \in SUBSET (1..windows),
         NEW least \in Nat, NEW pause \in Nat, pause = IF least >= 1 THEN least ELSE 1
  PROVE  Grouped(Merged(Runs(windows, talk), least), windows, talk, pause)
<1> DEFINE runs == Runs(windows, talk)
           k == Len(runs)
<1>1. RunsUpTo(runs, windows, talk)
  BY RunsFound
<1> HIDE DEF runs
<1>2. runs \in Seq(Pairs) /\ k \in Nat
  BY <1>1 DEF RunsUpTo
<1>3. PICK f \in [0..k -> Seq(Pairs)] :
        /\ f[0] = << >> /\ Merged(runs, least) = f[k]
        /\ \A i \in 1..k : f[i] = MergeRun(f[i - 1], runs[i], least)
  BY <1>2, MergedCourse
<1> DEFINE S == {i \in 0..k : MergedUpTo(f[i], i, runs, talk, pause)}
<1>4. 0 \in S
  <2>1. f[0] \in Seq(Pairs) /\ Len(f[0]) = 0 /\ 1..0 = {} /\ 0 \in 0..k
    BY <1>2, <1>3
  <2> QED BY <2>1 DEF MergedUpTo
<1>5. ASSUME NEW i \in 0..k - 1, i \in S PROVE i + 1 \in S
  <2>1. MergedUpTo(f[i], i, runs, talk, pause) /\ i \in 0..Len(runs) - 1
    BY <1>5
  <2>2. MergedUpTo(MergeRun(f[i], runs[i + 1], least), i + 1, runs, talk, pause)
    BY <1>1, <2>1, MergeRunKeeps
  <2>3. i + 1 \in 1..k /\ f[i + 1] = MergeRun(f[(i + 1) - 1], runs[i + 1], least) /\ (i + 1) - 1 = i
    BY <1>2, <1>3
  <2>4. f[i + 1] = MergeRun(f[i], runs[i + 1], least)
    BY <2>3
  <2> QED BY <1>2, <2>2, <2>3, <2>4
<1>6. k \in S
  <2> HIDE DEF S
  <2> QED BY <1>2, <1>4, <1>5, InductionUpTo, k \in 0..k
<1> DEFINE merged == Merged(runs, least)
<1>7. MergedUpTo(merged, k, runs, talk, pause)
  BY <1>3, <1>6
<1> HIDE DEF merged, S
<1>8. ASSUME NEW x \in talk PROVE k > 0 /\ x <= runs[k][2]
  <2>1. PICK i \in 1..k : runs[i][1] < x /\ x <= runs[i][2]
    BY <1>1 DEF RunsUpTo
  <2>2. k \in 1..k /\ k > 0
    BY <1>2
  <2>3. runs[i] \in Pairs /\ runs[k] \in Pairs
    BY <1>2, <2>2
  <2>4. i # k => runs[i][2] < runs[k][1] /\ runs[k][1] < runs[k][2]
    BY <1>1, <1>2, <2>2 DEF RunsUpTo, Ordered
  <2>5. x \in Nat /\ runs[i][2] \in Nat /\ runs[k][1] \in Nat /\ runs[k][2] \in Nat
    BY <2>3 DEF Pairs
  <2> QED BY <2>1, <2>2, <2>4, <2>5
<1>9. ASSUME NEW i \in 1..Len(merged) PROVE merged[i][2] <= windows
  <2>1. merged[i][2] \in talk
    BY <1>7 DEF MergedUpTo
  <2>2. \A x \in talk : x <= windows
    OBVIOUS
  <2> QED BY <2>1, <2>2
<1> QED BY <1>7, <1>8, <1>9 DEF Grouped, MergedUpTo, merged, runs

\* The groups of the second loop are the groups a listener hears.
LEMMA GroupsFound ==
  ASSUME NEW windows \in Nat, NEW talk \in SUBSET (1..windows), NEW pause \in Nat \ {0},
         NEW merged, Grouped(merged, windows, talk, pause)
  PROVE  Groups(windows, talk, pause) = {merged[i] : i \in 1..Len(merged)}
<1> DEFINE n == Len(merged)
<1>1. merged \in Seq(Pairs) /\ n \in Nat
  BY DEF Grouped
<1>2. \A i \in 1..n : merged[i] \in Pairs /\ merged[i][1] \in Nat /\ merged[i][2] \in Nat
                      /\ merged[i] = <<merged[i][1], merged[i][2]>>
  BY <1>1 DEF Pairs
<1>3. \A i \in 1..n : /\ merged[i][1] < merged[i][2] /\ merged[i][2] <= windows
                      /\ merged[i][1] + 1 \in talk /\ merged[i][2] \in talk
  BY DEF Grouped
<1>4. \A i \in 1..n, w \in Nat : merged[i][1] < w /\ w <= merged[i][2] - pause =>
        \E x \in talk : w <= x /\ x <= w + pause - 1
  BY DEF Grouped
<1>5. \A i, j \in 1..n : i < j => merged[i][2] + pause <= merged[j][1]
  BY DEF Grouped
<1>6. \A x \in talk : \E i \in 1..n : merged[i][1] < x /\ x <= merged[i][2]
  BY DEF Grouped
<1>7. \A x \in talk : x \in Nat
  OBVIOUS
<1> HIDE DEF n
\* Silence around a group.
<1>8. ASSUME NEW i \in 1..n, NEW x \in talk
      PROVE  /\ ~(merged[i][1] + 1 - pause <= x /\ x <= merged[i][1])
             /\ ~(merged[i][2] + 1 <= x /\ x <= merged[i][2] + pause)
  <2>1. PICK j \in 1..n : merged[j][1] < x /\ x <= merged[j][2]
    BY <1>6
  <2> DEFINE a == merged[i][1]
             b == merged[i][2]
             c == merged[j][1]
             d == merged[j][2]
  <2>2. /\ a \in Nat /\ b \in Nat /\ c \in Nat /\ d \in Nat /\ x \in Nat /\ a < b /\ c < x /\ x <= d
        /\ (i < j => b + pause <= c) /\ (j < i => d + pause <= a) /\ (i = j => a = c /\ b = d)
    BY <1>2, <1>3, <1>5, <1>7, <2>1
  <2>3. i < j \/ j < i \/ i = j
    BY <1>1
  <2> HIDE DEF a, b, c, d
  <2>4. ~(a + 1 - pause <= x /\ x <= a) /\ ~(b + 1 <= x /\ x <= b + pause)
    BY <2>2, <2>3
  <2> QED BY <2>4 DEF a, b
<1>9. ASSUME NEW i \in 1..n PROVE merged[i] \in Groups(windows, talk, pause)
  <2> DEFINE a == merged[i][1]
             b == merged[i][2]
  <2>1. a \in Nat /\ b \in Nat /\ a < b /\ b <= windows /\ a + 1 \in talk /\ b \in talk /\ merged[i] = <<a, b>>
    BY <1>2, <1>3
  <2>2. \A w \in Nat : a < w /\ w <= b - pause => \E x \in talk : w <= x /\ x <= w + pause - 1
    BY <1>4
  <2>3. \A x \in talk : ~(a + 1 - pause <= x /\ x <= a) /\ ~(b + 1 <= x /\ x <= b + pause)
    BY <1>8
  <2> HIDE DEF a, b
  <2>4. \A w \in a + 1 .. b - pause : (w..w + pause - 1) \intersect talk # {}
    BY <1>7, <2>1, <2>2
  <2>5. ((a + 1 - pause .. a) \union (b + 1 .. b + pause)) \intersect talk = {}
    BY <2>1, <2>3
  <2>6. <<a, b>> \in (0..windows) \X (1..windows)
    BY <2>1
  <2>7. <<a, b>> \in Groups(windows, talk, pause)
    BY <2>1, <2>4, <2>5, <2>6 DEF Groups
  <2> QED BY <2>1, <2>7
<1>10. ASSUME NEW g \in Groups(windows, talk, pause) PROVE \E i \in 1..n : merged[i] = g
  <2> DEFINE a == g[1]
             b == g[2]
  <2>1. g = <<a, b>> /\ a \in Nat /\ b \in Nat /\ a < b /\ a + 1 \in talk /\ b \in talk
    BY DEF Groups
  <2>2. \A w \in Nat : a + 1 <= w /\ w <= b - pause => \E x \in talk : w <= x /\ x <= w + pause - 1
    <3>1. \A w \in a + 1 .. b - pause : (w..w + pause - 1) \intersect talk # {}
      BY DEF Groups
    <3> HIDE DEF a, b
    <3> QED BY <2>1, <3>1
  <2>3. \A x \in talk : ~(a + 1 - pause <= x /\ x <= a) /\ ~(b + 1 <= x /\ x <= b + pause)
    <3>1. ((a + 1 - pause .. a) \union (b + 1 .. b + pause)) \intersect talk = {}
      BY DEF Groups
    <3> HIDE DEF a, b
    <3> QED BY <1>7, <2>1, <3>1
  <2>4. PICK i \in 1..n : merged[i][1] < a + 1 /\ a + 1 <= merged[i][2]
    BY <1>6, <2>1
  <2> DEFINE c == merged[i][1]
             d == merged[i][2]
  <2>5. merged[i] = <<c, d>> /\ c \in Nat /\ d \in Nat /\ c < d /\ c + 1 \in talk /\ d \in talk /\ c < a + 1 /\ a + 1 <= d
    BY <1>2, <1>3, <2>4
  <2>6. \A w \in Nat : c < w /\ w <= d - pause => \E x \in talk : w <= x /\ x <= w + pause - 1
    BY <1>4
  <2>7. \A x \in talk : ~(d + 1 <= x /\ x <= d + pause)
    BY <1>8
  <2> HIDE DEF a, b, c, d
  <2>8. c = a
    <3>1. CASE c < a + 1 - pause
      <4>1. a + 1 - pause \in Nat /\ a + 1 - pause <= d - pause
        BY <2>1, <2>5, <3>1
      <4>2. PICK x \in talk : a + 1 - pause <= x /\ x <= (a + 1 - pause) + pause - 1
        BY <2>6, <3>1, <4>1
      <4> QED BY <1>7, <2>1, <2>3, <4>2
    <3>2. CASE ~(c < a + 1 - pause) /\ c < a
      <4>1. a + 1 - pause <= c + 1 /\ c + 1 <= a
        BY <2>1, <2>5, <3>2
      <4> QED BY <2>3, <2>5, <4>1
    <3> QED BY <2>1, <2>5, <3>1, <3>2
  <2>9. ~(b < d)
    <3> SUFFICES ASSUME b < d PROVE FALSE
      OBVIOUS
    <3>1. CASE b + 1 <= d - pause
      <4>1. b + 1 \in Nat /\ c < b + 1
        BY <2>1, <2>8
      <4>2. PICK x \in talk : b + 1 <= x /\ x <= (b + 1) + pause - 1
        BY <2>6, <3>1, <4>1
      <4> QED BY <1>7, <2>1, <2>3, <4>2
    <3>2. CASE ~(b + 1 <= d - pause)
      <4>1. b + 1 <= d /\ d <= b + pause
        BY <2>1, <2>5, <3>2
      <4> QED BY <2>3, <2>5, <4>1
    <3> QED BY <3>1, <3>2
  <2>10. ~(d < b)
    <3> SUFFICES ASSUME d < b PROVE FALSE
      OBVIOUS
    <3>1. CASE d + 1 <= b - pause
      <4>1. d + 1 \in Nat /\ a + 1 <= d + 1
        BY <2>1, <2>5
      <4>2. PICK x \in talk : d + 1 <= x /\ x <= (d + 1) + pause - 1
        BY <2>2, <3>1, <4>1
      <4> QED BY <1>7, <2>5, <2>7, <4>2
    <3>2. CASE ~(d + 1 <= b - pause)
      <4>1. d + 1 <= b /\ b <= d + pause
        BY <2>1, <2>5, <3>2
      <4> QED BY <2>1, <2>7, <4>1
    <3> QED BY <3>1, <3>2
  <2>11. d = b
    BY <2>1, <2>5, <2>9, <2>10
  <2> QED BY <2>1, <2>5, <2>8, <2>11
<1>11. Groups(windows, talk, pause) \subseteq {merged[i] : i \in 1..n}
  BY <1>10
<1>12. {merged[i] : i \in 1..n} \subseteq Groups(windows, talk, pause)
  BY <1>9
<1> QED BY <1>11, <1>12 DEF n

\* Any two runs are gap windows apart.
Apart(runs, gap) == \A i, j \in 1..Len(runs) : i < j => runs[i][2] + gap <= runs[j][1]

\* The runs that are long enough, of the first k.
KeptUpTo(kept, k, runs, s, gap) ==
  /\ kept \in Seq(Pairs) /\ Apart(kept, gap)
  /\ \A i \in 1..Len(kept) : \E j \in 1..k : kept[i] = runs[j] /\ LongEnough(runs[j], s)
  /\ \A j \in 1..k : LongEnough(runs[j], s) => \E i \in 1..Len(kept) : kept[i] = runs[j]

LEMMA KeepKeeps ==
  ASSUME NEW runs \in Seq(Pairs), NEW gap \in Nat, Apart(runs, gap), NEW s, NEW k \in 0..Len(runs) - 1,
         NEW kept, KeptUpTo(kept, k, runs, s, gap)
  PROVE  KeptUpTo(Keep(kept, runs[k + 1], s), k + 1, runs, s, gap)
<1> DEFINE n == Len(kept)
           run == runs[k + 1]
<1>1. kept \in Seq(Pairs) /\ n \in Nat /\ k \in Nat /\ Len(runs) \in Nat /\ k + 1 \in 1..Len(runs)
  BY DEF KeptUpTo
<1>2. \A i \in 1..n : \E j \in 1..k : kept[i] = runs[j] /\ LongEnough(runs[j], s)
  BY DEF KeptUpTo
<1>3. \A j \in 1..k : LongEnough(runs[j], s) => \E i \in 1..n : kept[i] = runs[j]
  BY DEF KeptUpTo
<1>4. \A i, j \in 1..n : i < j => kept[i][2] + gap <= kept[j][1]
  BY DEF KeptUpTo, Apart
<1>5. run \in Pairs /\ \A j \in 1..k : j \in 1..k + 1 /\ runs[j][2] + gap <= run[1]
  BY <1>1 DEF Apart
<1>6. k + 1 \in 1..k + 1 /\ \A j \in 1..k + 1 : j \in 1..k \/ j = k + 1
  BY <1>1
<1>7. CASE ~LongEnough(run, s)
  <2>1. Keep(kept, run, s) = kept
    BY <1>7 DEF Keep
  <2>2. \A j \in 1..k + 1 : LongEnough(runs[j], s) => j \in 1..k
    BY <1>6, <1>7
  <2>3. \A i \in 1..n : \E j \in 1..k + 1 : kept[i] = runs[j] /\ LongEnough(runs[j], s)
    BY <1>2, <1>5
  <2> QED BY <1>1, <1>3, <1>4, <2>1, <2>2, <2>3 DEF KeptUpTo, Apart
<1>8. CASE LongEnough(run, s)
  <2> DEFINE t == Append(kept, run)
  <2>1. Keep(kept, run, s) = t
    BY <1>8 DEF Keep
  <2>2. t \in Seq(Pairs) /\ Len(t) = n + 1 /\ t[n + 1] = run /\ \A i \in 1..n : t[i] = kept[i]
    BY <1>1, <1>5, OneMore
  <2> HIDE DEF t, n
  <2>3. \A i \in 1..n + 1 : i \in 1..n \/ i = n + 1
    BY <1>1
  <2>4. ASSUME NEW i \in 1..n + 1
        PROVE  \E j \in 1..k + 1 : t[i] = runs[j] /\ LongEnough(runs[j], s)
    <3>1. CASE i \in 1..n
      <4>1. PICK j \in 1..k : kept[i] = runs[j] /\ LongEnough(runs[j], s)
        BY <1>2, <3>1
      <4>2. j \in 1..k + 1 /\ t[i] = runs[j]
        BY <1>5, <2>2, <3>1, <4>1
      <4> QED BY <4>1, <4>2
    <3>2. CASE i = n + 1
      <4>1. t[i] = runs[k + 1] /\ LongEnough(runs[k + 1], s)
        BY <1>8, <2>2, <3>2
      <4> QED BY <1>6, <4>1
    <3> QED BY <2>3, <3>1, <3>2
  <2>5. ASSUME NEW j \in 1..k + 1, LongEnough(runs[j], s)
        PROVE  \E i \in 1..n + 1 : t[i] = runs[j]
    <3>1. CASE j \in 1..k
      <4>1. PICK i \in 1..n : kept[i] = runs[j]
        BY <1>3, <2>5, <3>1
      <4>2. i \in 1..n + 1 /\ t[i] = runs[j]
        BY <1>1, <2>2, <4>1
      <4> QED BY <4>2
    <3>2. CASE j = k + 1
      <4>1. n + 1 \in 1..n + 1
        BY <1>1
      <4> QED BY <2>2, <3>2, <4>1
    <3> QED BY <1>6, <3>1, <3>2
  <2>6. ASSUME NEW i \in 1..n + 1, NEW j \in 1..n + 1, i < j
        PROVE  t[i][2] + gap <= t[j][1]
    <3>1. i \in 1..n
      BY <1>1, <2>6
    <3>2. CASE j \in 1..n
      BY <1>4, <2>2, <2>6, <3>1, <3>2
    <3>3. CASE j = n + 1
      BY <1>2, <1>5, <2>2, <3>1, <3>3
    <3> QED BY <2>3, <3>2, <3>3
  <2> QED BY <2>1, <2>2, <2>4, <2>5, <2>6 DEF KeptUpTo, Apart, n
<1> QED BY <1>7, <1>8 DEF run

LEMMA KeptFound ==
  ASSUME NEW runs \in Seq(Pairs), NEW gap \in Nat, Apart(runs, gap), NEW s
  PROVE  KeptUpTo(Kept(runs, s), Len(runs), runs, s, gap)
<1> DEFINE k == Len(runs)
<1>1. k \in Nat
  OBVIOUS
<1>2. PICK f \in [0..k -> Seq(Pairs)] :
        /\ f[0] = << >> /\ Kept(runs, s) = f[k]
        /\ \A i \in 1..k : f[i] = Keep(f[i - 1], runs[i], s)
  BY KeptCourse
<1> DEFINE S == {i \in 0..k : KeptUpTo(f[i], i, runs, s, gap)}
<1>3. 0 \in S
  <2>1. f[0] \in Seq(Pairs) /\ Len(f[0]) = 0 /\ 1..0 = {} /\ 0 \in 0..k
    BY <1>1, <1>2
  <2> QED BY <2>1 DEF KeptUpTo, Apart
<1>4. ASSUME NEW i \in 0..k - 1, i \in S PROVE i + 1 \in S
  <2>1. KeptUpTo(f[i], i, runs, s, gap) /\ i \in 0..Len(runs) - 1
    BY <1>4
  <2>2. KeptUpTo(Keep(f[i], runs[i + 1], s), i + 1, runs, s, gap)
    BY <2>1, KeepKeeps
  <2>3. i + 1 \in 1..k /\ f[i + 1] = Keep(f[(i + 1) - 1], runs[i + 1], s) /\ (i + 1) - 1 = i
    BY <1>1, <1>2
  <2>4. f[i + 1] = Keep(f[i], runs[i + 1], s) /\ i + 1 \in 0..k
    BY <1>1, <2>3
  <2> QED BY <2>2, <2>4
<1>5. k \in S
  <2> HIDE DEF S
  <2> QED BY <1>1, <1>3, <1>4, InductionUpTo, k \in 0..k
<1> QED BY <1>2, <1>5

-----------------------------------------------------------------------------
\* The segments.

LEMMA Constant ==
  /\ Rate \in Nat \ {0} /\ Window \in Nat \ {0} /\ SilenceMax \in Nat \ {0} /\ MaxWords \in Nat \ {0}
  /\ WindowMs \in Nat \ {0}
<1>1. Rate \in Nat \ {0} /\ Window \in Nat \ {0} /\ SilenceMax \in Nat \ {0} /\ MaxWords \in Nat \ {0}
      /\ WindowMs > 0
  BY SpeechAssumption
<1>2. \A x \in Nat, w \in Nat \ {0} : x \div w \in Nat
  OBVIOUS
<1>3. Window * 1000 \in Nat
  BY <1>1
<1> QED BY <1>1, <1>2, <1>3 DEF WindowMs

LEMMA Typed ==
  ASSUME NEW r \in Recording, NEW s \in Setting
  PROVE  /\ r.samples \in Nat /\ r.prob \in Seq(Nat) /\ Len(r.prob) \in Nat
         /\ Len(r.prob) = ProbWindows(r.samples)
         /\ s \in [vad : BOOLEAN, threshold : Nat, minSpeech : Nat, minSilence : Nat,
                   pad : Nat, chunking : BOOLEAN, max : Nat, overlap : Nat]
         /\ PadSamples(s) \in Nat /\ Talk(r, s) \in SUBSET (1..Len(r.prob))
         /\ MsToWindows(s.minSilence) \in Nat
         /\ Pause(s) \in Nat \ {0}
         /\ Pause(s) = IF MsToWindows(s.minSilence) >= 1 THEN MsToWindows(s.minSilence) ELSE 1
<1>1. r.samples \in Nat /\ r.prob \in Seq(Nat) /\ Len(r.prob) \in Nat /\ Len(r.prob) = ProbWindows(r.samples)
  BY SpeechAssumption
<1>2. s \in [vad : BOOLEAN, threshold : Nat, minSpeech : Nat, minSilence : Nat,
             pad : Nat, chunking : BOOLEAN, max : Nat, overlap : Nat]
  BY SpeechAssumption
<1>3. \A x \in Nat, w \in Nat \ {0} : x \div w \in Nat
  OBVIOUS
<1>4. PadSamples(s) \in Nat
  <2>1. \A a, b \in Nat : a * b \in Nat
    OBVIOUS
  <2>2. s.pad * Rate \in Nat
    BY <1>2, <2>1, Constant
  <2> QED BY <1>3, <2>2 DEF PadSamples
<1>5. MsToWindows(s.minSilence) \in Nat
  BY <1>2, <1>3, Constant DEF MsToWindows
<1>6. Pause(s) = IF 1 >= MsToWindows(s.minSilence) THEN 1 ELSE MsToWindows(s.minSilence)
  BY <1>5, MaxOfTwo DEF Pause
<1> QED BY <1>1, <1>2, <1>4, <1>5, <1>6 DEF Talk

\* The segments are the groups that are long enough, in order.
LEMMA SpeechFound ==
  ASSUME NEW r \in Recording, NEW s \in Setting
  PROVE  \E kept \in Seq(Pairs) :
           /\ Assembled(r, s) = [i \in 1..Len(kept) |-> Pad(kept[i], r, s)]
           /\ Apart(kept, Pause(s))
           /\ Spoken(r, s) = {kept[i] : i \in 1..Len(kept)}
<1> DEFINE windows == Len(r.prob)
           talk == Talk(r, s)
           least == MsToWindows(s.minSilence)
           pause == Pause(s)
           merged == Merged(Runs(windows, talk), least)
           kept == Kept(merged, s)
<1>1. /\ windows \in Nat /\ talk \in SUBSET (1..windows) /\ least \in Nat
      /\ pause \in Nat \ {0} /\ pause = IF least >= 1 THEN least ELSE 1
  BY Typed
<1>2. Assembled(r, s) = [i \in 1..Len(kept) |-> Pad(kept[i], r, s)]
  BY DEF Assembled
<1>3. Spoken(r, s) = {g \in Groups(windows, talk, pause) : LongEnough(g, s)}
  BY DEF Spoken
<1>4. Grouped(merged, windows, talk, pause)
  <2> HIDE DEF windows, talk, least, pause
  <2> QED BY <1>1, MergedFound
<1> HIDE DEF windows, talk, least, pause, merged
<1>5. Groups(windows, talk, pause) = {merged[i] : i \in 1..Len(merged)}
  BY <1>1, <1>4, GroupsFound
<1>6. merged \in Seq(Pairs) /\ Len(merged) \in Nat
  BY <1>4 DEF Grouped
<1>7. Apart(merged, pause)
  BY <1>4 DEF Grouped, Apart
<1>8. KeptUpTo(kept, Len(merged), merged, s, pause)
  BY <1>1, <1>6, <1>7, KeptFound
<1> HIDE DEF kept
<1>9. kept \in Seq(Pairs) /\ Apart(kept, Pause(s))
  BY <1>8 DEF KeptUpTo, pause
<1>10. Spoken(r, s) = {kept[i] : i \in 1..Len(kept)}
  <2>1. ASSUME NEW g \in Spoken(r, s) PROVE \E i \in 1..Len(kept) : g = kept[i]
    <3>1. PICK j \in 1..Len(merged) : merged[j] = g
      BY <1>3, <1>5
    <3>2. LongEnough(merged[j], s)
      BY <1>3, <3>1
    <3> QED BY <1>8, <3>1, <3>2 DEF KeptUpTo
  <2>2. ASSUME NEW i \in 1..Len(kept) PROVE kept[i] \in Spoken(r, s)
    <3>1. PICK j \in 1..Len(merged) : kept[i] = merged[j] /\ LongEnough(merged[j], s)
      BY <1>8 DEF KeptUpTo
    <3> QED BY <1>3, <1>5, <3>1
  <2> QED BY <2>1, <2>2
<1> QED BY <1>2, <1>9, <1>10

\* What a segment is: from a sample to a later one, of those the recording has.
Span(samples) == {p \in Pairs : p[1] <= p[2] /\ p[2] <= samples}

\* A group starts before the last window ends: padded and clamped, it lies in the
\* recording and holds the samples of its windows.
LEMMA PadLies ==
  ASSUME NEW r \in Recording, NEW s \in Setting, NEW g \in Spoken(r, s)
  PROVE  LET seg == Pad(g, r, s) IN
         /\ seg \in Pairs /\ seg[1] < seg[2] /\ seg[2] <= r.samples
         /\ seg[1] <= g[1] * Window
         /\ g[1] * Window - PadSamples(s) <= seg[1] /\ seg[2] <= g[2] * Window + PadSamples(s)
         /\ \A p \in 1..r.samples : p <= g[2] * Window => p <= seg[2]
<1> DEFINE P == PadSamples(s)
           N == r.samples
           a == g[1]
           b == g[2]
           lo == IF 0 >= a * Window - P THEN 0 ELSE a * Window - P
           hi == IF b * Window + P <= N THEN b * Window + P ELSE N
<1>1. P \in Nat /\ N \in Nat /\ Window \in Nat \ {0} /\ Len(r.prob) = (N + Window - 1) \div Window
  BY Typed, Constant DEF ProbWindows
<1>2. a \in Nat /\ b \in Nat /\ a < b /\ b <= Len(r.prob) /\ Len(r.prob) \in Nat
  BY Typed DEF Spoken, Groups
<1>3. a * Window \in Nat /\ b * Window \in Nat
  <2>1. \A x, y \in Nat : x * y \in Nat
    OBVIOUS
  <2> QED BY <1>1, <1>2, <2>1
<1>4. a * Window < b * Window /\ a * Window < N
  <2> DEFINE n == Len(r.prob)
  <2> HIDE DEF a, b, P, N, n
  <2>1. \A x, w \in Nat : w # 0 => (x \div w) * w <= x /\ x \div w \in Nat
    OBVIOUS
  <2>2. n * Window <= N + Window - 1
    <3>1. N + Window - 1 \in Nat
      BY <1>1
    <3> QED BY <1>1, <2>1, <3>1 DEF n
  <2>3. \A x, y, w \in Nat : x < y => x * w + w <= y * w
    OBVIOUS
  <2>4. a < n /\ n \in Nat
    BY <1>2 DEF n
  <2>5. a * Window + Window <= n * Window /\ a * Window + Window <= b * Window
    BY <1>1, <1>2, <2>3, <2>4
  <2>6. n * Window \in Nat
    <3>1. \A x, y \in Nat : x * y \in Nat
      OBVIOUS
    <3> QED BY <1>1, <2>4, <3>1
  <2> QED BY <1>1, <1>3, <2>2, <2>5, <2>6
<1>5. Pad(g, r, s) = <<lo, hi>>
  <2>1. Max({0, a * Window - P}) = lo
    <3>1. a * Window - P \in Int
      BY <1>1, <1>3
    <3> QED BY <3>1, MaxOfTwo
  <2>2. Min({b * Window + P, N}) = hi
    <3>1. b * Window + P \in Int
      BY <1>1, <1>3
    <3> QED BY <1>1, <3>1, MinOfTwo
  <2> QED BY <2>1, <2>2 DEF Pad
<1> DEFINE A == a * Window
           B == b * Window
<1> HIDE DEF a, b, P, N
<1>6. /\ lo \in Nat /\ hi \in Nat /\ lo < hi /\ hi <= N /\ lo <= a * Window
      /\ a * Window - P <= lo /\ hi <= b * Window + P
      /\ \A p \in 1..N : p <= b * Window => p <= hi
  <2>1. A \in Nat /\ B \in Nat /\ A < B /\ A < N
    BY <1>3, <1>4
  <2> HIDE DEF A, B
  <2> DEFINE l == IF 0 >= A - P THEN 0 ELSE A - P
             h == IF B + P <= N THEN B + P ELSE N
  <2>2. l \in Nat /\ h \in Nat /\ l < h /\ h <= N /\ l <= A /\ A - P <= l /\ h <= B + P
               /\ \A p \in 1..N : p <= B => p <= h
    BY <1>1, <2>1
  <2> QED BY <2>2 DEF A, B
<1> HIDE DEF lo, hi
<1> QED BY <1>5, <1>6 DEF a, b, N, P, Pairs

-----------------------------------------------------------------------------
\* The chunks.
Pieces == [pcm : Seq(Nat), overlap : BOOLEAN]

LEMMA StepTyped ==
  ASSUME NEW s \in Setting
  PROVE  /\ StepSamples(s) \in Nat \ {0} /\ s.max \in Nat /\ s.overlap \in Nat
         /\ s.max > 0 => StepSamples(s) <= s.max /\ Shared(s) \in 0..s.max - 1
         /\ Shared(s) \in Int
<1> DEFINE m == s.max
           o == s.overlap
<1>1. m \in Nat /\ o \in Nat
  BY Typed, SpeechAssumption
<1>2. StepSamples(s) = IF 1 >= m - o THEN 1 ELSE m - o
  <2> HIDE DEF m, o
  <2>1. m - o \in Int
    BY <1>1
  <2> QED BY <2>1, MaxOfTwo DEF StepSamples, m, o
<1>3. Shared(s) = m - StepSamples(s)
  BY DEF Shared
<1> HIDE DEF m, o
<1>4. /\ StepSamples(s) \in Nat \ {0} /\ (m > 0 => StepSamples(s) <= m /\ Shared(s) \in 0..m - 1)
      /\ Shared(s) \in Int
  BY <1>1, <1>2, <1>3
<1> QED BY <1>1, <1>4 DEF m, o

\* The loop of split_with_overlap makes its turns one after another.
LEMMA StartsFound ==
  ASSUME NEW n \in Nat, NEW s \in Setting
  PROVE  Cardinality(Starts(n, s)) \in 0..n /\ Starts(n, s) = 0..Cardinality(Starts(n, s)) - 1
<1> DEFINE S == Starts(n, s)
           step == StepSamples(s)
           max == s.max
<1>1. step \in Nat \ {0} /\ max \in Nat
  BY StepTyped
<1>2. S = {i \in 0..n - 1 : i * step < n /\ (i > 0 => (i - 1) * step + max < n)}
  BY DEF Starts
<1> HIDE DEF S, step, max
<1>3. CASE S = {}
  <2>1. Cardinality(S) = 0
    BY <1>3, FS_EmptySet
  <2> QED BY <1>3, <2>1 DEF S
<1>4. CASE S # {}
  <2>1. S \in SUBSET (0..n)
    BY <1>2
  <2>2. PICK m \in S : \A i \in S : m >= i
    BY <1>4, <2>1, Greatest
  <2>3. m \in 0..n - 1 /\ m * step < n /\ (m > 0 => (m - 1) * step + max < n)
    BY <1>2
  <2>4. ASSUME NEW i \in 0..m PROVE i \in S
    <3>1. \A x, y, w \in Nat : x <= y => x * w <= y * w /\ x * w \in Nat /\ y * w \in Nat
      OBVIOUS
    <3>2. i \in Nat /\ m \in Nat /\ i <= m /\ i \in 0..n - 1
      BY <2>3
    <3>3. i * step <= m * step /\ i * step \in Nat /\ m * step \in Nat
      BY <1>1, <3>1, <3>2
    <3>4. i * step < n
      BY <2>3, <3>3
    <3>5. ASSUME i > 0 PROVE (i - 1) * step + max < n
      <4>1. i - 1 \in Nat /\ m - 1 \in Nat /\ i - 1 <= m - 1 /\ m > 0
        BY <3>2, <3>5
      <4>2. (i - 1) * step <= (m - 1) * step /\ (i - 1) * step \in Nat /\ (m - 1) * step \in Nat
        BY <1>1, <3>1, <4>1
      <4>3. (m - 1) * step + max < n
        BY <2>3, <4>1
      <4> QED BY <1>1, <4>2, <4>3
    <3> QED BY <1>2, <3>2, <3>4, <3>5
  <2>5. S = 0..m
    <3>1. 0..m \subseteq S
      BY <2>4
    <3>2. \A i \in S : i \in 0..m
      BY <1>2, <2>2, <2>3
    <3> QED BY <3>1, <3>2
  <2>6. Cardinality(S) = m + 1
    BY <2>3, <2>5, FS_Interval
  <2> QED BY <2>3, <2>5, <2>6 DEF S
<1> QED BY <1>3, <1>4

\* A piece starts inside the segment; all but the last end before its end.
LEMMA PiecesLie ==
  ASSUME NEW n \in Nat, NEW s \in Setting
  PROVE  LET q == Cardinality(Starts(n, s)) IN
         /\ q \in Nat
         /\ \A i \in 1..q : (i - 1) * StepSamples(s) \in 0..n - 1
         /\ \A i \in 1..q - 1 : /\ (i - 1) * StepSamples(s) + s.max < n
                                /\ ((i + 1) - 1) * StepSamples(s) = (i - 1) * StepSamples(s) + StepSamples(s)
         /\ 0 < s.max /\ s.max < n => q > 0 /\ (q - 1) * StepSamples(s) + s.max >= n
<1> DEFINE q == Cardinality(Starts(n, s))
           step == StepSamples(s)
           max == s.max
<1>1. step \in Nat \ {0} /\ max \in Nat /\ (max > 0 => step <= max)
  BY StepTyped
<1>2. q \in 0..n /\ \A i \in 0..n - 1 :
        i \in 0..q - 1 <=> i * step < n /\ (i > 0 => (i - 1) * step + max < n)
  BY StartsFound DEF Starts
<1> HIDE DEF q, step, max
<1>3. \A x, y \in Nat : x * y \in Nat
  OBVIOUS
<1>4. ASSUME NEW i \in 1..q PROVE (i - 1) * step \in 0..n - 1
  <2>1. i - 1 \in 0..q - 1 /\ i - 1 \in 0..n - 1 /\ i - 1 \in Nat
    BY <1>2
  <2>2. (i - 1) * step < n /\ (i - 1) * step \in Nat
    BY <1>1, <1>2, <1>3, <2>1
  <2> QED BY <2>2
<1>5. ASSUME NEW i \in 1..q - 1
      PROVE  (i - 1) * step + max < n /\ ((i + 1) - 1) * step = (i - 1) * step + step
  <2>1. i \in 0..q - 1 /\ i \in 0..n - 1 /\ i > 0
    BY <1>2
  <2>2. (i - 1) * step + max < n
    BY <1>2, <2>1
  <2>3. \A x \in Nat : ((x + 1) - 1) * step = (x - 1) * step + step
    BY <1>1
  <2> QED BY <2>1, <2>2, <2>3
<1>6. ASSUME 0 < max, max < n PROVE q > 0 /\ (q - 1) * step + max >= n
  <2>1. 0 * step = 0
    BY <1>1
  <2>2. 0 \in 0..n - 1 /\ 0 * step < n
    BY <1>1, <1>6, <2>1
  <2>3. q > 0
    BY <1>2, <2>2
  <2>4. (q - 1) * step \in Nat /\ q * step = (q - 1) * step + step /\ q <= q * step
    <3>1. q - 1 \in Nat
      BY <1>2, <2>3
    <3>2. \A x \in Nat : (x + 1) * step = x * step + step /\ x + 1 <= (x + 1) * step
      BY <1>1
    <3>3. q = (q - 1) + 1
      BY <1>2
    <3> QED BY <1>1, <1>3, <3>1, <3>2, <3>3
  <2>5. CASE q \in 0..n - 1
    <3>1. ~(q \in 0..q - 1)
      BY <1>2
    <3> QED BY <1>1, <1>2, <1>6, <2>3, <2>4, <2>5, <3>1
  <2>6. CASE q = n
    BY <1>1, <1>2, <1>6, <2>3, <2>4, <2>6
  <2> QED BY <1>2, <2>5, <2>6
<1>7. q \in Nat
  BY <1>2
<1> QED BY <1>4, <1>5, <1>6, <1>7 DEF q, step, max

\* The piece of a turn, and what it holds.
LEMMA PieceOf ==
  ASSUME NEW pcm \in Seq(Nat), NEW s \in Setting
  PROVE  LET n == Len(pcm)
             q == Cardinality(Starts(n, s))
             start(i) == (i - 1) * StepSamples(s)
             stop(i) == IF start(i) + s.max <= n THEN start(i) + s.max ELSE n
         IN  /\ Split(pcm, s) \in Seq(Pieces) /\ Len(Split(pcm, s)) = q
             /\ \A i \in 1..q :
                  /\ Split(pcm, s)[i].pcm = SubSeq(pcm, start(i) + 1, stop(i))
                  /\ Split(pcm, s)[i].overlap <=> stop(i) # n
                  /\ Len(Split(pcm, s)[i].pcm) = stop(i) - start(i)
<1> DEFINE n == Len(pcm)
           q == Cardinality(Starts(n, s))
           start(i) == (i - 1) * StepSamples(s)
           stop(i) == IF start(i) + s.max <= n THEN start(i) + s.max ELSE n
           c(i) == NewChunk(SubSeq(pcm, start(i) + 1, stop(i)), stop(i) # n)
<1>1. n \in Nat /\ q \in Nat /\ s.max \in Nat /\ \A i \in 1..q : start(i) \in 0..n - 1
  BY PiecesLie, StepTyped
<1>2. Split(pcm, s) = [i \in 1..q |-> c(i)]
  <2>1. ASSUME NEW i \in 1..q PROVE Min({start(i) + s.max, n}) = stop(i)
    <3> DEFINE x == start(i) + s.max
    <3>1. x \in Int /\ n \in Int
      <4> HIDE DEF start
      <4> QED BY <1>1
    <3> HIDE DEF x, n
    <3>2. Min({x, n}) = IF x <= n THEN x ELSE n
      BY <3>1, MinOfTwo
    <3> QED BY <3>2 DEF x
  <2> QED BY <2>1 DEF Split
<1>3. ASSUME NEW i \in 1..q
      PROVE  /\ c(i) \in Pieces /\ c(i).pcm = SubSeq(pcm, start(i) + 1, stop(i))
             /\ c(i).overlap <=> stop(i) # n
             /\ Len(c(i).pcm) = stop(i) - start(i)
  <2> DEFINE a == start(i)
             b == stop(i)
  <2>1. a \in Nat /\ b \in Nat /\ a <= b /\ b <= n
    <3> HIDE DEF start, n
    <3> QED BY <1>1
  <2> HIDE DEF a, b
  <2>2. \A j \in a + 1 .. b : pcm[j] \in Nat
    <3>1. \A j \in a + 1 .. b : j \in 1..n
      BY <1>1, <2>1
    <3> QED BY <3>1, ElementOfSeq
  <2>3. SubSeq(pcm, a + 1, b) \in Seq(Nat) /\ Len(SubSeq(pcm, a + 1, b)) = b - a
    <3>1. a + 1 \in Int /\ b \in Int
      BY <2>1
    <3>2. /\ SubSeq(pcm, a + 1, b) \in Seq(Nat)
          /\ Len(SubSeq(pcm, a + 1, b)) = IF a + 1 <= b THEN b - (a + 1) + 1 ELSE 0
      BY <2>2, <3>1, SubSeqProperties
    <3> QED BY <2>1, <3>2
  <2> QED BY <2>3 DEF a, b, NewChunk, Pieces
<1> HIDE DEF n, q, start, stop, c
<1>4. [i \in 1..q |-> c(i)] \in Seq(Pieces) /\ Len([i \in 1..q |-> c(i)]) = q
  <2>1. \A i \in 1..q : c(i) \in Pieces
    BY <1>3
  <2> QED BY <1>1, <2>1
<1>5. \A i \in 1..q : Split(pcm, s)[i] = c(i)
  BY <1>2
<1>6. \A i \in 1..q : /\ Split(pcm, s)[i].pcm = SubSeq(pcm, start(i) + 1, stop(i))
                      /\ Split(pcm, s)[i].overlap <=> stop(i) # n
                      /\ Len(Split(pcm, s)[i].pcm) = stop(i) - start(i)
  BY <1>3, <1>5
<1> QED BY <1>2, <1>4, <1>6 DEF n, q, start, stop

\* Pieces of a sequence.
LEMMA Piece ==
  ASSUME NEW A, NEW x \in Seq(A), NEW a \in Nat, NEW b \in Nat, a <= b, b <= Len(x)
  PROVE  /\ SubSeq(x, a + 1, b) \in Seq(A) /\ Len(SubSeq(x, a + 1, b)) = b - a
         /\ \A i \in 1..b - a : SubSeq(x, a + 1, b)[i] = x[a + i]
<1>1. \A j \in a + 1 .. b : x[j] \in A
  <2>1. \A j \in a + 1 .. b : j \in 1..Len(x)
    OBVIOUS
  <2> QED BY <2>1, ElementOfSeq
<1>2. a + 1 \in Int /\ b \in Int
  OBVIOUS
<1>3. /\ SubSeq(x, a + 1, b) \in Seq(A)
      /\ Len(SubSeq(x, a + 1, b)) = IF a + 1 <= b THEN b - (a + 1) + 1 ELSE 0
      /\ \A i \in 1..b - (a + 1) + 1 : SubSeq(x, a + 1, b)[i] = x[(a + 1) + i - 1]
  BY <1>1, <1>2, SubSeqProperties
<1>4. b - (a + 1) + 1 = b - a /\ \A i \in 1..b - a : (a + 1) + i - 1 = a + i
  OBVIOUS
<1>5. Len(SubSeq(x, a + 1, b)) = b - a
  BY <1>3
<1> QED BY <1>3, <1>4, <1>5

LEMMA PieceOfPiece ==
  ASSUME NEW A, NEW x \in Seq(A), NEW a \in Nat, NEW b \in Nat, a <= b, b <= Len(x),
         NEW c \in Nat, NEW d \in Nat, c <= d, d <= b - a
  PROVE  SubSeq(SubSeq(x, a + 1, b), c + 1, d) = SubSeq(x, (a + c) + 1, a + d)
<1> DEFINE y == SubSeq(x, a + 1, b)
<1>1. y \in Seq(A) /\ Len(y) = b - a /\ \A i \in 1..b - a : y[i] = x[a + i]
  BY Piece
<1>2. a + c \in Nat /\ a + d \in Nat /\ a + c <= a + d /\ a + d <= Len(x)
  <2>1. Len(x) \in Nat
    OBVIOUS
  <2> QED BY <2>1
<1> HIDE DEF y
<1>3. /\ SubSeq(y, c + 1, d) \in Seq(A) /\ Len(SubSeq(y, c + 1, d)) = d - c
      /\ \A i \in 1..d - c : SubSeq(y, c + 1, d)[i] = y[c + i]
  BY <1>1, Piece
<1>4. /\ SubSeq(x, (a + c) + 1, a + d) \in Seq(A) /\ Len(SubSeq(x, (a + c) + 1, a + d)) = (a + d) - (a + c)
      /\ \A i \in 1..(a + d) - (a + c) : SubSeq(x, (a + c) + 1, a + d)[i] = x[(a + c) + i]
  BY <1>2, Piece
<1>5. (a + d) - (a + c) = d - c
  OBVIOUS
<1>6. \A i \in 1..d - c : c + i \in 1..b - a /\ a + (c + i) = (a + c) + i
  OBVIOUS
<1>7. \A i \in 1..d - c : SubSeq(y, c + 1, d)[i] = SubSeq(x, (a + c) + 1, a + d)[i]
  BY <1>1, <1>3, <1>4, <1>5, <1>6
<1> QED BY <1>3, <1>4, <1>5, <1>7, SeqEqual DEF y

LEMMA PieceAfterPiece ==
  ASSUME NEW A, NEW x \in Seq(A), NEW a \in Nat, NEW b \in Nat, NEW c \in Nat, a <= b, b <= c, c <= Len(x)
  PROVE  SubSeq(x, a + 1, b) \o SubSeq(x, b + 1, c) = SubSeq(x, a + 1, c)
<1> DEFINE y == SubSeq(x, a + 1, b)
           z == SubSeq(x, b + 1, c)
           w == SubSeq(x, a + 1, c)
<1>1. Len(x) \in Nat
  OBVIOUS
<1>2. y \in Seq(A) /\ Len(y) = b - a /\ \A i \in 1..b - a : y[i] = x[a + i]
  <2>1. b <= Len(x)
    BY <1>1
  <2> QED BY <2>1, Piece
<1>3. z \in Seq(A) /\ Len(z) = c - b /\ \A i \in 1..c - b : z[i] = x[b + i]
  BY Piece
<1>4. w \in Seq(A) /\ Len(w) = c - a /\ \A i \in 1..c - a : w[i] = x[a + i]
  <2>1. a <= c
    OBVIOUS
  <2> QED BY <2>1, Piece
<1> HIDE DEF y, z, w
<1>5. /\ y \o z \in Seq(A) /\ Len(y \o z) = Len(y) + Len(z)
      /\ \A i \in 1..Len(y) + Len(z) : (y \o z)[i] = IF i <= Len(y) THEN y[i] ELSE z[i - Len(y)]
  BY <1>2, <1>3, ConcatProperties
<1>6. Len(y) + Len(z) = c - a /\ Len(y \o z) = c - a
  BY <1>2, <1>3, <1>5
<1>7. ASSUME NEW i \in 1..c - a PROVE (y \o z)[i] = w[i]
  <2>1. CASE i <= b - a
    <3>1. i \in 1..b - a
      BY <2>1
    <3>2. (y \o z)[i] = y[i]
      BY <1>2, <1>5, <1>6, <2>1
    <3> QED BY <1>2, <1>4, <3>1, <3>2
  <2>2. CASE ~(i <= b - a)
    <3>1. i - (b - a) \in 1..c - b /\ b + (i - (b - a)) = a + i
      BY <2>2
    <3>2. (y \o z)[i] = z[i - (b - a)]
      BY <1>2, <1>5, <1>6, <2>2
    <3> QED BY <1>3, <1>4, <3>1, <3>2
  <2> QED BY <2>1, <2>2
<1> QED BY <1>4, <1>5, <1>6, <1>7, SeqEqual DEF y, z, w

\* No sample twice.
Distinct(x) == \A i, j \in 1..Len(x) : x[i] = x[j] => i = j

\* After what it shares, a chunk has no more of the last sample of the one before.
GoesOn(cs, i, s) ==
  \A j \in Shared(s) + 1 .. Len(cs[i].pcm) : cs[i].pcm[j] # cs[i - 1].pcm[Len(cs[i - 1].pcm)]

\* What a list of chunks is: no empty or too long one, each that follows a flagged
\* one starts with the end of that one and goes on, and the last is not flagged.
Linked(cs, s) ==
  /\ cs \in Seq(Pieces)
  /\ \A i \in 1..Len(cs) :
       /\ Len(cs[i].pcm) \in 1..s.max
       /\ Follows(cs, i) =>
            /\ SubSeq(cs[i].pcm, 1, Shared(s))
                 = SubSeq(cs[i - 1].pcm, Len(cs[i - 1].pcm) - Shared(s) + 1, Len(cs[i - 1].pcm))
            /\ Shared(s) < Len(cs[i].pcm) /\ Shared(s) < Len(cs[i - 1].pcm)
            /\ GoesOn(cs, i, s)
  /\ cs # << >> => ~cs[Len(cs)].overlap

\* What each chunk adds.
Adds(cs, s) == [i \in 1..Len(cs) |-> Fresh(cs, i, s)]

LEMMA AddsTyped ==
  ASSUME NEW s \in Setting, s.max > 0, NEW cs, Linked(cs, s)
  PROVE  /\ Adds(cs, s) \in Seq(Seq(Nat)) /\ Len(Adds(cs, s)) = Len(cs) /\ Len(cs) \in Nat
         /\ \A i \in 1..Len(cs) : Adds(cs, s)[i] = Fresh(cs, i, s)
<1>1. cs \in Seq(Pieces) /\ Len(cs) \in Nat
  BY DEF Linked
<1>2. ASSUME NEW i \in 1..Len(cs) PROVE Fresh(cs, i, s) \in Seq(Nat)
  <2> DEFINE x == cs[i].pcm
  <2>1. x \in Seq(Nat) /\ Len(x) \in Nat
    <3>1. cs[i] \in Pieces
      BY <1>1
    <3> QED BY <3>1 DEF Pieces
  <2>2. Shared(s) \in Nat /\ (Follows(cs, i) => Shared(s) <= Len(x))
    <3>1. Shared(s) \in 0..s.max - 1 /\ s.max \in Nat
      BY StepTyped
    <3>2. Shared(s) \in Nat
      BY <3>1
    <3>3. Follows(cs, i) => Shared(s) < Len(x)
      BY DEF Linked
    <3> HIDE DEF x
    <3> QED BY <2>1, <3>2, <3>3
  <2>3. Fresh(cs, i, s) = SubSeq(x, IF Follows(cs, i) THEN Shared(s) + 1 ELSE 1, Len(x))
    BY DEF Fresh
  <2> HIDE DEF x
  <2>4. CASE Follows(cs, i)
    BY <2>1, <2>2, <2>3, <2>4, Piece
  <2>5. CASE ~Follows(cs, i)
    BY <2>1, <2>3, <2>5, SubSeqFull
  <2> QED BY <2>4, <2>5
<1> QED BY <1>1, <1>2 DEF Adds

LEMMA LinkedConcat ==
  ASSUME NEW s \in Setting, s.max > 0, NEW a, Linked(a, s), NEW b, Linked(b, s)
  PROVE  Linked(a \o b, s) /\ FlattenSeq(Adds(a \o b, s)) = FlattenSeq(Adds(a, s)) \o FlattenSeq(Adds(b, s))
<1> DEFINE m == Len(a)
           n == Len(b)
           c == a \o b
<1>1. a \in Seq(Pieces) /\ b \in Seq(Pieces) /\ m \in Nat /\ n \in Nat
  BY DEF Linked
<1>2. c \in Seq(Pieces) /\ Len(c) = m + n
      /\ \A i \in 1..m + n : c[i] = IF i <= m THEN a[i] ELSE b[i - m]
  BY <1>1, ConcatProperties
<1>3. /\ a # << >> => m > 0 /\ ~a[m].overlap
      /\ b # << >> => n > 0 /\ ~b[n].overlap
      /\ a = << >> => m = 0
      /\ b = << >> => n = 0
  BY <1>1, EmptySeq DEF Linked
<1> HIDE DEF m, n, c
<1>4. \A i \in 1..m : c[i] = a[i] /\ i \in 1..m + n
  BY <1>1, <1>2
<1>5. \A i \in 1..n : c[m + i] = b[i] /\ m + i \in 1..m + n
  <2>1. \A i \in 1..n : m + i \in 1..m + n /\ ~(m + i <= m) /\ (m + i) - m = i
    BY <1>1
  <2> QED BY <1>2, <2>1
<1>6. ASSUME NEW i \in 1..m
      PROVE  (Follows(c, i) <=> Follows(a, i)) /\ (i > 1 => c[i - 1] = a[i - 1])
  <2>1. i > 1 => i - 1 \in 1..m
    BY <1>1
  <2> QED BY <1>4, <2>1 DEF Follows
<1>7. ASSUME NEW i \in 1..n
      PROVE  (Follows(c, m + i) <=> Follows(b, i)) /\ (i > 1 => c[(m + i) - 1] = b[i - 1])
  <2>1. CASE i > 1
    <3>1. i - 1 \in 1..n /\ m + (i - 1) = (m + i) - 1 /\ m + i > 1
      BY <1>1, <2>1
    <3>2. c[(m + i) - 1] = b[i - 1]
      BY <1>5, <3>1
    <3> QED BY <2>1, <3>1, <3>2 DEF Follows
  <2>2. CASE i = 1
    <3>1. (m + i) - 1 = m /\ ~Follows(b, i)
      BY <1>1, <2>2 DEF Follows
    <3>2. m > 0 => c[m] = a[m] /\ ~a[m].overlap
      <4>1. m > 0 => m \in 1..m /\ a # << >>
        BY <1>1, EmptySeq DEF m
      <4> QED BY <1>3, <1>4, <4>1
    <3>3. ~Follows(c, m + i)
      BY <1>1, <2>2, <3>1, <3>2 DEF Follows
    <3> QED BY <2>2, <3>1, <3>3
  <2> QED BY <2>1, <2>2
<1> DEFINE Good(cs, i) ==
             /\ Len(cs[i].pcm) \in 1..s.max
             /\ Follows(cs, i) =>
                  /\ SubSeq(cs[i].pcm, 1, Shared(s))
                       = SubSeq(cs[i - 1].pcm, Len(cs[i - 1].pcm) - Shared(s) + 1, Len(cs[i - 1].pcm))
                  /\ Shared(s) < Len(cs[i].pcm) /\ Shared(s) < Len(cs[i - 1].pcm)
                  /\ GoesOn(cs, i, s)
<1>8. (\A i \in 1..m : Good(a, i)) /\ (\A i \in 1..n : Good(b, i))
  BY DEF Linked, m, n
<1>9. ASSUME NEW i \in 1..m PROVE Good(c, i)
  <2>1. Good(a, i)
    BY <1>8
  <2>2. CASE Follows(a, i)
    <3>1. i > 1
      BY <2>2 DEF Follows
    <3>2. c[i] = a[i] /\ c[i - 1] = a[i - 1]
      BY <1>4, <1>6, <3>1
    <3> QED BY <2>1, <2>2, <3>2 DEF GoesOn
  <2>3. CASE ~Follows(a, i)
    <3>1. c[i] = a[i] /\ ~Follows(c, i)
      BY <1>4, <1>6, <2>3
    <3> QED BY <2>1, <3>1
  <2> QED BY <2>2, <2>3
<1>10. ASSUME NEW i \in 1..n PROVE Good(c, m + i)
  <2>1. Good(b, i)
    BY <1>8
  <2>2. CASE Follows(b, i)
    <3>1. i > 1
      BY <2>2 DEF Follows
    <3>2. c[m + i] = b[i] /\ c[(m + i) - 1] = b[i - 1]
      BY <1>5, <1>7, <3>1
    <3> QED BY <2>1, <2>2, <3>2 DEF GoesOn
  <2>3. CASE ~Follows(b, i)
    <3>1. c[m + i] = b[i] /\ ~Follows(c, m + i)
      BY <1>5, <1>7, <2>3
    <3> QED BY <2>1, <3>1
  <2> QED BY <2>2, <2>3
<1>11. \A i \in 1..m + n : i \in 1..m \/ \E j \in 1..n : i = m + j
  <2>1. \A i \in 1..m + n : ~(i \in 1..m) => i - m \in 1..n /\ i = m + (i - m)
    BY <1>1
  <2> QED BY <2>1
<1>12. Linked(c, s)
  <2>1. \A i \in 1..m + n : Good(c, i)
    BY <1>9, <1>10, <1>11
  <2>2. c # << >> => ~c[Len(c)].overlap
    <3>1. CASE n > 0
      <4>1. n \in 1..n /\ b # << >>
        BY <1>1, <1>3, <3>1
      <4> QED BY <1>2, <1>3, <1>5, <4>1
    <3>2. CASE n = 0 /\ m > 0
      <4>1. m \in 1..m /\ a # << >> /\ m + n = m
        BY <1>1, <1>3, <3>2
      <4> QED BY <1>2, <1>3, <1>4, <4>1
    <3>3. CASE n = 0 /\ m = 0
      BY <1>2, <3>3, EmptySeq
    <3> QED BY <1>1, <3>1, <3>2, <3>3
  <2> QED BY <1>2, <2>1, <2>2 DEF Linked
<1>13. Adds(c, s) = Adds(a, s) \o Adds(b, s)
  <2> DEFINE x == Adds(a, s)
             y == Adds(b, s)
             z == Adds(c, s)
  <2>1. /\ x \in Seq(Seq(Nat)) /\ Len(x) = m /\ \A i \in 1..m : x[i] = Fresh(a, i, s)
        /\ y \in Seq(Seq(Nat)) /\ Len(y) = n /\ \A i \in 1..n : y[i] = Fresh(b, i, s)
    BY AddsTyped DEF m, n
  <2>2. z \in Seq(Seq(Nat)) /\ Len(z) = m + n /\ \A i \in 1..m + n : z[i] = Fresh(c, i, s)
    BY <1>2, <1>12, AddsTyped
  <2> HIDE DEF x, y, z
  <2>3. /\ x \o y \in Seq(Seq(Nat)) /\ Len(x \o y) = m + n
        /\ \A i \in 1..m + n : (x \o y)[i] = IF i <= m THEN x[i] ELSE y[i - m]
    BY <2>1, ConcatProperties
  <2>4. \A i \in 1..m : Fresh(c, i, s) = Fresh(a, i, s)
    BY <1>4, <1>6 DEF Fresh
  <2>5. \A i \in 1..n : Fresh(c, m + i, s) = Fresh(b, i, s)
    BY <1>5, <1>7 DEF Fresh
  <2>6. ASSUME NEW i \in 1..m + n PROVE z[i] = (x \o y)[i]
    <3>1. CASE i \in 1..m
      BY <1>1, <2>1, <2>2, <2>3, <2>4, <3>1
    <3>2. CASE ~(i \in 1..m)
      <4>1. i - m \in 1..n /\ m + (i - m) = i /\ ~(i <= m)
        BY <1>1, <3>2
      <4>2. (x \o y)[i] = y[i - m]
        BY <2>3, <4>1
      <4>3. Fresh(c, m + (i - m), s) = Fresh(b, i - m, s)
        BY <2>5, <4>1
      <4> QED BY <2>1, <2>2, <4>1, <4>2, <4>3
    <3> QED BY <3>1, <3>2
  <2> QED BY <2>2, <2>3, <2>6, SeqEqual DEF x, y, z
<1>14. Adds(a, s) \in Seq(Seq(Nat)) /\ Adds(b, s) \in Seq(Seq(Nat))
  BY AddsTyped
<1> QED BY <1>12, <1>13, <1>14, FlattenConcat DEF c

\* A long segment comes out of split_with_overlap as it went in.
LEMMA SplitFound ==
  ASSUME NEW s \in Setting, s.max > 0, NEW pcm \in Seq(Nat), Len(pcm) > s.max, Distinct(pcm)
  PROVE  Linked(Split(pcm, s), s) /\ FlattenSeq(Adds(Split(pcm, s), s)) = pcm
<1> DEFINE n == Len(pcm)
           q == Cardinality(Starts(n, s))
           step == StepSamples(s)
           max == s.max
           shared == Shared(s)
           start(i) == (i - 1) * step
           stop(i) == IF start(i) + max <= n THEN start(i) + max ELSE n
           cs == Split(pcm, s)
<1>1. n \in Nat /\ max \in Nat /\ 0 < max /\ max < n /\ step \in Nat \ {0} /\ step <= max
      /\ shared \in Nat /\ shared = max - step /\ shared < max
  <2>1. n \in Nat /\ max \in Nat /\ 0 < max /\ max < n /\ step \in Nat \ {0} /\ step <= max
    BY StepTyped
  <2>2. shared = max - step
    BY DEF Shared
  <2> HIDE DEF n, max, step, shared
  <2> QED BY <2>1, <2>2
<1>2. /\ q \in Nat /\ q > 0
      /\ \A i \in 1..q : start(i) \in 0..n - 1
      /\ \A i \in 1..q - 1 : start(i) + max < n /\ start(i + 1) = start(i) + step
      /\ start(q) + max >= n
  BY <1>1, PiecesLie
<1>3. /\ cs \in Seq(Pieces) /\ Len(cs) = q
      /\ \A i \in 1..q : /\ cs[i].pcm = SubSeq(pcm, start(i) + 1, stop(i))
                         /\ cs[i].overlap <=> stop(i) # n
                         /\ Len(cs[i].pcm) = stop(i) - start(i)
  BY PieceOf
<1>4. start(1) = 0
  <2>1. \A x \in Nat : (1 - 1) * x = 0
    OBVIOUS
  <2> QED BY <1>1, <2>1
<1> HIDE DEF n, q, step, max, shared, start, cs
<1>5. \A i \in 1..q : /\ start(i) \in Nat /\ stop(i) \in Nat /\ start(i) < stop(i) /\ stop(i) <= n
                      /\ stop(i) - start(i) \in 1..max
  BY <1>1, <1>2
<1>6. ASSUME NEW i \in 1..q, i # q
      PROVE  stop(i) = start(i) + max /\ stop(i) < n /\ start(i + 1) = start(i) + step
  <2>1. i \in 1..q - 1
    BY <1>2, <1>6
  <2>2. start(i) + max < n /\ start(i + 1) = start(i) + step
    BY <1>2, <2>1
  <2>3. start(i) \in Nat
    BY <1>5
  <2>4. stop(i) = start(i) + max
    BY <1>1, <2>2, <2>3
  <2> QED BY <2>2, <2>4
<1>7. stop(q) = n /\ q \in 1..q
  <2>1. q \in 1..q
    BY <1>2
  <2> DEFINE x == start(q) + max
  <2>2. x \in Nat /\ x >= n
    BY <1>1, <1>2, <1>5, <2>1
  <2>3. stop(q) = IF x <= n THEN x ELSE n
    OBVIOUS
  <2> HIDE DEF x, stop
  <2> QED BY <1>1, <2>1, <2>2, <2>3
<1> HIDE DEF stop
<1>8. ASSUME NEW i \in 1..q PROVE cs[i].overlap <=> i # q
  <2>1. cs[i].overlap <=> stop(i) # n
    BY <1>3
  <2>2. i # q => stop(i) < n
    BY <1>6
  <2>3. stop(i) \in Nat
    BY <1>5
  <2> QED BY <1>1, <1>7, <2>1, <2>2, <2>3
<1>9. \A i \in 1..q : i > 1 => i - 1 \in 1..q /\ i - 1 # q /\ (i - 1) + 1 = i
  BY <1>2
<1>10. \A i \in 1..q : Follows(cs, i) <=> i > 1
  BY <1>8, <1>9 DEF Follows
\* Where a piece after the first starts and ends, from the one before.
<1>11. ASSUME NEW i \in 1..q, i > 1
       PROVE  /\ start(i) = start(i - 1) + step /\ stop(i - 1) = start(i - 1) + max
              /\ stop(i - 1) = start(i) + shared /\ stop(i - 1) < stop(i)
              /\ start(i) + shared <= stop(i) /\ start(i) \in Nat /\ stop(i) \in Nat /\ start(i - 1) \in Nat
  <2> DEFINE j == i - 1
  <2>1. j \in 1..q /\ j # q /\ j + 1 = i
    BY <1>9, <1>11
  <2> HIDE DEF j
  <2>2. stop(j) = start(j) + max /\ stop(j) < n /\ start(i) = start(j) + step
    BY <1>6, <2>1
  <2>3. start(j) \in Nat /\ start(i) \in Nat /\ stop(i) \in Nat /\ stop(j) \in Nat
    BY <1>5, <2>1
  <2>4. stop(j) < stop(i)
    <3>1. CASE i = q
      BY <1>7, <2>2, <3>1
    <3>2. CASE i # q
      <4>1. stop(i) = start(i) + max
        BY <1>6, <3>2
      <4> QED BY <1>1, <2>2, <2>3, <4>1
    <3> QED BY <3>1, <3>2
  <2>5. stop(j) = start(i) + shared
    BY <1>1, <2>2, <2>3
  <2>6. start(i) + shared <= stop(i)
    BY <1>1, <2>3, <2>4, <2>5
  <2> QED BY <2>2, <2>3, <2>4, <2>5, <2>6 DEF j
<1>12. pcm \in Seq(Nat) /\ n = Len(pcm)
  BY DEF n
<1>13. ASSUME NEW i \in 1..q, i > 1
       PROVE  /\ SubSeq(cs[i].pcm, 1, shared)
                   = SubSeq(cs[i - 1].pcm, Len(cs[i - 1].pcm) - shared + 1, Len(cs[i - 1].pcm))
              /\ shared < Len(cs[i].pcm) /\ shared < Len(cs[i - 1].pcm)
              /\ GoesOn(cs, i, s)
  <2> DEFINE a == start(i)
             b == stop(i)
             c == start(i - 1)
             d == stop(i - 1)
  <2>1. /\ a = c + step /\ d = c + max /\ d = a + shared /\ d < b /\ a + shared <= b
        /\ a \in Nat /\ b \in Nat /\ c \in Nat
    BY <1>11, <1>13
  <2>2. b <= n
    BY <1>5
  <2>3. /\ cs[i].pcm = SubSeq(pcm, a + 1, b) /\ Len(cs[i].pcm) = b - a
        /\ cs[i - 1].pcm = SubSeq(pcm, c + 1, d) /\ Len(cs[i - 1].pcm) = d - c
    BY <1>3, <1>9, <1>13
  <2> HIDE DEF a, b, c, d
  <2>4. d \in Nat /\ c <= d /\ d <= n /\ a <= b
    BY <1>1, <2>1, <2>2
  <2>5. SubSeq(SubSeq(pcm, a + 1, b), 0 + 1, shared) = SubSeq(pcm, (a + 0) + 1, a + shared)
    <3>1. 0 <= shared /\ shared <= b - a
      BY <1>1, <2>1
    <3> QED BY <1>1, <1>12, <2>1, <2>2, <2>4, <3>1, PieceOfPiece
  <2>6. SubSeq(SubSeq(pcm, c + 1, d), step + 1, max) = SubSeq(pcm, (c + step) + 1, c + max)
    <3>1. step <= max /\ max <= d - c /\ step \in Nat
      BY <1>1, <2>1
    <3> QED BY <1>1, <1>12, <2>1, <2>2, <2>4, <3>1, PieceOfPiece
  <2>7. d - c = max /\ max - shared = step /\ 0 + 1 = 1 /\ a + 0 = a
    BY <1>1, <2>1
  <2>8. shared < b - a /\ shared < d - c
    BY <1>1, <2>1
  <2>9. GoesOn(cs, i, s)
    <3>1. cs[i - 1].pcm[Len(cs[i - 1].pcm)] = pcm[d] /\ d \in 1..n
      <4>1. d - c \in 1..d - c /\ c + (d - c) = d /\ d \in 1..n
        BY <1>1, <2>1, <2>4
      <4>2. SubSeq(pcm, c + 1, d)[d - c] = pcm[c + (d - c)]
        <5>1. c \in Nat /\ d \in Nat /\ c <= d /\ d <= Len(pcm)
          BY <1>12, <2>1, <2>4
        <5>2. \A j \in 1..d - c : SubSeq(pcm, c + 1, d)[j] = pcm[c + j]
          BY <1>12, <5>1, Piece
        <5> QED BY <4>1, <5>2
      <4> QED BY <2>3, <4>1, <4>2
    <3>2. ASSUME NEW j \in shared + 1 .. b - a PROVE cs[i].pcm[j] = pcm[a + j] /\ a + j \in 1..n /\ a + j # d
      <4>1. j \in 1..b - a /\ a + j \in 1..n /\ a + j # d
        BY <1>1, <2>1, <2>2
      <4>2. SubSeq(pcm, a + 1, b)[j] = pcm[a + j]
        <5>1. a \in Nat /\ b \in Nat /\ a <= b /\ b <= Len(pcm)
          BY <1>12, <2>1, <2>2, <2>4
        <5> QED BY <1>12, <4>1, <5>1, Piece
      <4> QED BY <2>3, <4>1, <4>2
    <3>3. \A j, k \in 1..n : pcm[j] = pcm[k] => j = k
      BY <1>12 DEF Distinct
    <3>4. ASSUME NEW j \in shared + 1 .. Len(cs[i].pcm)
          PROVE  cs[i].pcm[j] # cs[i - 1].pcm[Len(cs[i - 1].pcm)]
      <4>1. j \in shared + 1 .. b - a
        BY <2>3
      <4>2. cs[i].pcm[j] = pcm[a + j] /\ a + j \in 1..n /\ a + j # d
        BY <3>2, <4>1
      <4>3. pcm[a + j] # pcm[d]
        BY <3>1, <3>3, <4>2
      <4> QED BY <3>1, <4>2, <4>3
    <3> QED BY <3>4 DEF GoesOn, shared
  <2> QED BY <2>1, <2>3, <2>5, <2>6, <2>7, <2>8, <2>9
<1>14. Linked(cs, s)
  <2>1. cs # << >> => ~cs[Len(cs)].overlap
    BY <1>3, <1>7, <1>8
  <2>2. \A i \in 1..q : Len(cs[i].pcm) \in 1..max
    BY <1>3, <1>5
  <2> QED BY <1>3, <1>10, <1>13, <2>1, <2>2 DEF Linked, max, shared
<1>15. ASSUME NEW i \in 1..q
       PROVE  Fresh(cs, i, s) = SubSeq(pcm, (IF i = 1 THEN 0 ELSE stop(i - 1)) + 1, stop(i))
  <2> DEFINE a == start(i)
             b == stop(i)
  <2>1. a \in Nat /\ b \in Nat /\ a <= b /\ b <= n
    BY <1>5
  <2>2. cs[i].pcm = SubSeq(pcm, a + 1, b) /\ Len(cs[i].pcm) = b - a
    BY <1>3
  <2>3. CASE i > 1
    <3>1. Fresh(cs, i, s) = SubSeq(cs[i].pcm, shared + 1, Len(cs[i].pcm))
      BY <1>10, <2>3 DEF Fresh, shared
    <3>2. stop(i - 1) = a + shared /\ a + shared <= b
      BY <1>11, <2>3
    <3> HIDE DEF a, b
    <3>3. shared <= b - a /\ b - a <= b - a /\ b - a \in Nat /\ a + (b - a) = b
      BY <1>1, <2>1, <3>2
    <3>4. SubSeq(SubSeq(pcm, a + 1, b), shared + 1, b - a) = SubSeq(pcm, (a + shared) + 1, a + (b - a))
      BY <1>1, <1>12, <2>1, <3>3, PieceOfPiece
    <3>5. Fresh(cs, i, s) = SubSeq(SubSeq(pcm, a + 1, b), shared + 1, b - a)
      BY <2>2, <3>1
    <3>6. Fresh(cs, i, s) = SubSeq(pcm, (a + shared) + 1, b)
      BY <3>3, <3>4, <3>5
    <3>7. Fresh(cs, i, s) = SubSeq(pcm, stop(i - 1) + 1, b)
      BY <3>2, <3>6
    <3>8. (IF i = 1 THEN 0 ELSE stop(i - 1)) = stop(i - 1)
      BY <2>3
    <3> QED BY <3>7, <3>8 DEF b
  <2>4. CASE i = 1
    <3>1. Fresh(cs, i, s) = SubSeq(cs[i].pcm, 1, Len(cs[i].pcm))
      BY <1>10, <2>4 DEF Fresh
    <3>2. a = 0
      BY <1>4, <2>4
    <3> HIDE DEF a, b
    <3>3. SubSeq(pcm, a + 1, b) \in Seq(Nat)
      BY <1>12, <2>1, Piece
    <3>4. Fresh(cs, i, s) = SubSeq(pcm, a + 1, b)
      BY <2>2, <3>1, <3>3, SubSeqFull
    <3> QED BY <2>4, <3>2, <3>4 DEF b
  <2> QED BY <2>3, <2>4
<1>16. Adds(cs, s) \in Seq(Seq(Nat)) /\ Len(Adds(cs, s)) = q /\ \A i \in 1..q : Adds(cs, s)[i] = Fresh(cs, i, s)
  BY <1>1, <1>3, <1>14, AddsTyped DEF max
<1>17. PICK f \in [0..q -> Seq(Nat)] :
         /\ f[0] = << >> /\ FlattenSeq(Adds(cs, s)) = f[q]
         /\ \A i \in 1..q : f[i] = f[i - 1] \o Adds(cs, s)[i]
  <2> DEFINE x == Adds(cs, s)
  <2>1. \E f \in [0..Len(x) -> Seq(Nat)] :
          /\ f[0] = << >> /\ FlattenSeq(x) = f[Len(x)]
          /\ \A i \in 1..Len(x) : f[i] = f[i - 1] \o x[i]
    BY <1>16, FlattenCourse
  <2> HIDE DEF x
  <2>2. Len(x) = q
    BY <1>16 DEF x
  <2> QED BY <2>1, <2>2 DEF x
<1> DEFINE S == {i \in 0..q : i > 0 => f[i] = SubSeq(pcm, 1, stop(i))}
<1>18. 0 \in S
  BY <1>2
<1>19. ASSUME NEW i \in 0..q - 1, i \in S PROVE i + 1 \in S
  <2>1. i + 1 \in 1..q /\ (i + 1) - 1 = i /\ i + 1 \in 0..q
    BY <1>2
  <2>2. f[i + 1] = f[i] \o Fresh(cs, i + 1, s)
    BY <1>16, <1>17, <2>1
  <2>3. CASE i = 0
    <3>1. Fresh(cs, i + 1, s) = SubSeq(pcm, 0 + 1, stop(i + 1)) /\ f[i] = << >>
      BY <1>15, <1>17, <2>1, <2>3
    <3>2. SubSeq(pcm, 0 + 1, stop(i + 1)) \in Seq(Nat)
      BY <1>5, <1>12, <2>1, Piece
    <3>3. << >> \o SubSeq(pcm, 0 + 1, stop(i + 1)) = SubSeq(pcm, 0 + 1, stop(i + 1))
      BY <3>2, ConcatEmptySeq
    <3>4. f[i + 1] = SubSeq(pcm, 1, stop(i + 1))
      BY <2>2, <3>1, <3>3
    <3> QED BY <2>1, <3>4
  <2>4. CASE i # 0
    <3>1. i + 1 > 1 /\ i + 1 # 1 /\ i \in 1..q
      BY <1>2, <2>4
    <3>2. Fresh(cs, i + 1, s) = SubSeq(pcm, stop(i) + 1, stop(i + 1))
      BY <1>15, <2>1, <3>1
    <3>3. f[i] = SubSeq(pcm, 0 + 1, stop(i))
      BY <1>19, <3>1
    <3>4. stop(i) \in Nat /\ stop(i + 1) \in Nat /\ stop(i) < stop(i + 1) /\ stop(i + 1) <= n
      BY <1>5, <1>11, <2>1, <3>1
    <3>5. SubSeq(pcm, 0 + 1, stop(i)) \o SubSeq(pcm, stop(i) + 1, stop(i + 1)) = SubSeq(pcm, 0 + 1, stop(i + 1))
      <4> DEFINE b == stop(i)
                 c == stop(i + 1)
      <4>1. 0 \in Nat /\ b \in Nat /\ c \in Nat /\ 0 <= b /\ b <= c /\ c <= Len(pcm)
        BY <1>12, <3>4
      <4> HIDE DEF b, c
      <4>2. SubSeq(pcm, 0 + 1, b) \o SubSeq(pcm, b + 1, c) = SubSeq(pcm, 0 + 1, c)
        BY <1>12, <4>1, PieceAfterPiece
      <4> QED BY <4>2 DEF b, c
    <3>6. f[i + 1] = SubSeq(pcm, 0 + 1, stop(i + 1))
      BY <2>2, <3>2, <3>3, <3>5
    <3> QED BY <2>1, <3>6
  <2> QED BY <2>3, <2>4
<1>20. q \in S
  <2> HIDE DEF S
  <2> QED BY <1>2, <1>18, <1>19, InductionUpTo, q \in 0..q
<1>21. FlattenSeq(Adds(cs, s)) = SubSeq(pcm, 1, n)
  BY <1>2, <1>7, <1>17, <1>20
<1> QED BY <1>12, <1>14, <1>21, SubSeqFull DEF cs, n

LEMMA PcmTyped ==
  ASSUME NEW samples \in Nat, NEW seg \in Span(samples)
  PROVE  /\ Pcm(seg) \in Seq(Nat) /\ Len(Pcm(seg)) = seg[2] - seg[1] /\ seg[2] - seg[1] \in Nat
         /\ Distinct(Pcm(seg))
         /\ \A i \in 1..Len(Pcm(seg)) : Pcm(seg)[i] = seg[1] + i
<1> DEFINE a == seg[1]
           b == seg[2]
<1>1. a \in Nat /\ b \in Nat /\ a <= b
  BY DEF Span, Pairs
<1> HIDE DEF a, b
<1>2. b - a \in Nat /\ \A i \in 1..b - a : a + i \in Nat
  BY <1>1
<1> DEFINE x == [i \in 1..b - a |-> a + i]
<1>3. x \in [1..b - a -> Nat] /\ \A i \in 1..b - a : x[i] = a + i
  BY <1>2
<1> HIDE DEF x
<1>4. x \in Seq(Nat) /\ Len(x) = b - a
  BY <1>2, <1>3, SeqDef, LenProperties
<1>5. \A i, j \in 1..b - a : a + i = a + j => i = j
  BY <1>1
<1>6. Distinct(x)
  BY <1>3, <1>4, <1>5 DEF Distinct
<1>7. Pcm(seg) = x
  BY DEF Pcm, x, a, b
<1> QED BY <1>2, <1>3, <1>4, <1>6, <1>7 DEF a, b

\* What is gathered: the chunks that are ready, and the samples of the next one.
Accs == [ready : Seq(Pieces), current : Seq(Nat)]
Empty == [ready |-> << >>, current |-> << >>]

LEMMA EmptyAcc == Empty \in Accs
<1> QED BY EmptySeq DEF Empty, Accs

LEMMA FlushType ==
  ASSUME NEW acc \in Accs
  PROVE  Flush(acc) \in Seq(Pieces)
<1>1. acc.ready \in Seq(Pieces) /\ acc.current \in Seq(Nat)
  BY DEF Accs
<1>2. NewChunk(acc.current, FALSE) \in Pieces
  BY <1>1 DEF NewChunk, Pieces
<1> QED BY <1>1, <1>2, OneMore DEF Flush

LEMMA AddSegmentType ==
  ASSUME NEW acc \in Accs, NEW pcm \in Seq(Nat), NEW s \in Setting
  PROVE  AddSegment(acc, pcm, s) \in Accs
<1>1. acc.ready \in Seq(Pieces) /\ acc.current \in Seq(Nat) /\ Flush(acc) \in Seq(Pieces)
  BY FlushType DEF Accs
<1>2. Split(pcm, s) \in Seq(Pieces)
  BY PieceOf
<1>3. Flush(acc) \o Split(pcm, s) \in Seq(Pieces) /\ acc.current \o pcm \in Seq(Nat) /\ << >> \in Seq(Nat)
  BY <1>1, <1>2, ConcatProperties, EmptySeq
<1>4. [acc EXCEPT !.current = @ \o pcm] \in Accs
  BY <1>3 DEF Accs
<1> QED BY <1>1, <1>3, <1>4 DEF AddSegment, Accs

LEMMA ChunkedCourse ==
  ASSUME NEW samples \in Nat, NEW segs \in Seq(Span(samples)), NEW s \in Setting
  PROVE  \E f \in [0..Len(segs) -> Accs] :
           /\ f[0] = Empty /\ Chunked(segs, s) = Flush(f[Len(segs)])
           /\ \A i \in 1..Len(segs) : f[i] = AddSegment(f[i - 1], Pcm(segs[i]), s)
<1> DEFINE n == Len(segs)
           F == [i \in 1..n |-> [x \in Accs |-> AddSegment(x, Pcm(segs[i]), s)]]
           after[i \in 0..n] == IF i = 0 THEN Empty ELSE AddSegment(after[i - 1], Pcm(segs[i]), s)
<1>1. n \in Nat /\ Empty \in Accs
  BY EmptyAcc
<1>2. Chunked(segs, s) = Flush(after[Len(segs)])
  BY DEF Chunked, Empty
<1>3. after = CHOOSE g : g = [i \in 0..n |-> IF i = 0 THEN Empty ELSE AddSegment(g[i - 1], Pcm(segs[i]), s)]
  OBVIOUS
<1> HIDE DEF n, after
<1>4. F \in Turns(Accs, n) /\ \A i \in 1..n, x \in Accs : F[i][x] = AddSegment(x, Pcm(segs[i]), s)
  BY <1>1, AddSegmentType, PcmTyped DEF Turns, n
<1> HIDE DEF F
<1>5. PICK h : h \in Courses(Accs, n, Empty, F)
  BY <1>1, <1>4, Recursion
<1>6. h \in [0..n -> Accs] /\ h[0] = Empty /\ \A i \in 1..n : h[i] = F[i][h[i - 1]]
  BY <1>5 DEF Courses
<1>7. ASSUME NEW i \in 1..n PROVE h[i] = AddSegment(h[i - 1], Pcm(segs[i]), s)
  <2>1. i - 1 \in 0..n
    BY <1>1
  <2>2. h[i - 1] \in Accs
    BY <1>6, <2>1
  <2> QED BY <1>4, <1>6, <2>2
<1>8. h = [i \in 0..n |-> IF i = 0 THEN Empty ELSE AddSegment(h[i - 1], Pcm(segs[i]), s)]
  BY <1>1, <1>6, <1>7
<1>9. after = [i \in 0..n |-> IF i = 0 THEN Empty ELSE AddSegment(after[i - 1], Pcm(segs[i]), s)]
  BY <1>3, <1>8
<1>10. /\ after = [i \in 0..n |-> after[i]] /\ after[0] = Empty
       /\ \A i \in 1..n : after[i] = AddSegment(after[i - 1], Pcm(segs[i]), s)
  <2> DEFINE turn(i) == IF i = 0 THEN Empty ELSE AddSegment(after[i - 1], Pcm(segs[i]), s)
  <2>1. after = [i \in 0..n |-> turn(i)]
    BY <1>9
  <2> HIDE DEF turn
  <2>2. after = [i \in 0..n |-> after[i]] /\ \A i \in 0..n : after[i] = turn(i)
    BY <2>1
  <2>3. 0 \in 0..n /\ \A i \in 1..n : i \in 0..n /\ i # 0
    BY <1>1
  <2> QED BY <2>2, <2>3 DEF turn
<1>11. \A i \in 1..n : after[i - 1] \in Accs => after[i] = F[i][after[i - 1]]
  BY <1>4, <1>10
<1>12. after \in Courses(Accs, n, Empty, F)
  BY <1>1, <1>4, <1>10, <1>11, CourseUnique
<1>13. after \in [0..n -> Accs]
  BY <1>12 DEF Courses
<1> QED BY <1>2, <1>10, <1>13 DEF n

LEMMA ChunkedTyped ==
  ASSUME NEW samples \in Nat, NEW segs \in Seq(Span(samples)), NEW s \in Setting
  PROVE  Chunked(segs, s) \in Seq(Pieces)
<1>1. PICK f \in [0..Len(segs) -> Accs] :
        /\ f[0] = Empty /\ Chunked(segs, s) = Flush(f[Len(segs)])
        /\ \A i \in 1..Len(segs) : f[i] = AddSegment(f[i - 1], Pcm(segs[i]), s)
  BY ChunkedCourse
<1>2. Len(segs) \in 0..Len(segs)
  OBVIOUS
<1> QED BY <1>1, <1>2, FlushType

\* What has been gathered after some turns is what the segments hold.
Gathers(acc, pcm, s) ==
  /\ acc \in Accs /\ Linked(acc.ready, s) /\ Len(acc.current) <= s.max
  /\ FlattenSeq(Adds(acc.ready, s)) \o acc.current = pcm

LEMMA FlushKeeps ==
  ASSUME NEW s \in Setting, s.max > 0, NEW pcm, NEW acc, Gathers(acc, pcm, s)
  PROVE  Linked(Flush(acc), s) /\ FlattenSeq(Adds(Flush(acc), s)) = pcm
<1>1. acc.ready \in Seq(Pieces) /\ acc.current \in Seq(Nat) /\ Linked(acc.ready, s)
      /\ FlattenSeq(Adds(acc.ready, s)) \o acc.current = pcm /\ Len(acc.current) <= s.max
  BY DEF Gathers, Accs
<1>2. FlattenSeq(Adds(acc.ready, s)) \in Seq(Nat)
  BY <1>1, AddsTyped, FlattenConcat
<1>3. CASE acc.current = << >>
  BY <1>1, <1>2, <1>3, ConcatEmptySeq DEF Flush
<1>4. CASE acc.current # << >>
  <2> DEFINE c == NewChunk(acc.current, FALSE)
             d == <<c>>
  <2>1. c \in Pieces /\ c.pcm = acc.current /\ c.overlap = FALSE
    BY <1>1 DEF NewChunk, Pieces
  <2> HIDE DEF c
  <2>2. d \in Seq(Pieces) /\ Len(d) = 1 /\ d[1] = c /\ d # << >>
    BY <2>1
  <2>3. Flush(acc) = acc.ready \o d
    BY <1>1, <1>4, <2>1, AppendIsConcat DEF Flush, c
  <2> HIDE DEF d
  <2>4. ~Follows(d, 1)
    BY DEF Follows
  <2>5. Len(acc.current) \in 1..s.max
    BY <1>1, <1>4, EmptySeq, StepTyped
  <2>6. Linked(d, s)
    BY <2>1, <2>2, <2>4, <2>5 DEF Linked
  <2>7. Fresh(d, 1, s) = acc.current
    BY <1>1, <2>1, <2>2, <2>4, SubSeqFull DEF Fresh
  <2>8. Adds(d, s) = <<acc.current>>
    <3>1. Adds(d, s) = [i \in 1..1 |-> acc.current]
      BY <2>2, <2>7 DEF Adds
    <3> QED BY <3>1
  <2>9. FlattenSeq(Adds(d, s)) = acc.current
    BY <1>1, <2>8, FlattenOne, EmptySeq
  <2>10. Linked(acc.ready \o d, s)
         /\ FlattenSeq(Adds(acc.ready \o d, s)) = FlattenSeq(Adds(acc.ready, s)) \o FlattenSeq(Adds(d, s))
    <3>1. Linked(acc.ready, s)
      BY <1>1
    <3> QED BY <2>6, <3>1, LinkedConcat
  <2> QED BY <1>1, <2>3, <2>9, <2>10
<1> QED BY <1>3, <1>4

LEMMA AddSegmentKeeps ==
  ASSUME NEW s \in Setting, s.max > 0, NEW before \in Seq(Nat), NEW acc, Gathers(acc, before, s),
         NEW pcm \in Seq(Nat), Distinct(pcm)
  PROVE  Gathers(AddSegment(acc, pcm, s), before \o pcm, s)
<1> DEFINE next == AddSegment(acc, pcm, s)
<1>1. acc \in Accs /\ acc.ready \in Seq(Pieces) /\ acc.current \in Seq(Nat) /\ Linked(acc.ready, s)
      /\ FlattenSeq(Adds(acc.ready, s)) \o acc.current = before
  BY DEF Gathers, Accs
<1>2. next \in Accs
  BY <1>1, AddSegmentType
<1>3. FlattenSeq(Adds(acc.ready, s)) \in Seq(Nat)
  BY <1>1, AddsTyped, FlattenConcat
<1>4. Linked(Flush(acc), s) /\ FlattenSeq(Adds(Flush(acc), s)) = before
  BY FlushKeeps
<1>5. s.max \in Nat /\ Len(pcm) \in Nat /\ Len(acc.current) \in Nat
  BY <1>1, StepTyped
<1>6. CASE Len(pcm) > s.max
  <2>1. next.ready = Flush(acc) \o Split(pcm, s) /\ next.current = << >>
    BY <1>6 DEF AddSegment
  <2>2. Linked(Split(pcm, s), s) /\ FlattenSeq(Adds(Split(pcm, s), s)) = pcm
    BY <1>6, SplitFound
  <2>3. Linked(next.ready, s) /\ FlattenSeq(Adds(next.ready, s)) = before \o pcm
    <3> DEFINE a == Flush(acc)
               b == Split(pcm, s)
    <3>1. Linked(a, s) /\ Linked(b, s)
      BY <1>4, <2>2
    <3> HIDE DEF a, b
    <3>2. Linked(a \o b, s) /\ FlattenSeq(Adds(a \o b, s)) = FlattenSeq(Adds(a, s)) \o FlattenSeq(Adds(b, s))
      BY <3>1, LinkedConcat
    <3> QED BY <1>4, <2>1, <2>2, <3>2 DEF a, b
  <2>4. before \o pcm \in Seq(Nat)
    BY ConcatProperties
  <2>5. FlattenSeq(Adds(next.ready, s)) \o next.current = before \o pcm /\ Len(next.current) <= s.max
    BY <1>5, <2>1, <2>3, <2>4, ConcatEmptySeq, EmptySeq
  <2> QED BY <1>2, <2>3, <2>5 DEF Gathers
<1>7. CASE ~(Len(pcm) > s.max) /\ Len(acc.current) + Len(pcm) > s.max
  <2>1. next.ready = Flush(acc) /\ next.current = pcm
    BY <1>7 DEF AddSegment
  <2>2. Len(next.current) <= s.max
    BY <1>5, <1>7, <2>1
  <2> QED BY <1>2, <1>4, <2>1, <2>2 DEF Gathers
<1>8. CASE ~(Len(pcm) > s.max) /\ ~(Len(acc.current) + Len(pcm) > s.max)
  <2>1. next = [acc EXCEPT !.current = @ \o pcm]
    BY <1>8 DEF AddSegment
  <2>2. next.ready = acc.ready /\ next.current = acc.current \o pcm
    BY <1>1, <2>1 DEF Accs
  <2>3. Len(next.current) <= s.max
    <3>1. Len(next.current) = Len(acc.current) + Len(pcm)
      BY <1>1, <2>2, ConcatProperties
    <3> QED BY <1>5, <1>8, <3>1
  <2>4. (FlattenSeq(Adds(acc.ready, s)) \o acc.current) \o pcm = FlattenSeq(Adds(acc.ready, s)) \o (acc.current \o pcm)
    <3> DEFINE A == Nat
               x == FlattenSeq(Adds(acc.ready, s))
               y == acc.current
    <3>1. x \in Seq(A) /\ y \in Seq(A) /\ pcm \in Seq(A)
      BY <1>1, <1>3
    <3> HIDE DEF A, x, y
    <3>2. (x \o y) \o pcm = x \o (y \o pcm)
      BY <3>1, Associative, SMTT(30)
    <3> QED BY <3>2 DEF x, y
  <2>5. FlattenSeq(Adds(next.ready, s)) \o next.current = before \o pcm
    BY <1>1, <2>2, <2>4
  <2> QED BY <1>1, <1>2, <2>2, <2>3, <2>5 DEF Gathers
<1> QED BY <1>6, <1>7, <1>8

\* The chunks are the segments.
LEMMA ChunkedFound ==
  ASSUME NEW samples \in Nat, NEW segs \in Seq(Span(samples)), NEW s \in Setting, s.max > 0
  PROVE  Linked(Chunked(segs, s), s) /\ FlattenSeq(Adds(Chunked(segs, s), s)) = Samples(segs)
<1> DEFINE n == Len(segs)
           pcms == [i \in 1..n |-> Pcm(segs[i])]
<1>1. n \in Nat /\ \A i \in 1..n : Pcm(segs[i]) \in Seq(Nat) /\ Distinct(Pcm(segs[i]))
  <2>1. \A i \in 1..n : segs[i] \in Span(samples)
    OBVIOUS
  <2> QED BY <2>1, PcmTyped
<1>2. Samples(segs) = FlattenSeq(pcms)
  BY DEF Samples
<1>3. PICK f \in [0..n -> Accs] :
        /\ f[0] = Empty /\ Chunked(segs, s) = Flush(f[n])
        /\ \A i \in 1..n : f[i] = AddSegment(f[i - 1], Pcm(segs[i]), s)
  BY ChunkedCourse
<1> HIDE DEF n
<1>4. pcms \in Seq(Seq(Nat)) /\ Len(pcms) = n /\ \A i \in 1..n : pcms[i] = Pcm(segs[i])
  BY <1>1
<1> HIDE DEF pcms
<1>5. PICK g \in [0..n -> Seq(Nat)] :
        /\ g[0] = << >> /\ FlattenSeq(pcms) = g[n] /\ \A i \in 1..n : g[i] = g[i - 1] \o pcms[i]
  <2>1. \E g \in [0..Len(pcms) -> Seq(Nat)] :
          /\ g[0] = << >> /\ FlattenSeq(pcms) = g[Len(pcms)]
          /\ \A i \in 1..Len(pcms) : g[i] = g[i - 1] \o pcms[i]
    BY <1>4, FlattenCourse
  <2> QED BY <1>4, <2>1
<1> DEFINE S == {i \in 0..n : Gathers(f[i], g[i], s)}
<1>6. 0 \in S
  <2>1. f[0] \in Accs /\ f[0].ready = << >> /\ f[0].current = << >> /\ 0 \in 0..n
    BY <1>1, <1>3 DEF Empty
  <2>2. Linked(<< >>, s)
    BY EmptySeq DEF Linked
  <2>3. Adds(<< >>, s) = << >>
    <3>1. Adds(<< >>, s) \in Seq(Seq(Nat)) /\ Len(Adds(<< >>, s)) = 0
      BY <2>2, AddsTyped, EmptySeq
    <3> QED BY <3>1, EmptySeq
  <2>4. FlattenSeq(<< >>) = << >> /\ << >> \o << >> = << >>
    <3>1. << >> \in Seq(Seq(Nat)) /\ << >> \in Seq(Nat)
      BY EmptySeq
    <3> QED BY <3>1, FlattenOne, ConcatEmptySeq
  <2>5. Len(<< >>) <= s.max
    BY EmptySeq, StepTyped
  <2> QED BY <1>5, <2>1, <2>2, <2>3, <2>4, <2>5 DEF Gathers
<1>7. ASSUME NEW i \in 0..n - 1, i \in S PROVE i + 1 \in S
  <2>1. i + 1 \in 1..n /\ (i + 1) - 1 = i /\ i \in 0..n /\ i + 1 \in 0..n
    BY <1>1
  <2>2. f[i + 1] = AddSegment(f[i], Pcm(segs[i + 1]), s) /\ g[i + 1] = g[i] \o Pcm(segs[i + 1])
    BY <1>3, <1>4, <1>5, <2>1
  <2>3. Gathers(f[i], g[i], s) /\ g[i] \in Seq(Nat)
    BY <1>7, <2>1
  <2>4. Gathers(AddSegment(f[i], Pcm(segs[i + 1]), s), g[i] \o Pcm(segs[i + 1]), s)
    BY <1>1, <2>1, <2>3, AddSegmentKeeps
  <2> QED BY <2>1, <2>2, <2>4
<1>8. n \in S
  <2> HIDE DEF S
  <2> QED BY <1>1, <1>6, <1>7, InductionUpTo, n \in 0..n
<1> QED BY <1>2, <1>3, <1>5, <1>8, FlushKeeps

-----------------------------------------------------------------------------
\* The join.

LEMMA GreatestOf ==
  ASSUME NEW n \in Nat, NEW S \in SUBSET (0..n), S # {}
  PROVE  Max(S) \in S /\ \A y \in S : Max(S) >= y
<1>1. \E x \in S : \A y \in S : x >= y
  BY Greatest
<1> QED BY <1>1 DEF Max

\* The words that dedup_overlap drops are repeated, and no more are.
LEMMA RepeatedFound ==
  ASSUME NEW prev \in Seq(Nat), NEW next \in Seq(Nat)
  PROVE  LET k == Repeated(prev, next) IN
         /\ k \in Nat /\ k <= MaxWords /\ k <= Len(prev) /\ k <= Len(next)
         /\ SubSeq(prev, Len(prev) - k + 1, Len(prev)) = SubSeq(next, 1, k)
         /\ \A j \in Nat : /\ j <= MaxWords /\ j <= Len(prev) /\ j <= Len(next)
                           /\ SubSeq(prev, Len(prev) - j + 1, Len(prev)) = SubSeq(next, 1, j)
                           => j <= k
<1> DEFINE a == Len(prev)
           b == Len(next)
           m == Min({MaxWords, a, b})
           S == {k \in 0..m : SubSeq(prev, a - k + 1, a) = SubSeq(next, 1, k)}
<1>1. a \in Nat /\ b \in Nat /\ MaxWords \in Nat
  BY Constant
<1>2. m \in Nat /\ m <= MaxWords /\ m <= a /\ m <= b /\ (m = MaxWords \/ m = a \/ m = b)
  <2> HIDE DEF a, b
  <2>1. \E x \in {MaxWords, a, b} : \A y \in {MaxWords, a, b} : x <= y
    BY <1>1
  <2>2. m \in {MaxWords, a, b} /\ \A y \in {MaxWords, a, b} : m <= y
    BY <2>1 DEF Min
  <2> HIDE DEF m
  <2> QED BY <1>1, <2>2
<1>3. Repeated(prev, next) = Max(S)
  BY DEF Repeated
<1> HIDE DEF a, b, m
<1>4. 0 \in S
  <2>1. SubSeq(prev, a - 0 + 1, a) = << >> /\ SubSeq(next, 1, 0) = << >>
    BY <1>1, SubSeqEmpty
  <2>2. 0 \in 0..m
    BY <1>2
  <2> QED BY <2>1, <2>2
<1>5. Max(S) \in S /\ \A y \in S : Max(S) >= y
  <2>1. S \in SUBSET (0..m) /\ S # {}
    BY <1>4
  <2> HIDE DEF S
  <2> QED BY <1>2, <2>1, GreatestOf
<1> DEFINE k == Max(S)
<1>6. k \in 0..m /\ SubSeq(prev, a - k + 1, a) = SubSeq(next, 1, k) /\ \A y \in S : k >= y
  BY <1>5
<1>7. ASSUME NEW j \in Nat, j <= MaxWords, j <= a, j <= b, SubSeq(prev, a - j + 1, a) = SubSeq(next, 1, j)
      PROVE  j <= k
  <2>1. j \in 0..m
    BY <1>2, <1>7
  <2>2. j \in S
    BY <1>7, <2>1
  <2> HIDE DEF k, S
  <2> QED BY <1>2, <1>6, <2>2
<1> HIDE DEF k, S
<1>8. k \in Nat /\ k <= MaxWords /\ k <= a /\ k <= b
  BY <1>1, <1>2, <1>6
<1>9. Repeated(prev, next) = k
  BY <1>3 DEF k
<1> QED BY <1>6, <1>7, <1>8, <1>9 DEF a, b

Parts == [words : Seq(Nat), overlap : BOOLEAN]

\* How many words of a part the join drops.
Dropped(text, ps, i) == IF Follows(ps, i) THEN Repeated(text, ps[i].words) ELSE 0

LEMMA JoinPartFound ==
  ASSUME NEW ps \in Seq(Parts), NEW i \in 1..Len(ps), NEW text \in Seq(Nat)
  PROVE  /\ ps[i].words \in Seq(Nat) /\ Len(ps[i].words) \in Nat
         /\ Dropped(text, ps, i) \in 0..Len(ps[i].words) /\ Dropped(text, ps, i) <= MaxWords
         /\ SubSeq(ps[i].words, Dropped(text, ps, i) + 1, Len(ps[i].words)) \in Seq(Nat)
         /\ JoinPart(text, ps, i) = text \o SubSeq(ps[i].words, Dropped(text, ps, i) + 1, Len(ps[i].words))
         /\ JoinPart(text, ps, i) \in Seq(Nat)
         /\ Len(JoinPart(text, ps, i)) = Len(text) + Len(ps[i].words) - Dropped(text, ps, i)
<1> DEFINE next == ps[i].words
           k == Dropped(text, ps, i)
<1>1. next \in Seq(Nat) /\ Len(next) \in Nat
  <2>1. ps[i] \in Parts
    OBVIOUS
  <2> QED BY <2>1 DEF Parts
<1> HIDE DEF next
<1>2. k \in 0..Len(next) /\ k <= MaxWords
  <2>1. CASE Follows(ps, i)
    <3>1. k = Repeated(text, next)
      BY <2>1 DEF Dropped, next
    <3>2. Repeated(text, next) \in Nat /\ Repeated(text, next) <= MaxWords /\ Repeated(text, next) <= Len(next)
      BY <1>1, RepeatedFound
    <3> HIDE DEF k
    <3> QED BY <1>1, <3>1, <3>2
  <2>2. CASE ~Follows(ps, i)
    BY <1>1, <2>2, Constant DEF Dropped
  <2> QED BY <2>1, <2>2
<1>3. JoinPart(text, ps, i) = text \o SubSeq(next, k + 1, Len(next))
  <2>1. CASE Follows(ps, i)
    BY <2>1 DEF JoinPart, Dropped, Follows, next
  <2>2. CASE ~Follows(ps, i)
    <3>1. JoinPart(text, ps, i) = text \o next /\ k = 0
      BY <2>2 DEF JoinPart, Dropped, Follows, next
    <3>2. SubSeq(next, 0 + 1, Len(next)) = next
      BY <1>1, SubSeqFull
    <3> QED BY <3>1, <3>2
  <2> QED BY <2>1, <2>2
<1> HIDE DEF k
<1>4. SubSeq(next, k + 1, Len(next)) \in Seq(Nat) /\ Len(SubSeq(next, k + 1, Len(next))) = Len(next) - k
  <2>1. k \in Nat /\ k <= Len(next) /\ Len(next) <= Len(next)
    BY <1>1, <1>2
  <2> QED BY <1>1, <2>1, Piece
<1> DEFINE rest == SubSeq(next, k + 1, Len(next))
<1> HIDE DEF rest
<1>5. text \o rest \in Seq(Nat) /\ Len(text \o rest) = Len(text) + Len(rest) /\ Len(text) \in Nat
  BY <1>4, ConcatProperties DEF rest
<1>6. Len(text \o rest) = Len(text) + Len(next) - k
  BY <1>1, <1>2, <1>4, <1>5 DEF rest
<1> QED BY <1>1, <1>2, <1>3, <1>4, <1>5, <1>6 DEF next, k, rest

LEMMA JoinedCourse ==
  ASSUME NEW ps \in Seq(Parts)
  PROVE  \E f \in [0..Len(ps) -> Seq(Nat)] :
           /\ f[0] = << >> /\ Joined(ps) = f[Len(ps)]
           /\ \A i \in 1..Len(ps) : f[i] = JoinPart(f[i - 1], ps, i)
<1> DEFINE n == Len(ps)
           F == [i \in 1..n |-> [x \in Seq(Nat) |-> JoinPart(x, ps, i)]]
           after[i \in 0..n] == IF i = 0 THEN << >> ELSE JoinPart(after[i - 1], ps, i)
<1>1. n \in Nat /\ << >> \in Seq(Nat)
  BY EmptySeq
<1>2. Joined(ps) = after[Len(ps)]
  BY DEF Joined
<1>3. after = CHOOSE g : g = [i \in 0..n |-> IF i = 0 THEN << >> ELSE JoinPart(g[i - 1], ps, i)]
  OBVIOUS
<1> HIDE DEF n, after
<1>4. F \in Turns(Seq(Nat), n) /\ \A i \in 1..n, x \in Seq(Nat) : F[i][x] = JoinPart(x, ps, i)
  BY <1>1, JoinPartFound DEF Turns, n
<1> HIDE DEF F
<1>5. PICK h : h \in Courses(Seq(Nat), n, << >>, F)
  BY <1>1, <1>4, Recursion
<1>6. h \in [0..n -> Seq(Nat)] /\ h[0] = << >> /\ \A i \in 1..n : h[i] = F[i][h[i - 1]]
  BY <1>5 DEF Courses
<1>7. ASSUME NEW i \in 1..n PROVE h[i] = JoinPart(h[i - 1], ps, i)
  <2>1. i - 1 \in 0..n
    BY <1>1
  <2>2. h[i - 1] \in Seq(Nat)
    BY <1>6, <2>1
  <2> QED BY <1>4, <1>6, <2>2
<1>8. h = [i \in 0..n |-> IF i = 0 THEN << >> ELSE JoinPart(h[i - 1], ps, i)]
  BY <1>1, <1>6, <1>7
<1>9. after = [i \in 0..n |-> IF i = 0 THEN << >> ELSE JoinPart(after[i - 1], ps, i)]
  BY <1>3, <1>8
<1>10. /\ after = [i \in 0..n |-> after[i]] /\ after[0] = << >>
       /\ \A i \in 1..n : after[i] = JoinPart(after[i - 1], ps, i)
  <2> DEFINE turn(i) == IF i = 0 THEN << >> ELSE JoinPart(after[i - 1], ps, i)
  <2>1. after = [i \in 0..n |-> turn(i)]
    BY <1>9
  <2> HIDE DEF turn
  <2>2. after = [i \in 0..n |-> after[i]] /\ \A i \in 0..n : after[i] = turn(i)
    BY <2>1
  <2>3. 0 \in 0..n /\ \A i \in 1..n : i \in 0..n /\ i # 0
    BY <1>1
  <2> QED BY <2>2, <2>3 DEF turn
<1>11. \A i \in 1..n : after[i - 1] \in Seq(Nat) => after[i] = F[i][after[i - 1]]
  BY <1>4, <1>10
<1>12. after \in Courses(Seq(Nat), n, << >>, F)
  BY <1>1, <1>4, <1>10, <1>11, CourseUnique
<1>13. after \in [0..n -> Seq(Nat)]
  BY <1>12 DEF Courses
<1> QED BY <1>2, <1>10, <1>13 DEF n

\* The join drops at most MaxWords words at each flagged boundary.
LEMMA JoinedLoses ==
  ASSUME NEW ps \in Seq(Parts)
  PROVE  Len(Joined(ps)) + MaxWords * Cardinality({i \in 1..Len(ps) : ps[i].overlap})
           >= Len(FlattenSeq([i \in 1..Len(ps) |-> ps[i].words]))
<1> DEFINE n == Len(ps)
           words == [i \in 1..n |-> ps[i].words]
           Flags(k) == {j \in 1..k : ps[j].overlap}
<1>1. n \in Nat /\ \A i \in 1..n : ps[i].words \in Seq(Nat)
  <2>1. n \in Nat /\ \A i \in 1..n : ps[i] \in Parts
    OBVIOUS
  <2> QED BY <2>1 DEF Parts
<1>2. PICK f \in [0..n -> Seq(Nat)] :
        /\ f[0] = << >> /\ Joined(ps) = f[n] /\ \A i \in 1..n : f[i] = JoinPart(f[i - 1], ps, i)
  BY JoinedCourse
<1>3. words \in Seq(Seq(Nat)) /\ Len(words) = n /\ \A i \in 1..n : words[i] = ps[i].words
  <2> HIDE DEF n
  <2> QED BY <1>1
<1> HIDE DEF words, n
<1>4. PICK g \in [0..n -> Seq(Nat)] :
        /\ g[0] = << >> /\ FlattenSeq(words) = g[n] /\ \A i \in 1..n : g[i] = g[i - 1] \o words[i]
  <2>1. \E g \in [0..Len(words) -> Seq(Nat)] :
          /\ g[0] = << >> /\ FlattenSeq(words) = g[Len(words)]
          /\ \A i \in 1..Len(words) : g[i] = g[i - 1] \o words[i]
    BY <1>3, FlattenCourse
  <2> QED BY <1>3, <2>1
<1>5. \A k \in 0..n : IsFiniteSet(Flags(k)) /\ Cardinality(Flags(k)) \in Nat
  <2> SUFFICES ASSUME NEW k \in 0..n PROVE IsFiniteSet(Flags(k)) /\ Cardinality(Flags(k)) \in Nat
    OBVIOUS
  <2>1. IsFiniteSet(1..k) /\ Flags(k) \in SUBSET (1..k)
    <3>1. 1 \in Int /\ k \in Int
      BY <1>1
    <3> QED BY <3>1, FS_Interval
  <2> QED BY <2>1, FS_Subset, FS_CardinalityType
\* The flags before part k + 1, and the one of part k, if there is one.
<1> DEFINE D(k) == Cardinality(Flags(k))
           S == {k \in 0..n : Len(f[k]) + MaxWords * D(IF k = 0 THEN 0 ELSE k - 1) >= Len(g[k])}
<1>6. D(0) = 0
  <2>1. Flags(0) = {}
    OBVIOUS
  <2> QED BY <2>1, FS_EmptySet
<1>7. ASSUME NEW k \in 0..n, k > 0
      PROVE  D(k) \in Nat /\ D(k - 1) \in Nat /\ D(k) = IF ps[k].overlap THEN D(k - 1) + 1 ELSE D(k - 1)
  <2>1. k - 1 \in 0..n /\ k \in 1..k /\ ~(k \in 1..k - 1) /\ 1..k = (1..k - 1) \union {k}
    BY <1>1, <1>7
  <2>2. CASE ps[k].overlap
    <3>1. Flags(k) = Flags(k - 1) \union {k} /\ ~(k \in Flags(k - 1))
      BY <2>1, <2>2
    <3> QED BY <1>5, <2>1, <2>2, <3>1, FS_AddElement
  <2>3. CASE ~ps[k].overlap
    <3>1. Flags(k) = Flags(k - 1)
      BY <2>1, <2>3
    <3> QED BY <1>5, <2>1, <2>3, <3>1
  <2> QED BY <2>2, <2>3
<1>8. \A k \in 0..n : D(k) \in Nat
  BY <1>5
<1> HIDE DEF D, Flags
<1>9. 0 \in S
  <2>1. Len(f[0]) = 0 /\ Len(g[0]) = 0 /\ MaxWords * 0 = 0 /\ 0 \in 0..n
    BY <1>1, <1>2, <1>4, Constant, EmptySeq
  <2> QED BY <1>6, <2>1
<1>10. ASSUME NEW k \in 0..n - 1, k \in S PROVE k + 1 \in S
  <2> DEFINE i == k + 1
             text == f[k]
             next == ps[i].words
             drop == Dropped(text, ps, i)
             d == D(IF k = 0 THEN 0 ELSE k - 1)
             e == D(k)
             a == Len(text)
             b == Len(g[k])
             c == Len(next)
  <2>1. i \in 1..n /\ i - 1 = k /\ k \in 0..n /\ i \in 0..n
    BY <1>1
  <2>2. text \in Seq(Nat) /\ a \in Nat /\ g[k] \in Seq(Nat) /\ b \in Nat
    BY <2>1
  <2>3. a + MaxWords * d >= b
    BY <1>10
  <2>4. /\ next \in Seq(Nat) /\ c \in Nat /\ drop \in 0..c /\ drop <= MaxWords
        /\ Len(JoinPart(text, ps, i)) = a + c - drop
    BY <2>1, <2>2, JoinPartFound DEF n
  <2>5. f[i] = JoinPart(text, ps, i)
    BY <1>2, <2>1
  <2>6. Len(g[i]) = b + c
    <3>1. g[i] = g[k] \o next
      BY <1>3, <1>4, <2>1
    <3> QED BY <2>2, <2>4, <3>1, ConcatProperties
  <2>7. d \in Nat /\ e \in Nat /\ (drop = 0 => d <= e) /\ (drop # 0 => e = d + 1)
    <3>1. CASE k = 0
      <4>1. drop = 0
        BY <3>1 DEF Dropped, Follows
      <4> QED BY <1>6, <3>1, <4>1
    <3>2. CASE k > 0
      <4>1. e \in Nat /\ d \in Nat /\ e = IF ps[k].overlap THEN d + 1 ELSE d
        BY <1>7, <2>1, <3>2
      <4>2. drop # 0 => ps[k].overlap
        BY <2>1 DEF Dropped, Follows
      <4> HIDE DEF d, e, drop
      <4> QED BY <4>1, <4>2
    <3> QED BY <2>1, <3>1, <3>2
  <2> HIDE DEF i, text, next, drop, d, e, a, b, c
  <2>8. (a + c - drop) + MaxWords * e >= b + c
    <3>1. \A x, y \in Nat : x <= y => MaxWords * x <= MaxWords * y /\ MaxWords * x \in Nat /\ MaxWords * y \in Nat
      BY Constant
    <3>2. \A x \in Nat : MaxWords * (x + 1) = MaxWords * x + MaxWords /\ MaxWords * x \in Nat
      BY Constant
    <3>3. CASE drop = 0
      <4>1. MaxWords * d <= MaxWords * e /\ MaxWords * d \in Nat /\ MaxWords * e \in Nat
        BY <2>7, <3>1, <3>3
      <4> QED BY <2>2, <2>3, <2>4, <3>3, <4>1
    <3>4. CASE drop # 0
      <4>1. MaxWords * e = MaxWords * d + MaxWords /\ MaxWords * d \in Nat
        BY <2>7, <3>2, <3>4
      <4> QED BY <2>2, <2>3, <2>4, <4>1, Constant
    <3> QED BY <3>3, <3>4
  <2>9. Len(f[i]) + MaxWords * e >= Len(g[i])
    BY <2>4, <2>5, <2>6, <2>8
  <2>10. (IF i = 0 THEN 0 ELSE i - 1) = k
    BY <2>1
  <2> QED BY <2>1, <2>9, <2>10 DEF e, i
<1>11. n \in S
  <2> HIDE DEF S
  <2> QED BY <1>1, <1>9, <1>10, InductionUpTo, n \in 0..n
<1> DEFINE m == IF n = 0 THEN 0 ELSE n - 1
<1>12. Len(f[n]) + MaxWords * D(n) >= Len(g[n])
  <2> DEFINE x == D(m)
             y == D(n)
             a == Len(f[n])
             b == Len(g[n])
  <2>1. a + MaxWords * x >= b
    BY <1>11
  <2>2. a \in Nat /\ b \in Nat /\ n \in 0..n
    BY <1>1
  <2>3. x \in Nat /\ y \in Nat /\ x <= y
    <3>1. CASE n = 0
      BY <1>6, <3>1
    <3>2. CASE n > 0
      <4>1. D(n) \in Nat /\ D(n - 1) \in Nat /\ D(n) = IF ps[n].overlap THEN D(n - 1) + 1 ELSE D(n - 1)
        BY <1>7, <2>2, <3>2
      <4>2. x = D(n - 1)
        BY <3>2
      <4> QED BY <4>1, <4>2
    <3> QED BY <1>1, <3>1, <3>2
  <2> HIDE DEF x, y, a, b
  <2>4. \A u, v \in Nat : u <= v => MaxWords * u <= MaxWords * v /\ MaxWords * u \in Nat /\ MaxWords * v \in Nat
    BY Constant
  <2>5. MaxWords * x <= MaxWords * y /\ MaxWords * x \in Nat /\ MaxWords * y \in Nat
    BY <2>3, <2>4
  <2>6. a + MaxWords * y >= b
    BY <2>1, <2>2, <2>5
  <2> QED BY <2>6 DEF a, b, y
<1> QED BY <1>2, <1>4, <1>12 DEF D, Flags, words, n

\* Each word of a part is in the text: what the join drops, the text ends with.
LEMMA JoinedHears ==
  ASSUME NEW ps \in Seq(Parts), NEW i \in 1..Len(ps), NEW j \in 1..Len(ps[i].words)
  PROVE  \E k \in 1..Len(Joined(ps)) : Joined(ps)[k] = ps[i].words[j]
<1> DEFINE n == Len(ps)
           w == ps[i].words[j]
<1>1. n \in Nat
  BY EmptySeq
<1>2. PICK f \in [0..n -> Seq(Nat)] :
        /\ f[0] = << >> /\ Joined(ps) = f[n] /\ \A k \in 1..n : f[k] = JoinPart(f[k - 1], ps, k)
  BY JoinedCourse
<1> DEFINE S == {m \in 0..n : m >= i => \E k \in 1..Len(f[m]) : f[m][k] = w}
<1>3. 0 \in S
  BY <1>1
<1>4. ASSUME NEW m \in 0..n - 1, m \in S PROVE m + 1 \in S
  <2> DEFINE p == m + 1
             text == f[m]
             next == ps[p].words
             drop == Dropped(text, ps, p)
             rest == SubSeq(next, drop + 1, Len(next))
             t == f[p]
  <2>1. p \in 1..n /\ p - 1 = m /\ p \in 0..n
    BY <1>1
  <2>2. text \in Seq(Nat) /\ Len(text) \in Nat
    BY <1>1
  <2>3. /\ next \in Seq(Nat) /\ Len(next) \in Nat /\ drop \in 0..Len(next)
        /\ rest \in Seq(Nat) /\ t = text \o rest
    <3>1. p \in 1..Len(ps) /\ t = JoinPart(text, ps, p)
      BY <1>2, <2>1
    <3> HIDE DEF p, t, text
    <3> QED BY <2>2, <3>1, JoinPartFound
  <2>4. Len(rest) = Len(next) - drop /\ \A k \in 1..Len(next) - drop : rest[k] = next[drop + k]
    <3> HIDE DEF next, drop
    <3> DEFINE size == Len(next)
    <3>1. drop \in Nat /\ size \in Nat /\ drop <= size /\ next \in Seq(Nat)
      BY <2>3
    <3>2. size <= size
      BY <3>1
    <3> HIDE DEF size, rest, text, t
    <3>3. size <= Len(next)
      BY <3>2 DEF size
    <3>4. /\ Len(SubSeq(next, drop + 1, size)) = size - drop
          /\ \A k \in 1..size - drop : SubSeq(next, drop + 1, size)[k] = next[drop + k]
      BY <3>1, <3>3, Piece
    <3> USE DEF rest
    <3> QED BY <3>4 DEF size
  <2>5. /\ Len(t) = Len(text) + Len(rest)
        /\ \A k \in 1..Len(text) + Len(rest) : t[k] = IF k <= Len(text) THEN text[k] ELSE rest[k - Len(text)]
    <3> HIDE DEF text, rest
    <3> QED BY <2>2, <2>3, ConcatProperties
  <2>6. drop # 0 => /\ drop <= Len(text)
                    /\ SubSeq(text, Len(text) - drop + 1, Len(text)) = SubSeq(next, 1, drop)
    BY <2>2, <2>3, RepeatedFound DEF Dropped
  <2> HIDE DEF p, text, next, drop, rest, t
  <2>7. ASSUME p >= i PROVE \E k \in 1..Len(t) : t[k] = w
    <3>1. CASE m >= i
      <4>1. PICK k \in 1..Len(text) : text[k] = w
        BY <1>4, <3>1 DEF text
      <4>2. k \in 1..Len(text) + Len(rest) /\ k <= Len(text)
        BY <2>2, <2>3, <2>4
      <4> QED BY <2>5, <4>1, <4>2
    <3>2. CASE ~(m >= i)
      <4>1. p = i /\ w = next[j] /\ j \in 1..Len(next)
        BY <1>1, <2>7, <3>2 DEF p, next
      <4>2. CASE j > drop
        <5>1. j - drop \in 1..Len(next) - drop /\ drop + (j - drop) = j
          BY <2>3, <4>1, <4>2
        <5>2. rest[j - drop] = w
          BY <2>4, <4>1, <5>1
        <5>3. Len(text) + (j - drop) \in 1..Len(text) + Len(rest) /\ ~(Len(text) + (j - drop) <= Len(text))
              /\ (Len(text) + (j - drop)) - Len(text) = j - drop
          BY <2>2, <2>3, <2>4, <5>1
        <5> QED BY <2>5, <5>2, <5>3
      <4>3. CASE ~(j > drop)
        <5> DEFINE a == Len(text)
                   c == a - drop
        <5>1. /\ drop # 0 /\ drop <= a /\ a \in Nat /\ drop \in Nat /\ drop <= Len(next) /\ j \in 1..drop
              /\ SubSeq(text, a - drop + 1, a) = SubSeq(next, 1, drop)
          BY <2>2, <2>3, <2>6, <4>1, <4>3
        <5> HIDE DEF a
        <5>2. c \in Nat /\ c <= a /\ a - c = drop /\ c + j \in 1..a
          BY <5>1
        <5> HIDE DEF c
        <5>3. SubSeq(text, c + 1, a)[j] = text[c + j]
          <6>1. \A k \in 1..a - c : SubSeq(text, c + 1, a)[k] = text[c + k]
            BY <2>2, <5>1, <5>2, Piece DEF a
          <6> QED BY <5>1, <5>2, <6>1
        <5>4. SubSeq(next, 0 + 1, drop)[j] = next[0 + j]
          <6>1. \A k \in 1..drop - 0 : SubSeq(next, 0 + 1, drop)[k] = next[0 + k]
            BY <2>3, <5>1, Piece
          <6> QED BY <5>1, <6>1
        <5>5. text[c + j] = w
          BY <4>1, <5>1, <5>3, <5>4 DEF c
        <5>6. c + j \in 1..Len(text) + Len(rest) /\ c + j <= Len(text)
          BY <2>3, <2>4, <5>1, <5>2 DEF a
        <5> QED BY <2>5, <5>5, <5>6
      <4> QED BY <2>3, <4>1, <4>2, <4>3
    <3> QED BY <3>1, <3>2
  <2> QED BY <2>1, <2>7 DEF p, t
<1>5. n \in S
  <2> HIDE DEF S
  <2> QED BY <1>1, <1>3, <1>4, InductionUpTo, n \in 0..n
<1>6. n >= i
  BY <1>1
<1> QED BY <1>2, <1>5, <1>6

\* The parts of chunks, when every sample holds a word of its own.
LEMMA HeardApart ==
  ASSUME NEW cs \in Seq(Pieces), NEW same \in BOOLEAN
  PROVE  LET ps == [i \in 1..Len(cs) |-> Part(cs[i], same)] IN
         /\ ps \in Seq(Parts) /\ Len(ps) = Len(cs) /\ Len(cs) \in Nat
         /\ \A i \in 1..Len(cs) : /\ Len(ps[i].words) = Len(cs[i].pcm)
                                  /\ ~same => ps[i].words = cs[i].pcm
                                  /\ ps[i].overlap <=> cs[i].overlap
<1> DEFINE n == Len(cs)
           ps == [i \in 1..n |-> Part(cs[i], same)]
<1>1. n \in Nat /\ \A i \in 1..n : cs[i].pcm \in Seq(Nat) /\ cs[i].overlap \in BOOLEAN
  <2>1. n \in Nat /\ \A i \in 1..n : cs[i] \in Pieces
    OBVIOUS
  <2> QED BY <2>1 DEF Pieces
<1>2. ASSUME NEW x \in Seq(Nat)
      PROVE  Heard(x, same) \in Seq(Nat) /\ Len(Heard(x, same)) = Len(x) /\ (~same => Heard(x, same) = x)
  <2>1. Len(x) \in Nat /\ \A i \in 1..Len(x) : x[i] \in Nat
    OBVIOUS
  <2> DEFINE y == Heard(x, same)
             l == Len(x)
  <2>2. y \in [1..l -> Nat] /\ (\A i \in 1..l : ~same => y[i] = x[i]) /\ l \in Nat
    BY <2>1 DEF Heard
  <2> HIDE DEF y, l
  <2>3. y \in Seq(Nat) /\ Len(y) = l
    BY <2>2, SeqDef, LenProperties
  <2>4. ~same => y = x
    BY <2>2, <2>3, SeqEqual DEF l
  <2> QED BY <2>3, <2>4 DEF y, l
<1>3. \A i \in 1..n : Part(cs[i], same) \in Parts
  BY <1>1, <1>2 DEF Part, Parts
<1> HIDE DEF n
<1>4. ps \in Seq(Parts) /\ Len(ps) = n /\ \A i \in 1..n : ps[i] = Part(cs[i], same)
  BY <1>1, <1>3
<1>5. \A i \in 1..n : /\ Part(cs[i], same).words = Heard(cs[i].pcm, same)
                      /\ Part(cs[i], same).overlap = cs[i].overlap
  BY DEF Part
<1> HIDE DEF ps
<1> QED BY <1>1, <1>2, <1>4, <1>5 DEF n, ps

\* The text of chunks ends with all of the chunk that was joined last.
EndsWith(text, pcm) ==
  Len(pcm) <= Len(text) /\ SubSeq(text, (Len(text) - Len(pcm)) + 1, Len(text)) = pcm

LEMMA ConcatEnds ==
  ASSUME NEW a \in Seq(Nat), NEW b \in Seq(Nat)
  PROVE  EndsWith(a \o b, b)
<1> DEFINE x == a \o b
           m == Len(a)
           n == Len(b)
<1>1. /\ m \in Nat /\ n \in Nat /\ x \in Seq(Nat) /\ Len(x) = m + n
      /\ \A i \in 1..m + n : x[i] = IF i <= m THEN a[i] ELSE b[i - m]
  BY ConcatProperties
<1> HIDE DEF x
<1>2. /\ SubSeq(x, m + 1, m + n) \in Seq(Nat) /\ Len(SubSeq(x, m + 1, m + n)) = (m + n) - m
      /\ \A i \in 1..(m + n) - m : SubSeq(x, m + 1, m + n)[i] = x[m + i]
  <2>1. m + n \in Nat /\ m <= m + n /\ m + n <= Len(x)
    BY <1>1
  <2> HIDE DEF m, n
  <2> QED BY <1>1, <2>1, Piece
<1>3. (m + n) - m = n /\ (m + n) - n = m
  BY <1>1
<1>4. ASSUME NEW i \in 1..n PROVE SubSeq(x, m + 1, m + n)[i] = b[i]
  <2>1. m + i \in 1..m + n /\ ~(m + i <= m) /\ (m + i) - m = i
    BY <1>1
  <2>2. x[m + i] = b[i]
    BY <1>1, <2>1
  <2> HIDE DEF m, n
  <2> QED BY <1>2, <1>3, <2>2
<1>5. SubSeq(x, m + 1, m + n) = b
  <2> HIDE DEF m
  <2> DEFINE y == SubSeq(x, m + 1, m + n)
  <2>1. y \in Seq(Nat) /\ Len(y) = n /\ \A i \in 1..n : y[i] = b[i]
    BY <1>2, <1>3, <1>4
  <2> HIDE DEF y
  <2> QED BY <2>1, SeqEqual DEF y, n
<1>6. n <= m + n
  BY <1>1
<1> HIDE DEF m, n
<1>7. Len(x) - n = m
  BY <1>1, <1>3
<1>8. n <= Len(x) /\ SubSeq(x, (Len(x) - n) + 1, Len(x)) = b
  BY <1>1, <1>5, <1>6, <1>7
<1> QED BY <1>8 DEF EndsWith, x, n

\* Where the text ends with prev, and next shares its end, the join drops exactly
\* what they share.
LEMMA RepeatedShared ==
  ASSUME NEW text \in Seq(Nat), NEW prev \in Seq(Nat), NEW next \in Seq(Nat), EndsWith(text, prev),
         NEW k \in Nat, k <= MaxWords, k < Len(prev), k < Len(next),
         SubSeq(next, 1, k) = SubSeq(prev, Len(prev) - k + 1, Len(prev)),
         \A j \in k + 1 .. Len(next) : next[j] # prev[Len(prev)]
  PROVE  Repeated(text, next) = k
<1> DEFINE a == Len(text)
           b == Len(prev)
           c == Len(next)
           r == Repeated(text, next)
           d == a - b
<1>1. a \in Nat /\ b \in Nat /\ c \in Nat /\ b <= a /\ k < b /\ k < c /\ d \in Nat /\ d <= a /\ a - d = b /\ d + b = a
  <2>1. a \in Nat /\ b \in Nat /\ c \in Nat /\ k < b /\ k < c
    OBVIOUS
  <2> HIDE DEF a, b, c
  <2>2. b <= a
    BY DEF EndsWith, a, b
  <2> QED BY <2>1, <2>2
<1>2. SubSeq(text, d + 1, a) = prev
  BY DEF EndsWith
<1>3. /\ r \in Nat /\ r <= MaxWords /\ r <= a /\ r <= c
      /\ SubSeq(text, a - r + 1, a) = SubSeq(next, 1, r)
      /\ \A j \in Nat : /\ j <= MaxWords /\ j <= a /\ j <= c
                        /\ SubSeq(text, a - j + 1, a) = SubSeq(next, 1, j)
                        => j <= r
  BY RepeatedFound
<1> HIDE DEF a, b, c, r, d
\* What is shared is a repetition.
<1>4. k <= r
  <2> DEFINE e == b - k
  <2>1. e \in Nat /\ e <= b /\ b <= a - d /\ d + e = a - k /\ d + b = a
    BY <1>1
  <2> HIDE DEF e
  <2>2. SubSeq(SubSeq(text, d + 1, a), e + 1, b) = SubSeq(text, (d + e) + 1, d + b)
    BY <1>1, <2>1, PieceOfPiece DEF a
  <2>3. SubSeq(next, 1, k) = SubSeq(prev, e + 1, b)
    BY DEF e, b
  <2>4. SubSeq(text, a - k + 1, a) = SubSeq(next, 1, k)
    BY <1>2, <2>1, <2>2, <2>3
  <2>5. k <= a /\ k <= c
    BY <1>1
  <2> QED BY <1>3, <2>4, <2>5
\* A longer one ends with the last word of prev.
<1>5. ASSUME k < r PROVE FALSE
  <2> DEFINE e == a - r
  <2>1. e \in Nat /\ e <= a /\ a - e = r /\ r \in 1..r /\ e + r = a /\ b \in 1..b
    BY <1>1, <1>3, <1>5
  <2> HIDE DEF e
  <2>2. SubSeq(text, e + 1, a)[r] = text[e + r]
    <3>1. \A i \in 1..a - e : SubSeq(text, e + 1, a)[i] = text[e + i]
      BY <1>1, <2>1, Piece DEF a
    <3> QED BY <2>1, <3>1
  <2>3. SubSeq(next, 0 + 1, r)[r] = next[0 + r]
    <3>1. \A i \in 1..r - 0 : SubSeq(next, 0 + 1, r)[i] = next[0 + i]
      BY <1>1, <1>3, Piece DEF c
    <3> QED BY <1>3, <2>1, <3>1
  <2>4. SubSeq(text, d + 1, a)[b] = text[d + b]
    <3>1. \A i \in 1..a - d : SubSeq(text, d + 1, a)[i] = text[d + i]
      BY <1>1, Piece DEF a
    <3> QED BY <1>1, <2>1, <3>1
  <2>5. text[a] = prev[b]
    BY <1>1, <1>2, <2>4
  <2>6. SubSeq(text, e + 1, a) = SubSeq(next, 0 + 1, r)
    <3>1. SubSeq(text, a - r + 1, a) = SubSeq(next, 1, r)
      BY <1>3
    <3>2. a - r + 1 = e + 1 /\ 0 + 1 = 1
      BY DEF e
    <3> QED BY <3>1, <3>2
  <2>7. next[r] = text[a]
    BY <1>3, <2>1, <2>2, <2>3, <2>6
  <2>8. r \in k + 1 .. c
    BY <1>1, <1>3, <1>5
  <2> QED BY <2>5, <2>7, <2>8 DEF b, c
<1> QED BY <1>3, <1>4, <1>5 DEF r

\* The join undoes what the chunker did.
LEMMA JoinedExact ==
  ASSUME NEW s \in Setting, s.max > 0, Shared(s) <= MaxWords, NEW cs, Linked(cs, s)
  PROVE  Joined([i \in 1..Len(cs) |-> Part(cs[i], FALSE)]) = FlattenSeq(Adds(cs, s))
<1> DEFINE n == Len(cs)
           ps == [i \in 1..n |-> Part(cs[i], FALSE)]
           shared == Shared(s)
<1>1. /\ cs \in Seq(Pieces) /\ n \in Nat /\ shared \in Nat
      /\ \A i \in 1..n : cs[i].pcm \in Seq(Nat) /\ Len(cs[i].pcm) \in Nat
  <2>1. cs \in Seq(Pieces) /\ n \in Nat
    BY DEF Linked
  <2>2. \A i \in 1..n : cs[i] \in Pieces
    BY <2>1
  <2>3. shared \in 0..s.max - 1
    BY StepTyped
  <2> QED BY <2>1, <2>2, <2>3 DEF Pieces
<1>2. ps \in Seq(Parts) /\ Len(ps) = n
      /\ \A i \in 1..n : ps[i].words = cs[i].pcm /\ (ps[i].overlap <=> cs[i].overlap)
  BY <1>1, HeardApart
<1> HIDE DEF ps
<1>3. PICK f \in [0..n -> Seq(Nat)] :
        /\ f[0] = << >> /\ Joined(ps) = f[n] /\ \A i \in 1..n : f[i] = JoinPart(f[i - 1], ps, i)
  <2>1. \E f \in [0..Len(ps) -> Seq(Nat)] :
          /\ f[0] = << >> /\ Joined(ps) = f[Len(ps)] /\ \A i \in 1..Len(ps) : f[i] = JoinPart(f[i - 1], ps, i)
    BY <1>2, JoinedCourse
  <2> HIDE DEF n
  <2> QED BY <1>2, <2>1
<1>4. Adds(cs, s) \in Seq(Seq(Nat)) /\ Len(Adds(cs, s)) = n /\ \A i \in 1..n : Adds(cs, s)[i] = Fresh(cs, i, s)
  BY AddsTyped
<1>5. PICK g \in [0..n -> Seq(Nat)] :
        /\ g[0] = << >> /\ FlattenSeq(Adds(cs, s)) = g[n]
        /\ \A i \in 1..n : g[i] = g[i - 1] \o Fresh(cs, i, s)
  <2> DEFINE x == Adds(cs, s)
  <2>1. \E g \in [0..Len(x) -> Seq(Nat)] :
          /\ g[0] = << >> /\ FlattenSeq(x) = g[Len(x)]
          /\ \A i \in 1..Len(x) : g[i] = g[i - 1] \o x[i]
    BY <1>4, FlattenCourse
  <2> HIDE DEF x
  <2>2. Len(x) = n /\ \A i \in 1..n : x[i] = Fresh(cs, i, s)
    BY <1>4 DEF x
  <2> HIDE DEF n
  <2> QED BY <2>1, <2>2 DEF x
<1>6. \A i \in 1..n : Follows(cs, i) =>
        /\ SubSeq(cs[i].pcm, 1, shared)
             = SubSeq(cs[i - 1].pcm, Len(cs[i - 1].pcm) - shared + 1, Len(cs[i - 1].pcm))
        /\ shared < Len(cs[i].pcm) /\ shared < Len(cs[i - 1].pcm)
        /\ \A j \in shared + 1 .. Len(cs[i].pcm) : cs[i].pcm[j] # cs[i - 1].pcm[Len(cs[i - 1].pcm)]
  BY DEF Linked, GoesOn
<1> HIDE DEF n, shared
<1> DEFINE S == {i \in 0..n : f[i] = g[i] /\ (i > 0 => EndsWith(f[i], cs[i].pcm))}
<1>7. 0 \in S
  BY <1>1, <1>3, <1>5
<1>8. ASSUME NEW m \in 0..n - 1, m \in S PROVE m + 1 \in S
  <2> DEFINE i == m + 1
             text == f[m]
             next == cs[i].pcm
  <2>1. i \in 1..n /\ i - 1 = m /\ i \in 0..n /\ m \in 0..n
    BY <1>1
  <2>2. text \in Seq(Nat) /\ next \in Seq(Nat) /\ Len(next) \in Nat /\ ps[i].words = next
    BY <1>1, <1>2, <2>1
  <2>3. f[i] = text \o SubSeq(next, Dropped(text, ps, i) + 1, Len(next))
    <3>1. f[i] = JoinPart(text, ps, i) /\ i \in 1..Len(ps)
      BY <1>2, <1>3, <2>1
    <3> HIDE DEF i, text, next
    <3>2. JoinPart(text, ps, i) = text \o SubSeq(ps[i].words, Dropped(text, ps, i) + 1, Len(ps[i].words))
      BY <1>2, <2>2, <3>1, JoinPartFound
    <3> QED BY <2>2, <3>1, <3>2
  <2>4. g[i] = text \o Fresh(cs, i, s)
    BY <1>5, <1>8, <2>1
  <2>5. Follows(ps, i) <=> Follows(cs, i)
    <3>1. i > 1 => m \in 1..n
      BY <1>1
    <3> QED BY <1>2, <2>1, <3>1 DEF Follows
  <2>6. CASE ~Follows(cs, i)
    <3>1. Dropped(text, ps, i) = 0
      BY <2>5, <2>6 DEF Dropped
    <3> HIDE DEF i, text, next
    <3>2. SubSeq(next, 0 + 1, Len(next)) = next
      BY <2>2, SubSeqFull
    <3>3. Fresh(cs, i, s) = next
      BY <2>6, <3>2 DEF Fresh, next
    <3>4. f[i] = text \o next /\ g[i] = text \o next
      BY <2>3, <2>4, <3>1, <3>2, <3>3
    <3>5. EndsWith(f[i], next)
      BY <2>2, <3>4, ConcatEnds
    <3> QED BY <2>1, <3>4, <3>5 DEF i, next
  <2>7. CASE Follows(cs, i)
    <3> DEFINE prev == cs[m].pcm
    <3>1. m \in 1..n /\ m > 0
      BY <1>1, <2>7 DEF Follows
    <3>2. prev \in Seq(Nat) /\ Len(prev) \in Nat /\ EndsWith(text, prev)
      BY <1>1, <1>8, <3>1
    <3>3. /\ SubSeq(next, 1, shared) = SubSeq(prev, Len(prev) - shared + 1, Len(prev))
          /\ shared < Len(next) /\ shared < Len(prev)
          /\ \A j \in shared + 1 .. Len(next) : next[j] # prev[Len(prev)]
      BY <1>6, <2>1, <2>7
    <3>4. Fresh(cs, i, s) = SubSeq(next, shared + 1, Len(next))
      BY <2>7 DEF Fresh, shared
    <3> HIDE DEF i, text, next, prev
    <3>5. Repeated(text, next) = shared
      BY <1>1, <2>2, <3>2, <3>3, RepeatedShared DEF shared
    <3>6. Dropped(text, ps, i) = shared
      BY <2>2, <2>5, <2>7, <3>5 DEF Dropped
    <3>7. f[i] = text \o SubSeq(next, shared + 1, Len(next)) /\ f[i] = g[i]
      BY <2>3, <2>4, <3>4, <3>6
    <3>8. EndsWith(f[i], next)
      <4> DEFINE rest == SubSeq(next, shared + 1, Len(next))
                 head == SubSeq(next, 1, shared)
                 start == SubSeq(text, 1, Len(text) - shared)
      <4>1. rest \in Seq(Nat) /\ head \in Seq(Nat) /\ head \o rest = next
        <5>1. 0 <= shared /\ shared <= Len(next) /\ Len(next) <= Len(next)
          BY <1>1, <2>2, <3>3
        <5>2. SubSeq(next, 0 + 1, shared) \in Seq(Nat) /\ SubSeq(next, shared + 1, Len(next)) \in Seq(Nat)
          BY <1>1, <2>2, <5>1, Piece
        <5>3. SubSeq(next, 0 + 1, shared) \o SubSeq(next, shared + 1, Len(next)) = SubSeq(next, 0 + 1, Len(next))
          <6> DEFINE b == Len(next)
          <6>1. 0 \in Nat /\ shared \in Nat /\ b \in Nat /\ 0 <= shared /\ shared <= b /\ b <= Len(next)
            BY <1>1, <2>2, <5>1
          <6> HIDE DEF b
          <6>2. SubSeq(next, 0 + 1, shared) \o SubSeq(next, shared + 1, b) = SubSeq(next, 0 + 1, b)
            BY <2>2, <6>1, PieceAfterPiece
          <6> QED BY <6>2 DEF b
        <5>4. SubSeq(next, 0 + 1, Len(next)) = next
          BY <2>2, SubSeqFull
        <5>5. rest \in Seq(Nat) /\ head \in Seq(Nat)
          BY <5>2
        <5>6. head = SubSeq(next, 0 + 1, shared)
          OBVIOUS
        <5> QED BY <5>3, <5>4, <5>5, <5>6
      <4>2. start \in Seq(Nat) /\ start \o head = text
        <5> DEFINE a == Len(text)
                   b == Len(prev)
                   c == a - shared
        <5>1. a \in Nat /\ b \in Nat /\ b <= a /\ shared <= b /\ c \in Nat /\ 0 <= c /\ c <= a /\ a <= a
          <6>1. a \in Nat /\ b \in Nat /\ b <= a /\ shared < b
            BY <2>2, <3>2, <3>3 DEF EndsWith
          <6> HIDE DEF a, b
          <6> QED BY <1>1, <6>1
        <5>2. SubSeq(text, c + 1, a) = head
          <6>1. SubSeq(text, (a - b) + 1, a) = prev
            BY <3>2 DEF EndsWith
          <6> DEFINE d == a - b
                     e == b - shared
          <6>2. d \in Nat /\ d <= a /\ e \in Nat /\ e <= b /\ b <= a - d /\ d + e = c /\ d + b = a
            <7> HIDE DEF a, b
            <7> QED BY <1>1, <5>1
          <6>3. head = SubSeq(prev, e + 1, b)
            BY <3>3
          <6> HIDE DEF a, b, c, d, e, head
          <6>4. SubSeq(SubSeq(text, d + 1, a), e + 1, b) = SubSeq(text, (d + e) + 1, d + b)
            BY <2>2, <5>1, <6>2, PieceOfPiece DEF a
          <6>5. SubSeq(text, d + 1, a) = prev
            BY <6>1 DEF d
          <6> QED BY <6>2, <6>3, <6>4, <6>5
        <5> HIDE DEF a, b, c
        <5>3. SubSeq(text, 0 + 1, c) \in Seq(Nat)
          BY <2>2, <5>1, Piece DEF a
        <5>4. SubSeq(text, 0 + 1, c) \o SubSeq(text, c + 1, a) = SubSeq(text, 0 + 1, a)
          <6>1. text \in Seq(Nat) /\ a <= Len(text)
            BY <2>2, <5>1 DEF a
          <6>2. 0 \in Nat /\ c \in Nat /\ a \in Nat /\ 0 <= c /\ c <= a
            BY <5>1
          <6> HIDE DEF text
          <6> QED BY <6>1, <6>2, PieceAfterPiece
        <5>5. SubSeq(text, 0 + 1, a) = text
          BY <2>2, SubSeqFull DEF a
        <5>6. start = SubSeq(text, 0 + 1, c)
          BY DEF a, c
        <5> QED BY <5>2, <5>3, <5>4, <5>5, <5>6
      <4> DEFINE A == Nat
      <4>3. start \in Seq(A) /\ head \in Seq(A) /\ rest \in Seq(A)
        BY <4>1, <4>2
      <4> HIDE DEF rest, head, start, A
      <4>4. (start \o head) \o rest = start \o (head \o rest)
        BY <4>3, Associative, SMTT(30)
      <4>5. f[i] = start \o next
        BY <3>7, <4>1, <4>2, <4>4 DEF rest
      <4> QED BY <2>2, <4>2, <4>5, ConcatEnds
    <3> QED BY <2>1, <3>7, <3>8 DEF i, next
  <2> QED BY <2>6, <2>7
<1>9. n \in S
  <2> HIDE DEF S
  <2> QED BY <1>1, <1>7, <1>8, InductionUpTo, n \in 0..n
<1> QED BY <1>3, <1>5, <1>9 DEF ps, n

\* What is flattened has the elements of the sequences and no others.
LEMMA FlattenElements ==
  ASSUME NEW A, NEW seqs \in Seq(Seq(A))
  PROVE  /\ FlattenSeq(seqs) \in Seq(A)
         /\ \A i \in 1..Len(seqs) : \A j \in 1..Len(seqs[i]) :
              \E k \in 1..Len(FlattenSeq(seqs)) : FlattenSeq(seqs)[k] = seqs[i][j]
         /\ \A k \in 1..Len(FlattenSeq(seqs)) :
              \E i \in 1..Len(seqs) : \E j \in 1..Len(seqs[i]) : FlattenSeq(seqs)[k] = seqs[i][j]
<1> DEFINE n == Len(seqs)
<1>1. n \in Nat /\ \A i \in 1..n : seqs[i] \in Seq(A)
  OBVIOUS
<1>2. PICK f \in [0..n -> Seq(A)] :
        /\ f[0] = << >> /\ FlattenSeq(seqs) = f[n] /\ \A i \in 1..n : f[i] = f[i - 1] \o seqs[i]
  BY FlattenCourse
<1> HIDE DEF n
<1> DEFINE Has(m) == /\ \A i \in 1..m : \A j \in 1..Len(seqs[i]) : \E k \in 1..Len(f[m]) : f[m][k] = seqs[i][j]
                     /\ \A k \in 1..Len(f[m]) : \E i \in 1..m : \E j \in 1..Len(seqs[i]) : f[m][k] = seqs[i][j]
           S == {m \in 0..n : Has(m)}
<1>3. 0 \in S
  <2>1. Len(f[0]) = 0 /\ 1..0 = {} /\ 0 \in 0..n
    BY <1>1, <1>2, EmptySeq
  <2> QED BY <2>1
<1>4. ASSUME NEW m \in 0..n - 1, m \in S PROVE m + 1 \in S
  <2> DEFINE p == m + 1
             x == f[m]
             y == seqs[p]
             z == f[p]
             a == Len(x)
             b == Len(y)
  <2>1. p \in 1..n /\ p - 1 = m /\ m \in 0..n /\ p \in 0..n /\ p \in 1..p /\ \A i \in 1..p : i \in 1..m \/ i = p
    BY <1>1
  <2>2. x \in Seq(A) /\ y \in Seq(A) /\ a \in Nat /\ b \in Nat /\ z = x \o y
    <3>1. x \in Seq(A) /\ y \in Seq(A)
      BY <1>1, <2>1
    <3>2. z = x \o y
      BY <1>2, <2>1
    <3> HIDE DEF x, y
    <3> QED BY <3>1, <3>2
  <2>3. /\ Len(z) = a + b
        /\ \A k \in 1..a + b : z[k] = IF k <= a THEN x[k] ELSE y[k - a]
    <3> HIDE DEF x, y, z
    <3> QED BY <2>2, ConcatProperties
  <2>4. /\ \A i \in 1..m : \A j \in 1..Len(seqs[i]) : \E k \in 1..a : x[k] = seqs[i][j]
        /\ \A k \in 1..a : \E i \in 1..m : \E j \in 1..Len(seqs[i]) : x[k] = seqs[i][j]
    BY <1>4
  <2>5. \A i \in 1..m : i \in 1..p
    BY <1>1
  <2> HIDE DEF p, x, y, z, a, b
  <2>6. ASSUME NEW i \in 1..p, NEW j \in 1..Len(seqs[i])
        PROVE  \E k \in 1..a + b : z[k] = seqs[i][j]
    <3>1. CASE i \in 1..m
      <4>1. PICK k \in 1..a : x[k] = seqs[i][j]
        BY <2>4, <3>1
      <4>2. k \in 1..a + b /\ z[k] = x[k]
        BY <2>2, <2>3
      <4> QED BY <4>1, <4>2
    <3>2. CASE i = p
      <4>1. j \in 1..b /\ y[j] = seqs[i][j]
        BY <3>2 DEF y, b
      <4>2. a + j \in 1..a + b /\ ~(a + j <= a) /\ (a + j) - a = j
        BY <2>2, <4>1
      <4>3. z[a + j] = y[j]
        BY <2>3, <4>2
      <4> QED BY <4>1, <4>2, <4>3
    <3> QED BY <2>1, <3>1, <3>2
  <2>7. ASSUME NEW k \in 1..a + b
        PROVE  \E i \in 1..p : \E j \in 1..Len(seqs[i]) : z[k] = seqs[i][j]
    <3>1. CASE k <= a
      <4>1. k \in 1..a /\ z[k] = x[k]
        BY <2>2, <2>3, <3>1
      <4> QED BY <2>4, <2>5, <4>1
    <3>2. CASE ~(k <= a)
      <4>1. k - a \in 1..b /\ z[k] = y[k - a]
        BY <2>2, <2>3, <3>2
      <4>2. k - a \in 1..Len(seqs[p]) /\ z[k] = seqs[p][k - a]
        BY <4>1 DEF y, b
      <4> QED BY <2>1, <4>2
    <3> QED BY <3>1, <3>2
  <2>8. Has(p)
    BY <2>3, <2>6, <2>7 DEF z
  <2> QED BY <2>1, <2>8 DEF p
<1>5. n \in S
  <2> HIDE DEF S
  <2> QED BY <1>1, <1>3, <1>4, InductionUpTo, n \in 0..n
<1>6. Has(n) /\ f[n] \in Seq(A)
  BY <1>1, <1>5
<1> DEFINE z == f[n]
<1>7. /\ z \in Seq(A)
      /\ \A i \in 1..n : \A j \in 1..Len(seqs[i]) : \E k \in 1..Len(z) : z[k] = seqs[i][j]
      /\ \A k \in 1..Len(z) : \E i \in 1..n : \E j \in 1..Len(seqs[i]) : z[k] = seqs[i][j]
  BY <1>6
<1>8. FlattenSeq(seqs) = z
  BY <1>2
<1> HIDE DEF z
<1> QED BY <1>7, <1>8 DEF n

Increasing(x) == \A i \in 1..Len(x) - 1 : x[i] < x[i + 1]

LEMMA IncreasingConcat ==
  ASSUME NEW x \in Seq(Nat), NEW y \in Seq(Nat), Increasing(x), Increasing(y),
         NEW bound \in Nat, \A i \in 1..Len(x) : x[i] <= bound, \A i \in 1..Len(y) : bound < y[i]
  PROVE  Increasing(x \o y)
<1> DEFINE a == Len(x)
           b == Len(y)
           z == x \o y
<1>1. a \in Nat /\ b \in Nat /\ Len(z) = a + b
      /\ \A i \in 1..a + b : z[i] = IF i <= a THEN x[i] ELSE y[i - a]
  BY ConcatProperties
<1>2. (\A i \in 1..a : x[i] \in Nat) /\ (\A i \in 1..b : y[i] \in Nat)
  OBVIOUS
<1>3. (\A i \in 1..a - 1 : x[i] < x[i + 1]) /\ (\A i \in 1..b - 1 : y[i] < y[i + 1])
  BY DEF Increasing
<1>4. (\A i \in 1..a : x[i] <= bound) /\ (\A i \in 1..b : bound < y[i])
  OBVIOUS
<1> HIDE DEF a, b, z
<1>5. ASSUME NEW i \in 1..a + b - 1 PROVE z[i] < z[i + 1]
  <2>1. i \in 1..a + b /\ i + 1 \in 1..a + b
    BY <1>1
  <2>2. CASE i + 1 <= a
    <3>1. z[i] = x[i] /\ z[i + 1] = x[i + 1] /\ i \in 1..a - 1
      BY <1>1, <2>1, <2>2
    <3> QED BY <1>3, <3>1
  <2>3. CASE i = a
    <3>1. z[i] = x[i] /\ z[i + 1] = y[(i + 1) - a] /\ i \in 1..a /\ (i + 1) - a = 1 /\ 1 \in 1..b
      BY <1>1, <2>1, <2>3
    <3>2. x[i] <= bound /\ bound < y[1] /\ x[i] \in Nat /\ y[1] \in Nat
      BY <1>2, <1>4, <3>1
    <3> QED BY <3>1, <3>2
  <2>4. CASE i > a
    <3>1. z[i] = y[i - a] /\ z[i + 1] = y[(i + 1) - a] /\ (i + 1) - a = (i - a) + 1 /\ i - a \in 1..b - 1
      BY <1>1, <2>1, <2>4
    <3> QED BY <1>3, <3>1
  <2> QED BY <1>1, <2>2, <2>3, <2>4
<1> QED BY <1>1, <1>5 DEF Increasing, z

\* The samples of the segments are those between their ends, in order when the
\* segments are.
LEMMA SamplesFound ==
  ASSUME NEW samples \in Nat, NEW segs \in Seq(Span(samples))
  PROVE  /\ Samples(segs) \in Seq(Nat)
         /\ \A i \in 1..Len(segs), p \in Nat : segs[i][1] < p /\ p <= segs[i][2] =>
              \E k \in 1..Len(Samples(segs)) : Samples(segs)[k] = p
         /\ (\A i \in 1..Len(segs) - 1 : segs[i][2] <= segs[i + 1][1]) => Increasing(Samples(segs))
<1> DEFINE n == Len(segs)
           pcms == [i \in 1..n |-> Pcm(segs[i])]
<1>1. n \in Nat /\ \A i \in 1..n : segs[i] \in Span(samples)
  OBVIOUS
<1>2. \A i \in 1..n : /\ segs[i][1] \in Nat /\ segs[i][2] \in Nat /\ segs[i][1] <= segs[i][2]
  BY <1>1 DEF Span, Pairs
<1>3. \A i \in 1..n : /\ Pcm(segs[i]) \in Seq(Nat) /\ Len(Pcm(segs[i])) = segs[i][2] - segs[i][1]
                      /\ \A j \in 1..Len(Pcm(segs[i])) : Pcm(segs[i])[j] = segs[i][1] + j
  BY <1>1, PcmTyped
<1>4. Samples(segs) = FlattenSeq(pcms)
  BY DEF Samples
<1> HIDE DEF n
<1>5. pcms \in Seq(Seq(Nat)) /\ Len(pcms) = n /\ \A i \in 1..n : pcms[i] = Pcm(segs[i])
  BY <1>1, <1>3
<1> HIDE DEF pcms
<1>6. Samples(segs) \in Seq(Nat)
  BY <1>4, <1>5, FlattenElements
<1>7. ASSUME NEW i \in 1..n, NEW p \in Nat, segs[i][1] < p, p <= segs[i][2]
      PROVE  \E k \in 1..Len(Samples(segs)) : Samples(segs)[k] = p
  <2> DEFINE a == segs[i][1]
             j == p - a
  <2>1. a + j = p /\ j \in 1..Len(Pcm(segs[i]))
    <3> DEFINE b == segs[i][2]
    <3>1. a \in Nat /\ b \in Nat /\ a < p /\ p <= b /\ Len(Pcm(segs[i])) = b - a
      BY <1>2, <1>3, <1>7
    <3> HIDE DEF a, b
    <3> QED BY <3>1
  <2>2. j \in 1..Len(pcms[i]) /\ pcms[i][j] = p
    BY <1>3, <1>5, <2>1
  <2>3. \E k \in 1..Len(FlattenSeq(pcms)) : FlattenSeq(pcms)[k] = pcms[i][j]
    BY <1>5, <2>2, FlattenElements
  <2> QED BY <1>4, <2>2, <2>3
<1>8. ASSUME \A i \in 1..n - 1 : segs[i][2] <= segs[i + 1][1] PROVE Increasing(Samples(segs))
  <2>1. PICK g \in [0..n -> Seq(Nat)] :
          /\ g[0] = << >> /\ FlattenSeq(pcms) = g[n] /\ \A i \in 1..n : g[i] = g[i - 1] \o pcms[i]
    <3>1. \E g \in [0..Len(pcms) -> Seq(Nat)] :
            /\ g[0] = << >> /\ FlattenSeq(pcms) = g[Len(pcms)]
            /\ \A i \in 1..Len(pcms) : g[i] = g[i - 1] \o pcms[i]
      BY <1>5, FlattenCourse
    <3> QED BY <1>5, <3>1
  <2> DEFINE S == {m \in 0..n : /\ Increasing(g[m])
                                /\ m > 0 => \A k \in 1..Len(g[m]) : g[m][k] <= segs[m][2]}
  <2>2. 0 \in S
    <3>1. Len(g[0]) = 0 /\ 1..0 - 1 = {} /\ 0 \in 0..n
      BY <1>1, <2>1, EmptySeq
    <3> QED BY <3>1 DEF Increasing
  <2>3. ASSUME NEW m \in 0..n - 1, m \in S PROVE m + 1 \in S
    <3> DEFINE q == m + 1
               x == g[m]
               y == Pcm(segs[q])
               z == g[q]
               lo == segs[q][1]
               hi == segs[q][2]
    <3>1. q \in 1..n /\ q - 1 = m /\ m \in 0..n /\ q \in 0..n
      BY <1>1
    <3>2. x \in Seq(Nat) /\ y \in Seq(Nat)
      BY <1>3, <3>1
    <3>3. z = x \o y
      BY <1>5, <2>1, <3>1
    <3>4. lo \in Nat /\ hi \in Nat /\ lo <= hi /\ Len(y) = hi - lo /\ \A j \in 1..Len(y) : y[j] = lo + j
      BY <1>2, <1>3, <3>1
    <3>5. \A k \in 1..Len(x) : x[k] \in Nat /\ x[k] <= lo
      <4>1. CASE m = 0
        <5>1. Len(x) = 0 /\ 1..0 = {}
          BY <2>1, <4>1, EmptySeq
        <5> QED BY <5>1
      <4>2. CASE m > 0
        <5>1. m \in 1..n - 1 /\ m \in 1..n
          BY <1>1, <4>2
        <5>2. segs[m][2] <= lo /\ segs[m][2] \in Nat
          BY <1>2, <1>8, <5>1
        <5>3. \A k \in 1..Len(x) : x[k] <= segs[m][2]
          BY <2>3, <4>2
        <5>4. \A k \in 1..Len(x) : x[k] \in Nat
          BY <3>2
        <5> DEFINE e == segs[m][2]
        <5> HIDE DEF e, lo, x
        <5>5. e \in Nat /\ e <= lo /\ \A k \in 1..Len(x) : x[k] <= e
          BY <5>2, <5>3 DEF e
        <5> QED BY <3>4, <5>4, <5>5
      <4> QED BY <1>1, <4>1, <4>2
    <3>6. Increasing(x)
      BY <2>3
    <3> HIDE DEF q, x, y, z, lo, hi
    <3>7. \A k \in 1..Len(y) : lo < y[k] /\ y[k] <= hi
      BY <3>4
    <3>8. Increasing(y)
      <4>1. \A k \in 1..Len(y) - 1 : y[k] = lo + k /\ y[k + 1] = lo + (k + 1)
        <5>1. Len(y) \in Nat
          BY <3>2
        <5>2. \A k \in 1..Len(y) - 1 : k \in 1..Len(y) /\ k + 1 \in 1..Len(y)
          BY <5>1
        <5> QED BY <3>4, <5>2
      <4> QED BY <3>4, <4>1 DEF Increasing
    <3>9. Increasing(z)
      BY <3>2, <3>3, <3>4, <3>5, <3>6, <3>7, <3>8, IncreasingConcat
    <3>10. ASSUME NEW k \in 1..Len(z) PROVE z[k] <= hi
      <4> DEFINE a == Len(x)
                 b == Len(y)
      <4>1. a \in Nat /\ b \in Nat /\ k \in 1..a + b /\ z[k] = IF k <= a THEN x[k] ELSE y[k - a]
        BY <3>2, <3>3, ConcatProperties
      <4> HIDE DEF a, b
      <4>2. CASE k <= a
        <5>1. k \in 1..a /\ z[k] = x[k]
          BY <4>1, <4>2
        <5>2. x[k] \in Nat /\ x[k] <= lo
          BY <3>5, <5>1 DEF a
        <5> QED BY <3>4, <5>1, <5>2
      <4>3. CASE ~(k <= a)
        <5>1. k - a \in 1..b /\ z[k] = y[k - a]
          BY <4>1, <4>3
        <5> QED BY <3>7, <5>1 DEF b
      <4> QED BY <4>2, <4>3
    <3> QED BY <3>1, <3>9, <3>10 DEF q, z, hi
  <2>4. n \in S
    <3> HIDE DEF S
    <3> QED BY <1>1, <2>2, <2>3, InductionUpTo, n \in 0..n
  <2> QED BY <1>4, <2>1, <2>4
<1> QED BY <1>6, <1>7, <1>8 DEF n

-----------------------------------------------------------------------------
\* The course of a recording, from its samples to the text.

\* The segments that run_one takes: all of the recording without a segmenter, and
\* when it found none.
Segmented(r, s) == IF ~s.vad \/ Assembled(r, s) = << >> THEN <<Whole(r)>> ELSE Assembled(r, s)

LEMMA SegmentedFound ==
  ASSUME NEW r \in Recording, NEW s \in Setting
  PROVE  LET segs == Segmented(r, s) IN
         /\ segs \in Seq(Span(r.samples)) /\ segs # << >> /\ Len(segs) \in Nat
         /\ ~(s.vad /\ Spoken(r, s) # {}) => segs = <<Whole(r)>>
         /\ s.vad /\ Spoken(r, s) # {} =>
              \E nth \in [1..Len(segs) -> Spoken(r, s)] :
                /\ \A i \in 1..Len(segs) : segs[i] = Pad(nth[i], r, s)
                /\ \A i \in 1..Len(segs) - 1 : nth[i][2] + Pause(s) <= nth[i + 1][1]
                /\ \A g \in Spoken(r, s) : \E i \in 1..Len(segs) : nth[i] = g
<1> DEFINE spoken == Spoken(r, s)
           segs == Segmented(r, s)
           found == Assembled(r, s)
<1>1. PICK kept \in Seq(Pairs) :
        /\ found = [i \in 1..Len(kept) |-> Pad(kept[i], r, s)]
        /\ Apart(kept, Pause(s))
        /\ spoken = {kept[i] : i \in 1..Len(kept)}
  BY SpeechFound
<1> DEFINE n == Len(kept)
<1>2. n \in Nat
  OBVIOUS
<1>3. found \in Seq(Span(r.samples)) /\ Len(found) = n
  <2>1. \A i \in 1..n : Pad(kept[i], r, s) \in Span(r.samples)
    <3> SUFFICES ASSUME NEW i \in 1..n PROVE Pad(kept[i], r, s) \in Span(r.samples)
      OBVIOUS
    <3> DEFINE seg == Pad(kept[i], r, s)
    <3>1. seg \in Pairs /\ seg[1] < seg[2] /\ seg[2] <= r.samples
      <4>1. kept[i] \in Spoken(r, s)
        BY <1>1
      <4> QED BY <4>1, PadLies
    <3> HIDE DEF seg
    <3>2. seg[1] \in Nat /\ seg[2] \in Nat
      BY <3>1 DEF Pairs
    <3> QED BY <3>1, <3>2 DEF Span, seg
  <2> QED BY <1>1, <1>2, <2>1
<1>4. found = << >> <=> spoken = {}
  <2>1. found = << >> <=> n = 0
    BY <1>2, <1>3, EmptySeq
  <2>2. spoken = {} <=> n = 0
    <3>1. n > 0 => 1 \in 1..n
      BY <1>2
    <3>2. n = 0 => 1..n = {}
      OBVIOUS
    <3> QED BY <1>1, <1>2, <3>1, <3>2
  <2> QED BY <2>1, <2>2
<1>5. CASE ~(s.vad /\ spoken # {})
  <2>1. segs = <<Whole(r)>>
    BY <1>4, <1>5 DEF Segmented
  <2>2. Whole(r) \in Span(r.samples)
    BY Typed DEF Whole, Span, Pairs
  <2>3. segs \in Seq(Span(r.samples)) /\ segs # << >> /\ Len(segs) \in Nat
    BY <2>1, <2>2
  <2> QED BY <1>5, <2>1, <2>3
<1>6. CASE s.vad /\ spoken # {}
  <2>1. segs = found
    BY <1>4, <1>6 DEF Segmented
  <2>2. kept \in [1..n -> spoken]
    BY <1>1
  <2>3. \A i \in 1..n : found[i] = Pad(kept[i], r, s)
    BY <1>1
  <2>4. \A i \in 1..n - 1 : kept[i][2] + Pause(s) <= kept[i + 1][1]
    <3>1. \A i \in 1..n - 1 : i \in 1..n /\ i + 1 \in 1..n /\ i < i + 1
      BY <1>2
    <3> QED BY <1>1, <3>1 DEF Apart
  <2>5. \A g \in spoken : \E i \in 1..n : kept[i] = g
    BY <1>1
  <2>6. \E nth \in [1..n -> spoken] :
          /\ \A i \in 1..n : found[i] = Pad(nth[i], r, s)
          /\ \A i \in 1..n - 1 : nth[i][2] + Pause(s) <= nth[i + 1][1]
          /\ \A g \in spoken : \E i \in 1..n : nth[i] = g
    BY <2>2, <2>3, <2>4, <2>5
  <2>7. found # << >>
    BY <1>4, <1>6
  <2> HIDE DEF found, segs, spoken, n
  <2>8. segs \in Seq(Span(r.samples)) /\ segs # << >> /\ Len(segs) = n
    BY <1>3, <2>1, <2>7
  <2>9. \E nth \in [1..Len(segs) -> spoken] :
          /\ \A i \in 1..Len(segs) : segs[i] = Pad(nth[i], r, s)
          /\ \A i \in 1..Len(segs) - 1 : nth[i][2] + Pause(s) <= nth[i + 1][1]
          /\ \A g \in spoken : \E i \in 1..Len(segs) : nth[i] = g
    <3> DEFINE m == Len(segs)
    <3>1. m = n
      BY <2>8
    <3> HIDE DEF m
    <3>2. \E nth \in [1..m -> spoken] :
            /\ \A i \in 1..m : segs[i] = Pad(nth[i], r, s)
            /\ \A i \in 1..m - 1 : nth[i][2] + Pause(s) <= nth[i + 1][1]
            /\ \A g \in spoken : \E i \in 1..m : nth[i] = g
      BY <2>1, <2>6, <3>1
    <3> QED BY <3>2 DEF m
  <2> QED BY <1>2, <1>6, <2>8, <2>9 DEF segs, spoken
<1> QED BY <1>5, <1>6

\* Padding that is at most half a pause leaves the segments in order.
LEMMA SegmentsInOrder ==
  ASSUME NEW r \in Recording, NEW s \in Setting,
         s.vad => 2 * PadSamples(s) <= Pause(s) * Window
  PROVE  LET segs == Segmented(r, s) IN \A i \in 1..Len(segs) - 1 : segs[i][2] <= segs[i + 1][1]
<1> DEFINE segs == Segmented(r, s)
           n == Len(segs)
<1>1. n \in Nat
  BY SegmentedFound
<1>2. CASE ~(s.vad /\ Spoken(r, s) # {})
  <2>1. segs = <<Whole(r)>>
    BY <1>2, SegmentedFound
  <2>2. 1..n - 1 = {}
    BY <2>1
  <2> QED BY <2>2
<1>3. CASE s.vad /\ Spoken(r, s) # {}
  <2>1. PICK nth \in [1..n -> Spoken(r, s)] :
          /\ \A i \in 1..n : segs[i] = Pad(nth[i], r, s)
          /\ \A i \in 1..n - 1 : nth[i][2] + Pause(s) <= nth[i + 1][1]
    BY <1>3, SegmentedFound
  <2> HIDE DEF n, segs
  <2> SUFFICES ASSUME NEW i \in 1..n - 1 PROVE segs[i][2] <= segs[i + 1][1]
    BY DEF n, segs
  <2>2. i \in 1..n /\ i + 1 \in 1..n
    BY <1>1
  <2> DEFINE g == nth[i]
             h == nth[i + 1]
             P == PadSamples(s)
             q == Pause(s)
             x == segs[i]
             y == segs[i + 1]
             b == g[2]
             c == h[1]
             u == x[2]
             v == y[1]
  <2>3. g \in Spoken(r, s) /\ h \in Spoken(r, s) /\ x = Pad(g, r, s) /\ y = Pad(h, r, s)
    BY <2>1, <2>2
  <2>4. b \in Nat /\ c \in Nat /\ b + q <= c
    <3>1. g \in Groups(Len(r.prob), Talk(r, s), Pause(s)) /\ h \in Groups(Len(r.prob), Talk(r, s), Pause(s))
      BY <2>3 DEF Spoken
    <3>2. g \in (0..Len(r.prob)) \X (1..Len(r.prob)) /\ h \in (0..Len(r.prob)) \X (1..Len(r.prob))
      BY <3>1 DEF Groups
    <3> HIDE DEF g, h
    <3>3. b \in Nat /\ c \in Nat
      BY <3>2, Typed
    <3>4. b + q <= c
      BY <2>1 DEF g, h
    <3> QED BY <3>3, <3>4
  <2>5. x \in Pairs /\ u <= b * Window + P
    BY <2>3, PadLies
  <2>6. y \in Pairs /\ c * Window - P <= v
    BY <2>3, PadLies
  <2>7. u \in Nat /\ v \in Nat
    BY <2>5, <2>6 DEF Pairs
  <2>8. P \in Nat /\ q \in Nat /\ Window \in Nat /\ 2 * P <= q * Window
    BY <1>3, Typed, Constant
  <2> HIDE DEF g, h, x, y, b, c, u, v, P, q
  <2>9. b * Window + q * Window <= c * Window /\ b * Window \in Nat /\ q * Window \in Nat /\ c * Window \in Nat
    <3>1. \A j, k, m, w \in Nat : j + k <= m => j * w + k * w <= m * w
      <4> SUFFICES ASSUME NEW j \in Nat, NEW k \in Nat, NEW m \in Nat, NEW w \in Nat, j + k <= m
                   PROVE  j * w + k * w <= m * w
        OBVIOUS
      <4>1. (j + k) * w = j * w + k * w
        OBVIOUS
      <4>2. \A e, f \in Nat : e <= f => e * w <= f * w
        OBVIOUS
      <4>3. (j + k) * w <= m * w
        BY <4>2, j + k \in Nat
      <4> QED BY <4>1, <4>3
    <3>2. \A j, w \in Nat : j * w \in Nat
      OBVIOUS
    <3> QED BY <2>4, <2>8, <3>1, <3>2
  <2> DEFINE B == b * Window
             C == c * Window
             Q == q * Window
  <2> HIDE DEF B, C, Q
  <2>10. /\ B \in Nat /\ C \in Nat /\ Q \in Nat /\ B + Q <= C
         /\ u <= B + P /\ C - P <= v /\ 2 * P <= Q
    BY <2>5, <2>6, <2>8, <2>9 DEF B, C, Q
  <2>11. u <= v
    BY <2>7, <2>8, <2>10
  <2> QED BY <2>11 DEF u, v, x, y
<1> QED BY <1>2, <1>3

\* Silence has no window at the level of silence or above.
LEMMA SilentFound ==
  ASSUME NEW r \in Recording, NEW s \in Setting, Silent(r, s) \/ r.samples = 0
  PROVE  \A w \in 1..Len(r.prob) : r.prob[w] < SilenceMax
<1> DEFINE n == Len(r.prob)
           prob == r.prob
<1>1. prob \in Seq(Nat) /\ n \in Nat /\ \A w \in 1..n : prob[w] \in Nat
  <2>1. prob \in Seq(Nat) /\ n \in Nat
    BY Typed
  <2> HIDE DEF prob
  <2>2. \A w \in 1..Len(prob) : prob[w] \in Nat
    BY <2>1
  <2> QED BY <2>1, <2>2 DEF prob
<1>2. CASE r.samples = 0
  <2>1. n = (0 + Window - 1) \div Window
    BY <1>2, Typed DEF ProbWindows
  <2>2. \A w \in Nat \ {0} : (0 + w - 1) \div w = 0
    OBVIOUS
  <2>3. n = 0
    BY <2>1, <2>2, Constant
  <2> QED BY <2>3
<1>3. CASE Silent(r, s)
  <2> HIDE DEF n, prob
  <2>1. \E top \in Nat : \A w \in 1..n : prob[w] <= top
    <3> DEFINE S == {k \in 0..n : \E top \in Nat : \A w \in 1..k : prob[w] <= top}
    <3>1. 0 \in S
      <4>1. \A w \in 1..0 : prob[w] <= 0
        OBVIOUS
      <4> QED BY <1>1, <4>1
    <3>2. ASSUME NEW k \in 0..n - 1, k \in S PROVE k + 1 \in S
      <4>1. PICK top \in Nat : \A w \in 1..k : prob[w] <= top
        BY <3>2
      <4>2. k + 1 \in 0..n /\ k + 1 \in 1..n /\ \A w \in 1..k + 1 : (w \in 1..k \/ w = k + 1) /\ w \in 1..n
        BY <1>1
      <4> DEFINE new == prob[k + 1]
                 m == IF new >= top THEN new ELSE top
      <4>3. new \in Nat
        BY <1>1, <4>2
      <4>4. m \in Nat /\ new <= m /\ top <= m
        BY <4>3
      <4>5. ASSUME NEW w \in 1..k + 1 PROVE prob[w] <= m
        <5> HIDE DEF m
        <5>1. prob[w] \in Nat
          BY <1>1, <4>2
        <5>2. prob[w] <= top \/ prob[w] = new
          BY <4>1, <4>2
        <5> HIDE DEF new
        <5> DEFINE e == prob[w]
        <5>3. e \in Nat /\ (e <= top \/ e = new)
          BY <5>1, <5>2
        <5> HIDE DEF e
        <5>4. e <= m
          BY <4>3, <4>4, <5>3
        <5> QED BY <5>4 DEF e
      <4> HIDE DEF m
      <4> QED BY <4>2, <4>4, <4>5
    <3>3. n \in S
      <4> HIDE DEF S
      <4> QED BY <1>1, <3>1, <3>2, InductionUpTo, n \in 0..n
    <3> QED BY <3>3
  <2>2. PICK top \in Nat : \A w \in 1..n : prob[w] <= top
    BY <2>1
  <2> DEFINE S == {0} \union {prob[w] : w \in 1..n}
  <2>3. S \in SUBSET (0..top) /\ S # {}
    BY <1>1, <2>2
  <2>4. Peak(r) = Max(S)
    BY DEF Peak, n, prob
  <2>5. \A w \in 1..n : prob[w] \in S
    OBVIOUS
  <2> HIDE DEF S
  <2>6. Max(S) \in S /\ \A y \in S : Max(S) >= y
    BY <2>3, GreatestOf
  <2>7. Max(S) < SilenceMax
    BY <1>3, <2>4 DEF Silent
  <2> DEFINE peak == Max(S)
  <2>8. peak \in S /\ peak < SilenceMax /\ \A y \in S : peak >= y
    BY <2>6, <2>7
  <2> HIDE DEF peak
  <2>9. peak \in Nat /\ SilenceMax \in Nat
    <3>1. peak \in 0..top
      BY <2>3, <2>8
    <3> QED BY <3>1, Constant
  <2>10. ASSUME NEW w \in 1..n PROVE prob[w] < SilenceMax
    <3> DEFINE e == prob[w]
    <3>1. e \in Nat /\ peak >= e
      BY <1>1, <2>5, <2>8
    <3> HIDE DEF e
    <3>2. e < SilenceMax
      BY <2>8, <2>9, <3>1
    <3> QED BY <3>2 DEF e
  <2> QED BY <2>10 DEF n, prob
<1> QED BY <1>2, <1>3

ChunksOf(segs, s) ==
  IF s.chunking THEN Chunked(segs, s) ELSE <<NewChunk(Samples(segs), FALSE)>>

LEMMA ChunksTyped ==
  ASSUME NEW samples \in Nat, NEW segs \in Seq(Span(samples)), NEW s \in Setting
  PROVE  /\ ChunksOf(segs, s) \in Seq(Pieces) /\ Len(ChunksOf(segs, s)) \in Nat
         /\ ~s.chunking => /\ NewChunk(Samples(segs), FALSE) \in Pieces
                           /\ ChunksOf(segs, s) = <<NewChunk(Samples(segs), FALSE)>>
<1> DEFINE c == NewChunk(Samples(segs), FALSE)
<1>1. c \in Pieces
  BY SamplesFound DEF NewChunk, Pieces
<1>2. Chunked(segs, s) \in Seq(Pieces)
  BY ChunkedTyped
<1> HIDE DEF c
<1>3. <<c>> \in Seq(Pieces)
  BY <1>1
<1>4. ChunksOf(segs, s) = IF s.chunking THEN Chunked(segs, s) ELSE <<c>>
  BY DEF ChunksOf, c
<1>5. ChunksOf(segs, s) \in Seq(Pieces)
  BY <1>2, <1>3, <1>4
<1>6. Len(ChunksOf(segs, s)) \in Nat
  BY <1>5, LenProperties
<1>7. ~s.chunking => ChunksOf(segs, s) = <<c>>
  BY <1>4
<1> QED BY <1>1, <1>5, <1>6, <1>7 DEF c

\* With a limit of zero every chunk is empty.
Nothing(cs) == cs \in Seq(Pieces) /\ \A i \in 1..Len(cs) : Len(cs[i].pcm) = 0

LEMMA SplitNothing ==
  ASSUME NEW s \in Setting, s.max = 0, NEW pcm \in Seq(Nat)
  PROVE  Nothing(Split(pcm, s))
<1> DEFINE n == Len(pcm)
           q == Cardinality(Starts(n, s))
           start(i) == (i - 1) * StepSamples(s)
           stop(i) == IF start(i) + s.max <= n THEN start(i) + s.max ELSE n
           cs == Split(pcm, s)
<1>1. n \in Nat
  OBVIOUS
<1>2. cs \in Seq(Pieces) /\ Len(cs) = q /\ \A i \in 1..q : Len(cs[i].pcm) = stop(i) - start(i)
  BY PieceOf
<1>3. \A i \in 1..q : start(i) \in 0..n - 1
  BY <1>1, PiecesLie
<1>4. ASSUME NEW i \in 1..q PROVE Len(cs[i].pcm) = 0
  <2> DEFINE a == start(i)
             b == IF a + 0 <= n THEN a + 0 ELSE n
  <2>1. Len(cs[i].pcm) = b - a
    BY <1>2
  <2>2. a \in 0..n - 1
    BY <1>3
  <2> HIDE DEF a, n
  <2>3. b - a = 0
    BY <1>1, <2>2
  <2> QED BY <2>1, <2>3
<1> HIDE DEF cs, q
<1> QED BY <1>2, <1>4 DEF Nothing, cs

LEMMA NothingConcat ==
  ASSUME NEW a, Nothing(a), NEW b, Nothing(b)
  PROVE  Nothing(a \o b)
<1> DEFINE m == Len(a)
           n == Len(b)
           c == a \o b
<1>1. a \in Seq(Pieces) /\ b \in Seq(Pieces) /\ m \in Nat /\ n \in Nat
  BY DEF Nothing
<1>2. c \in Seq(Pieces) /\ Len(c) = m + n /\ \A i \in 1..m + n : c[i] = IF i <= m THEN a[i] ELSE b[i - m]
  BY <1>1, ConcatProperties
<1>3. ASSUME NEW i \in 1..m + n PROVE Len(c[i].pcm) = 0
  <2> HIDE DEF m, n, c
  <2>1. CASE i <= m
    <3>1. i \in 1..m /\ c[i] = a[i]
      BY <1>1, <1>2, <2>1
    <3> QED BY <3>1 DEF Nothing, m
  <2>2. CASE ~(i <= m)
    <3>1. i - m \in 1..n /\ c[i] = b[i - m]
      BY <1>1, <1>2, <2>2
    <3> QED BY <3>1 DEF Nothing, n
  <2> QED BY <2>1, <2>2
<1> HIDE DEF c, m, n
<1> QED BY <1>2, <1>3 DEF Nothing, c

LEMMA ChunkedNothing ==
  ASSUME NEW samples \in Nat, NEW segs \in Seq(Span(samples)), NEW s \in Setting, s.max = 0
  PROVE  Nothing(Chunked(segs, s))
<1> DEFINE n == Len(segs)
<1>1. n \in Nat
  OBVIOUS
<1>2. PICK f \in [0..n -> Accs] :
        /\ f[0] = Empty /\ Chunked(segs, s) = Flush(f[n])
        /\ \A i \in 1..n : f[i] = AddSegment(f[i - 1], Pcm(segs[i]), s)
  BY ChunkedCourse
<1> DEFINE S == {i \in 0..n : Nothing(f[i].ready) /\ f[i].current = << >>}
<1>3. 0 \in S
  <2>1. << >> \in Seq(Pieces) /\ Len(<< >>) = 0 /\ 1..0 = {} /\ 0 \in 0..n
    BY <1>1
  <2>2. Nothing(<< >>)
    BY <2>1 DEF Nothing
  <2> QED BY <1>2, <2>1, <2>2 DEF Empty
<1>4. ASSUME NEW i \in 0..n - 1, i \in S PROVE i + 1 \in S
  <2> DEFINE acc == f[i]
             pcm == Pcm(segs[i + 1])
             new == f[i + 1]
  <2>1. i + 1 \in 1..n /\ (i + 1) - 1 = i /\ i + 1 \in 0..n /\ i \in 0..n
    BY <1>1
  <2>2. new = AddSegment(acc, pcm, s)
    BY <1>2, <2>1
  <2>3. pcm \in Seq(Nat)
    <3>1. segs[i + 1] \in Span(samples)
      BY <2>1
    <3> QED BY <3>1, PcmTyped
  <2>4. acc \in Accs /\ Nothing(acc.ready) /\ acc.current = << >>
    BY <1>2, <1>4, <2>1
  <2>5. Flush(acc) = acc.ready
    BY <2>4 DEF Flush
  <2> HIDE DEF acc, pcm, new
  <2>6. CASE Len(pcm) > s.max
    <3>1. new = [ready |-> acc.ready \o Split(pcm, s), current |-> << >>]
      BY <2>2, <2>5, <2>6 DEF AddSegment
    <3>2. Nothing(acc.ready \o Split(pcm, s))
      BY <2>3, <2>4, SplitNothing, NothingConcat
    <3>3. new.ready = acc.ready \o Split(pcm, s) /\ new.current = << >>
      BY <3>1
    <3> QED BY <2>1, <3>2, <3>3 DEF new
  <2>7. CASE ~(Len(pcm) > s.max)
    <3>1. Len(pcm) = 0 /\ Len(<< >>) = 0
      BY <2>3, <2>7
    <3>2. pcm = << >>
      BY <2>3, <3>1, EmptySeq
    <3>3. new = [acc EXCEPT !.current = @ \o pcm]
      BY <2>2, <2>4, <2>7, <3>1 DEF AddSegment
    <3>4. << >> \o << >> = << >>
      OBVIOUS
    <3>5. new.ready = acc.ready /\ new.current = << >>
      BY <2>4, <3>2, <3>3, <3>4 DEF Accs
    <3> QED BY <2>1, <2>4, <3>5 DEF new
  <2> QED BY <2>6, <2>7
<1>5. n \in S
  <2> HIDE DEF S
  <2> QED BY <1>1, <1>3, <1>4, InductionUpTo, n \in 0..n
<1>6. Flush(f[n]) = f[n].ready
  BY <1>5 DEF Flush
<1> QED BY <1>2, <1>5, <1>6

-----------------------------------------------------------------------------
\* The words.

PartsOf(cs, same) == [i \in 1..Len(cs) |-> Part(cs[i], same)]

\* A chunk's words are written.
LEMMA PcmHeard ==
  ASSUME NEW cs \in Seq(Pieces), NEW i \in 1..Len(cs), NEW j \in 1..Len(cs[i].pcm)
  PROVE  LET text == Joined(PartsOf(cs, FALSE)) IN \E k \in 1..Len(text) : text[k] = cs[i].pcm[j]
<1> DEFINE ps == PartsOf(cs, FALSE)
<1>1. ps \in Seq(Parts) /\ Len(ps) = Len(cs) /\ ps[i].words = cs[i].pcm
  BY HeardApart DEF PartsOf
<1> HIDE DEF ps
<1>2. i \in 1..Len(ps) /\ j \in 1..Len(ps[i].words)
  BY <1>1
<1>3. \E k \in 1..Len(Joined(ps)) : Joined(ps)[k] = ps[i].words[j]
  BY <1>1, <1>2, JoinedHears
<1> QED BY <1>1, <1>3 DEF ps

\* Every sample of the segments is written.
LEMMA SamplesHeard ==
  ASSUME NEW samples \in Nat, NEW segs \in Seq(Span(samples)), NEW s \in Setting,
         s.chunking => s.max > 0, NEW m \in 1..Len(Samples(segs))
  PROVE  LET text == Joined(PartsOf(ChunksOf(segs, s), FALSE)) IN
         \E k \in 1..Len(text) : text[k] = Samples(segs)[m]
<1> DEFINE cs == ChunksOf(segs, s)
           text == Joined(PartsOf(cs, FALSE))
           all == Samples(segs)
<1>1. cs \in Seq(Pieces) /\ Len(cs) \in Nat
  BY ChunksTyped
<1>2. CASE ~s.chunking
  <2> DEFINE c == NewChunk(all, FALSE)
  <2>1. c \in Pieces /\ cs = <<c>> /\ c.pcm = all
    BY <1>2, ChunksTyped DEF NewChunk
  <2> HIDE DEF c, cs, text, all
  <2>2. Len(cs) = 1 /\ cs[1] = c /\ 1 \in 1..1
    BY <2>1
  <2>3. 1 \in 1..Len(cs) /\ m \in 1..Len(cs[1].pcm) /\ cs[1].pcm[m] = all[m]
    BY <2>1, <2>2 DEF all
  <2>4. \E k \in 1..Len(text) : text[k] = cs[1].pcm[m]
    BY <1>1, <2>3, PcmHeard DEF text
  <2> QED BY <2>3, <2>4 DEF text, all, cs
<1>3. CASE s.chunking
  <2> DEFINE adds == Adds(cs, s)
  <2>1. s.max > 0 /\ cs = Chunked(segs, s)
    BY <1>3 DEF ChunksOf
  <2>2. Linked(cs, s) /\ FlattenSeq(adds) = all
    BY <2>1, ChunkedFound
  <2> HIDE DEF cs, text, all
  <2>3. adds \in Seq(Seq(Nat)) /\ Len(adds) = Len(cs) /\ \A i \in 1..Len(cs) : adds[i] = Fresh(cs, i, s)
    BY <2>1, <2>2, AddsTyped
  <2> HIDE DEF adds
  <2>4. m \in 1..Len(FlattenSeq(adds))
    BY <2>2 DEF all
  <2>5. PICK i \in 1..Len(adds) : \E j \in 1..Len(adds[i]) : FlattenSeq(adds)[m] = adds[i][j]
    BY <2>3, <2>4, FlattenElements
  <2>6. PICK j \in 1..Len(adds[i]) : FlattenSeq(adds)[m] = adds[i][j]
    BY <2>5
  <2>7. i \in 1..Len(cs) /\ adds[i] = Fresh(cs, i, s)
    BY <2>3
  <2> DEFINE pcm == cs[i].pcm
             a == IF Follows(cs, i) THEN Shared(s) ELSE 0
  <2>8. pcm \in Seq(Nat) /\ Len(pcm) \in Nat
    <3>1. cs[i] \in Pieces
      BY <1>1, <2>7
    <3>2. pcm \in Seq(Nat)
      BY <3>1 DEF Pieces
    <3> QED BY <3>2, LenProperties
  <2>9. a \in Nat /\ a <= Len(pcm)
    <3>1. Follows(cs, i) => Shared(s) < Len(pcm)
      BY <2>2, <2>7 DEF Linked
    <3>2. Shared(s) \in Nat
      BY <2>1, StepTyped
    <3> HIDE DEF pcm
    <3> QED BY <2>8, <3>1, <3>2
  <2>10. adds[i] = SubSeq(pcm, a + 1, Len(pcm))
    <3>1. CASE Follows(cs, i)
      BY <2>7, <3>1 DEF Fresh
    <3>2. CASE ~Follows(cs, i)
      <4>1. adds[i] = SubSeq(pcm, 1, Len(pcm)) /\ a = 0 /\ 0 + 1 = 1
        BY <2>7, <3>2 DEF Fresh
      <4> QED BY <4>1
    <3> QED BY <3>1, <3>2
  <2> HIDE DEF a, pcm
  <2>11. Len(adds[i]) = Len(pcm) - a /\ adds[i][j] = pcm[a + j]
    <3>1. Len(adds[i]) = Len(pcm) - a /\ \A e \in 1..Len(pcm) - a : adds[i][e] = pcm[a + e]
      BY <2>8, <2>9, <2>10, Piece, Len(pcm) <= Len(pcm)
    <3> QED BY <3>1, <2>6
  <2>12. a + j \in 1..Len(pcm)
    BY <2>6, <2>8, <2>9, <2>11
  <2>13. a + j \in 1..Len(cs[i].pcm)
    BY <2>12 DEF pcm
  <2>14. \E k \in 1..Len(text) : text[k] = cs[i].pcm[a + j]
    BY <1>1, <2>7, <2>13, PcmHeard DEF text
  <2>15. cs[i].pcm[a + j] = all[m]
    BY <2>2, <2>6, <2>11 DEF pcm
  <2> QED BY <2>14, <2>15 DEF text, all, cs
<1> QED BY <1>2, <1>3

\* Empty parts join to nothing.
LEMMA JoinedNothing ==
  ASSUME NEW ps \in Seq(Parts), \A i \in 1..Len(ps) : Len(ps[i].words) = 0
  PROVE  Joined(ps) = << >>
<1> DEFINE n == Len(ps)
<1>1. n \in Nat
  OBVIOUS
<1>2. PICK f \in [0..n -> Seq(Nat)] :
        /\ f[0] = << >> /\ Joined(ps) = f[n]
        /\ \A i \in 1..n : f[i] = JoinPart(f[i - 1], ps, i)
  BY JoinedCourse
<1> DEFINE S == {i \in 0..n : Len(f[i]) = 0}
<1>3. 0 \in S
  BY <1>1, <1>2, EmptySeq
<1>4. ASSUME NEW i \in 0..n - 1, i \in S PROVE i + 1 \in S
  <2> DEFINE text == f[i]
             d == Dropped(text, ps, i + 1)
             w == Len(ps[i + 1].words)
             l == Len(JoinPart(text, ps, i + 1))
             t == Len(text)
  <2>1. i + 1 \in 1..n /\ (i + 1) - 1 = i /\ i + 1 \in 0..n /\ i \in 0..n
    BY <1>1
  <2>2. f[i + 1] = JoinPart(text, ps, i + 1) /\ text \in Seq(Nat)
    BY <1>2, <2>1
  <2>3. d \in 0..w /\ l = t + w - d
    BY <2>1, <2>2, JoinPartFound
  <2>4. w = 0 /\ t = 0
    BY <1>4, <2>1
  <2> HIDE DEF d, w, l, t, text
  <2>5. d = 0
    BY <2>3, <2>4
  <2>6. l = 0 + 0 - 0
    BY <2>3, <2>4, <2>5
  <2>7. l = 0
    BY <2>6
  <2> QED BY <2>1, <2>2, <2>7 DEF l
<1>5. n \in S
  <2> HIDE DEF S
  <2> QED BY <1>1, <1>3, <1>4, InductionUpTo, n \in 0..n
<1>6. f[n] \in Seq(Nat) /\ Len(f[n]) = 0
  BY <1>1, <1>2, <1>5
<1> QED BY <1>2, <1>6, EmptySeq

\* When the overlap is at most MaxWords words, the words are the samples of the
\* segments, or nothing when the limit is zero.
LEMMA SamplesWritten ==
  ASSUME NEW samples \in Nat, NEW segs \in Seq(Span(samples)), NEW s \in Setting,
         s.chunking => Shared(s) <= MaxWords
  PROVE  LET text == Joined(PartsOf(ChunksOf(segs, s), FALSE)) IN text = Samples(segs) \/ text = << >>
<1> DEFINE cs == ChunksOf(segs, s)
           ps == PartsOf(cs, FALSE)
           all == Samples(segs)
<1>1. cs \in Seq(Pieces) /\ Len(cs) \in Nat
  BY ChunksTyped
<1>2. ps \in Seq(Parts) /\ Len(ps) = Len(cs) /\ \A i \in 1..Len(cs) : ps[i].words = cs[i].pcm /\ Len(ps[i].words) = Len(cs[i].pcm)
  BY <1>1, HeardApart DEF PartsOf
<1>3. CASE ~s.chunking
  <2> DEFINE c == NewChunk(all, FALSE)
  <2>1. c \in Pieces /\ cs = <<c>> /\ c.pcm = all
    BY <1>3, ChunksTyped DEF NewChunk
  <2>2. all \in Seq(Nat)
    BY SamplesFound
  <2> HIDE DEF c, cs, all, ps
  <2>3. Len(cs) = 1 /\ cs[1] = c /\ 1 \in 1..1
    BY <2>1
  <2>4. Len(ps) = 1 /\ ps[1].words = all
    BY <1>2, <2>1, <2>3
  <2>5. \E f \in [0..Len(ps) -> Seq(Nat)] :
          /\ f[0] = << >> /\ Joined(ps) = f[Len(ps)]
          /\ \A i \in 1..Len(ps) : f[i] = JoinPart(f[i - 1], ps, i)
    BY <1>2, JoinedCourse
  <2>6. Joined(ps) = JoinPart(<< >>, ps, 1)
    <3>1. 1 - 1 = 0
      OBVIOUS
    <3> QED BY <2>3, <2>4, <2>5, <3>1
  <2>7. JoinPart(<< >>, ps, 1) = << >> \o all
    BY <2>4 DEF JoinPart
  <2>8. Joined(ps) = all
    BY <2>2, <2>6, <2>7, ConcatEmptySeq
  <2> QED BY <2>8 DEF ps, all, cs
<1>4. CASE s.chunking /\ s.max = 0
  <2>1. cs = Chunked(segs, s)
    BY <1>4 DEF ChunksOf
  <2>2. Nothing(cs)
    BY <1>4, <2>1, ChunkedNothing
  <2> HIDE DEF cs, ps
  <2>3. \A i \in 1..Len(ps) : Len(ps[i].words) = 0
    BY <1>2, <2>2 DEF Nothing
  <2>4. Joined(ps) = << >>
    BY <1>2, <2>3, JoinedNothing
  <2> QED BY <2>4 DEF ps, cs
<1>5. CASE s.chunking /\ s.max > 0
  <2>1. cs = Chunked(segs, s)
    BY <1>5 DEF ChunksOf
  <2>2. Linked(cs, s) /\ FlattenSeq(Adds(cs, s)) = all
    BY <1>5, <2>1, ChunkedFound
  <2> HIDE DEF cs, all
  <2>3. Joined(ps) = FlattenSeq(Adds(cs, s))
    BY <1>5, <2>2, JoinedExact DEF PartsOf
  <2> QED BY <2>2, <2>3 DEF cs, all
<1>6. s.max = 0 \/ s.max > 0
  <2>1. s.max \in Nat
    BY StepTyped
  <2> DEFINE x == s.max
  <2> HIDE DEF x
  <2>2. x = 0 \/ x > 0
    BY <2>1 DEF x
  <2> QED BY <2>2 DEF x
<1>7. CASE s.chunking
  BY <1>4, <1>5, <1>6, <1>7
<1> QED BY <1>3, <1>7

-----------------------------------------------------------------------------
\* The stages.  What each stage has made is a function of the recording and the
\* setting, so the inductive invariant says which function, and from when on.

Segs == Segmented(recording, setting)
Chks == ChunksOf(Segs, setting)
FirstParts(cs, same, n) == [i \in 1..n |-> Part(cs[i], same)]

StageOK ==
  /\ setting \in Setting /\ recording \in Recording /\ alike \in BOOLEAN
  /\ stage \in {"decode", "segment", "chunk", "transcribe", "done"}
  /\ outcome \in {"running", "Written", "NoSpeech", "error"}
  /\ outcome = "running" <=> stage # "done"

MadeOK ==
  /\ segments \in {<< >>, Segs} /\ chunks \in {<< >>, Chks}
  /\ stage \in {"chunk", "transcribe"} \/ outcome = "Written" => segments = Segs
  /\ stage \in {"decode", "segment", "chunk"} => chunks = << >>
  /\ stage = "transcribe" \/ outcome = "Written" => chunks = Chks
  /\ \E n \in 0..Len(chunks) : parts = FirstParts(chunks, alike, n)

EndOK ==
  /\ outcome = "Written" => parts = PartsOf(chunks, alike) /\ transcript = Joined(parts)
  /\ outcome = "NoSpeech" => recording.samples = 0 \/ Silent(recording, setting)

SpeechInv == StageOK /\ MadeOK /\ EndOK

LEMMA MadeTyped ==
  ASSUME SpeechInv
  PROVE  /\ recording.samples \in Nat /\ Segs \in Seq(Span(recording.samples)) /\ Segs # << >>
         /\ Chks \in Seq(Pieces) /\ chunks \in Seq(Pieces) /\ Len(chunks) \in Nat
<1>1. recording \in Recording /\ setting \in Setting /\ chunks \in {<< >>, Chks}
  BY DEF SpeechInv, StageOK, MadeOK
<1>2. recording.samples \in Nat /\ Segs \in Seq(Span(recording.samples)) /\ Segs # << >>
  BY <1>1, Typed, SegmentedFound DEF Segs
<1>3. Chks \in Seq(Pieces)
  BY <1>1, <1>2, ChunksTyped DEF Chks
<1>4. << >> \in Seq(Pieces)
  OBVIOUS
<1>5. chunks \in Seq(Pieces)
  BY <1>1, <1>3, <1>4
<1>6. Len(chunks) \in Nat
  BY <1>5, LenProperties
<1> QED BY <1>2, <1>3, <1>5, <1>6

LEMMA PartsGrow ==
  ASSUME NEW cs \in Seq(Pieces), NEW same \in BOOLEAN, NEW n \in 0..Len(cs)
  PROVE  /\ Len(FirstParts(cs, same, n)) = n
         /\ n < Len(cs) => Append(FirstParts(cs, same, n), Part(cs[n + 1], same)) = FirstParts(cs, same, n + 1)
<1> DEFINE part(i) == Part(cs[i], same)
           a == [i \in 1..n |-> part(i)]
           b == [i \in 1..n + 1 |-> part(i)]
<1>1. Len(cs) \in Nat /\ n \in Nat
  OBVIOUS
<1>2. \A i \in 1..Len(cs) : part(i) \in Parts
  <2>1. /\ [i \in 1..Len(cs) |-> part(i)] \in Seq(Parts)
        /\ Len([i \in 1..Len(cs) |-> part(i)]) = Len(cs)
    BY HeardApart
  <2> HIDE DEF part
  <2> SUFFICES ASSUME NEW i \in 1..Len(cs) PROVE part(i) \in Parts
    OBVIOUS
  <2> DEFINE p == [j \in 1..Len(cs) |-> part(j)]
  <2>2. p[i] = part(i)
    OBVIOUS
  <2>3. p[i] \in Parts
    <3> HIDE DEF p
    <3>1. p \in Seq(Parts) /\ Len(p) = Len(cs)
      BY <2>1 DEF p
    <3> QED BY <3>1
  <2> QED BY <2>2, <2>3
<1> HIDE DEF part
<1>3. a \in Seq(Parts) /\ Len(a) = n /\ \A i \in 1..n : a[i] = part(i)
  BY <1>1, <1>2
<1>4. ASSUME n < Len(cs) PROVE Append(a, part(n + 1)) = b
  <2> DEFINE t == Append(a, part(n + 1))
  <2>1. part(n + 1) \in Parts
    BY <1>1, <1>2, <1>4
  <2> HIDE DEF a
  <2>2. t \in Seq(Parts) /\ Len(t) = n + 1 /\ t[n + 1] = part(n + 1) /\ \A i \in 1..n : t[i] = a[i]
    BY <1>3, <2>1, OneMore
  <2> HIDE DEF t
  <2>3. DOMAIN t = 1..n + 1 /\ t = [i \in 1..n + 1 |-> t[i]]
    BY <2>2
  <2>4. \A i \in 1..n + 1 : t[i] = part(i)
    <3>1. \A i \in 1..n + 1 : i \in 1..n \/ i = n + 1
      BY <1>1
    <3> QED BY <1>3, <2>2, <3>1
  <2> QED BY <2>3, <2>4 DEF t
<1>5. FirstParts(cs, same, n) = a /\ FirstParts(cs, same, n + 1) = b /\ Part(cs[n + 1], same) = part(n + 1)
  BY DEF FirstParts, part
<1> QED BY <1>3, <1>4, <1>5

LEMMA SpeechInductive == SSpec => []SpeechInv
<1>1. SInit => SpeechInv
  <2> SUFFICES ASSUME SInit PROVE SpeechInv
    OBVIOUS
  <2>1. Len(<< >>) = 0 /\ FirstParts(<< >>, alike, 0) = << >> /\ 0 \in 0..0
    BY DEF FirstParts
  <2>2. \E n \in 0..Len(chunks) : parts = FirstParts(chunks, alike, n)
    BY <2>1 DEF SInit
  <2> QED BY <2>2 DEF SInit, SpeechInv, StageOK, MadeOK, EndOK
<1>2. SpeechInv /\ [SNext]_svars => SpeechInv'
  <2> SUFFICES ASSUME SpeechInv, [SNext]_svars PROVE SpeechInv'
    OBVIOUS
  <2>1. setting' = setting /\ recording' = recording /\ alike' = alike
    BY DEF SNext, Decode, Segment, Chunk, Transcribe, Write, Fails, inputs, svars
  <2>2. Segs' = Segs /\ Chks' = Chks
    BY <2>1 DEF Segs, Chks
  <2>3. StageOK /\ MadeOK /\ EndOK
    BY DEF SpeechInv
  <2>4. chunks \in Seq(Pieces) /\ Len(chunks) \in Nat /\ Chks \in Seq(Pieces)
    BY MadeTyped
  <2>5. PICK n \in 0..Len(chunks) : parts = FirstParts(chunks, alike, n)
    BY <2>3 DEF MadeOK
  <2>6. Len(parts) = n /\ n \in Nat
    BY <2>3, <2>4, <2>5, PartsGrow DEF StageOK
  <2>7. CASE Decode
    <3> QED BY <2>1, <2>2, <2>3, <2>7 DEF Decode, Goes, StageOK, MadeOK, EndOK, SpeechInv
  <2>8. CASE Segment
    <3>1. CASE ~setting.vad
      <4>1. segments' = <<Whole(recording)>> /\ stage' = "chunk" /\ outcome' = outcome
        BY <2>8, <3>1 DEF Segment, Goes
      <4>2. segments' = Segs
        BY <3>1, <4>1 DEF Segs, Segmented
      <4> QED BY <2>1, <2>2, <2>3, <2>8, <4>1, <4>2 DEF Segment, StageOK, MadeOK, EndOK, SpeechInv
    <3>2. CASE setting.vad /\ (recording.samples = 0 \/ (Assembled(recording, setting) = << >> /\ Silent(recording, setting)))
      <4>1. stage' = "done" /\ outcome' = "NoSpeech" /\ UNCHANGED segments
        BY <2>8, <3>2 DEF Segment, Ends
      <4>2. recording.samples = 0 \/ Silent(recording, setting)
        BY <3>2
      <4> QED BY <2>1, <2>2, <2>3, <2>8, <4>1, <4>2 DEF Segment, StageOK, MadeOK, EndOK, SpeechInv
    <3>3. CASE setting.vad /\ ~(recording.samples = 0 \/ (Assembled(recording, setting) = << >> /\ Silent(recording, setting)))
      <4>1. stage' = "chunk" /\ outcome' = outcome
        BY <2>8, <3>3 DEF Segment, Goes
      <4>2. segments' = Segs
        BY <2>8, <3>3 DEF Segment, Segs, Segmented
      <4> QED BY <2>1, <2>2, <2>3, <2>8, <4>1, <4>2 DEF Segment, StageOK, MadeOK, EndOK, SpeechInv
    <3> QED BY <3>1, <3>2, <3>3
  <2>9. CASE Chunk
    <3>1. segments = Segs /\ chunks = << >> /\ stage = "chunk" /\ stage' = "transcribe" /\ outcome' = outcome
      BY <2>3, <2>9 DEF Chunk, Goes, MadeOK
    <3>2. chunks' = Chks
      BY <2>9, <3>1 DEF Chunk, Chks, ChunksOf
    <3>3. parts' = FirstParts(chunks', alike', 0)
      <4>1. n = 0
        BY <2>5, <3>1
      <4>2. FirstParts(chunks, alike, 0) = << >> /\ FirstParts(chunks', alike', 0) = << >>
        BY DEF FirstParts
      <4> QED BY <2>5, <2>9, <4>1, <4>2 DEF Chunk
    <3>4. 0 \in 0..Len(chunks')
      <4>1. Len(chunks') \in Nat
        BY <2>4, <3>2, LenProperties
      <4> QED BY <4>1
    <3>5. UNCHANGED segments
      BY <2>9 DEF Chunk
    <3>6. outcome = "running"
      BY <2>3, <3>1 DEF StageOK
    <3>7. MadeOK'
      BY <2>2, <3>1, <3>2, <3>3, <3>4, <3>5, <3>6 DEF MadeOK
    <3> QED BY <2>1, <2>3, <3>1, <3>6, <3>7 DEF StageOK, EndOK, SpeechInv
  <2>10. CASE Transcribe
    <3>1. /\ stage = "transcribe" /\ Len(parts) < Len(chunks)
          /\ parts' = Append(parts, Part(chunks[Len(parts) + 1], alike))
          /\ UNCHANGED <<stage, segments, chunks, transcript, outcome>>
      BY <2>10 DEF Transcribe
    <3>2. parts' = FirstParts(chunks, alike, n + 1) /\ n + 1 \in 0..Len(chunks)
      BY <2>3, <2>4, <2>5, <2>6, <3>1, PartsGrow DEF StageOK
    <3>3. outcome = "running"
      BY <2>3, <3>1 DEF StageOK
    <3>4. MadeOK'
      BY <2>1, <2>2, <2>3, <3>1, <3>2 DEF MadeOK
    <3> QED BY <2>1, <2>3, <3>1, <3>3, <3>4 DEF StageOK, EndOK, SpeechInv
  <2>11. CASE Write
    <3>1. /\ stage = "transcribe" /\ Len(parts) = Len(chunks) /\ transcript' = Joined(parts)
          /\ stage' = "done" /\ outcome' = "Written" /\ UNCHANGED <<segments, chunks, parts>>
      BY <2>11 DEF Write, Ends
    <3>2. parts = PartsOf(chunks, alike)
      BY <2>5, <2>6, <3>1 DEF PartsOf, FirstParts
    <3>3. segments = Segs /\ chunks = Chks
      BY <2>3, <3>1 DEF MadeOK
    <3>4. MadeOK'
      BY <2>1, <2>2, <2>3, <3>1, <3>3 DEF MadeOK
    <3>5. EndOK'
      BY <2>1, <3>1, <3>2 DEF EndOK
    <3> QED BY <2>1, <2>3, <3>1, <3>4, <3>5 DEF StageOK, SpeechInv
  <2>12. CASE Fails
    <3>1. /\ stage # "done" /\ stage' = "done" /\ outcome' = "error"
          /\ UNCHANGED <<segments, chunks, parts, transcript>>
      BY <2>12 DEF Fails, Ends
    <3>2. MadeOK'
      BY <2>1, <2>2, <2>3, <3>1 DEF MadeOK
    <3> QED BY <2>1, <2>3, <3>1, <3>2 DEF StageOK, EndOK, SpeechInv
  <2>13. CASE UNCHANGED svars
    BY <2>1, <2>2, <2>3, <2>13 DEF svars, StageOK, MadeOK, EndOK, SpeechInv
  <2> QED BY <2>7, <2>8, <2>9, <2>10, <2>11, <2>12, <2>13 DEF SNext
<1> QED BY <1>1, <1>2, PTL DEF SSpec

\* A written note is the join of the texts of the chunks of the segments.
LEMMA NoteIs ==
  ASSUME SpeechInv, outcome = "Written"
  PROVE  /\ transcript = Joined(PartsOf(Chks, alike)) /\ parts = PartsOf(Chks, alike)
         /\ parts \in Seq(Parts)
<1>1. transcript = Joined(parts) /\ parts = PartsOf(chunks, alike) /\ chunks = Chks
  BY DEF SpeechInv, MadeOK, EndOK
<1>2. Chks \in Seq(Pieces)
  BY MadeTyped
<1>3. alike \in BOOLEAN
  BY DEF SpeechInv, StageOK
<1>4. PartsOf(Chks, alike) \in Seq(Parts)
  BY <1>2, <1>3, HeardApart DEF PartsOf
<1> QED BY <1>1, <1>4

\* Every variable keeps its type, and a segment lies in the recording.
THEOREM SpeechTypeCorrect == SSpec => []SpeechTypeOK
<1>1. SpeechInv => SpeechTypeOK
  <2> SUFFICES ASSUME SpeechInv PROVE SpeechTypeOK
    OBVIOUS
  <2>1. ASSUME NEW i \in 1..Len(segments)
        PROVE  0 <= segments[i][1] /\ segments[i][1] <= segments[i][2] /\ segments[i][2] <= recording.samples
    <3> DEFINE seg == segments[i]
    <3>1. segments = << >> \/ segments = Segs
      BY DEF SpeechInv, MadeOK
    <3>2. segments # << >>
      BY <2>1
    <3>3. seg \in Span(recording.samples)
      BY <2>1, <3>1, <3>2, MadeTyped
    <3> HIDE DEF seg
    <3>4. seg[1] \in Nat /\ seg[1] <= seg[2] /\ seg[2] <= recording.samples
      BY <3>3 DEF Span, Pairs
    <3> QED BY <3>4 DEF seg
  <2>2. Len(parts) <= Len(chunks)
    <3>1. PICK n \in 0..Len(chunks) : parts = FirstParts(chunks, alike, n)
      BY DEF SpeechInv, MadeOK
    <3>2. Len(parts) = n /\ Len(chunks) \in Nat
      BY <3>1, MadeTyped, PartsGrow DEF SpeechInv, StageOK
    <3> QED BY <3>1, <3>2
  <2> QED BY <2>1, <2>2 DEF SpeechInv, StageOK, SpeechTypeOK
<1> QED BY <1>1, SpeechInductive, PTL

\* The loops of assemble_segments find exactly the groups of speech that are long
\* enough, in order, each padded and clamped (vad.rs:173-211): for any recording,
\* thresholds and padding.
THEOREM SegmentsFound == SSpec => []SegmentsAreSpeech
<1>1. SpeechInv => SegmentsAreSpeech
  <2> DEFINE spoken == Spoken(recording, setting)
  <2> SUFFICES ASSUME SpeechInv, stage \in {"chunk", "transcribe"}, setting.vad, spoken # {}
               PROVE  \E nth \in [1..Len(segments) -> spoken] :
                        /\ \A i \in 1..Len(segments) : segments[i] = Pad(nth[i], recording, setting)
                        /\ \A i \in 1..Len(segments) - 1 : nth[i][2] < nth[i + 1][1]
                        /\ \A g \in spoken : \E i \in 1..Len(segments) : nth[i] = g
    BY DEF SegmentsAreSpeech
  <2>1. recording \in Recording /\ setting \in Setting /\ segments = Segmented(recording, setting)
    BY DEF SpeechInv, StageOK, MadeOK, Segs
  <2>2. PICK nth \in [1..Len(segments) -> spoken] :
          /\ \A i \in 1..Len(segments) : segments[i] = Pad(nth[i], recording, setting)
          /\ \A i \in 1..Len(segments) - 1 : nth[i][2] + Pause(setting) <= nth[i + 1][1]
          /\ \A g \in spoken : \E i \in 1..Len(segments) : nth[i] = g
    BY <2>1, SegmentedFound
  <2>3. Len(segments) \in Nat
    BY <2>1, SegmentedFound
  <2>4. ASSUME NEW i \in 1..Len(segments) - 1 PROVE nth[i][2] < nth[i + 1][1]
    <3> DEFINE windows == Len(recording.prob)
               q == Pause(setting)
               g == nth[i]
               h == nth[i + 1]
               b == g[2]
               c == h[1]
    <3>1. q \in Nat \ {0} /\ windows \in Nat
      BY <2>1, Typed
    <3>2. g \in spoken /\ h \in spoken
      BY <2>2, <2>3
    <3>3. spoken \subseteq (0..windows) \X (1..windows)
      BY DEF Spoken, Groups
    <3>4. b + q <= c
      BY <2>2
    <3> HIDE DEF g, h, q, windows, spoken
    <3>5. b \in Nat /\ c \in Nat
      BY <3>1, <3>2, <3>3
    <3> HIDE DEF b, c
    <3>6. b < c
      BY <3>1, <3>4, <3>5
    <3> QED BY <3>6 DEF b, c, g, h
  <2> HIDE DEF spoken
  <2> QED BY <2>2, <2>4
<1> QED BY <1>1, SpeechInductive, PTL

\* With a limit of at least one sample no chunk is empty or above the limit, a
\* flagged chunk and the next share exactly the overlap, and without it the chunks
\* hold the samples of the segments, each once and in order (chunker.rs:66, 111).
THEOREM ChunksFound == SSpec => []ChunksAreSegments
<1>1. SpeechInv => ChunksAreSegments
  <2> SUFFICES ASSUME SpeechInv, stage = "transcribe", setting.chunking, setting.max > 0
               PROVE  /\ \A i \in 1..Len(chunks) :
                           /\ Len(chunks[i].pcm) \in 1..setting.max
                           /\ Follows(chunks, i) =>
                                SubSeq(chunks[i].pcm, 1, Shared(setting))
                                  = SubSeq(chunks[i - 1].pcm, Len(chunks[i - 1].pcm) - Shared(setting) + 1,
                                           Len(chunks[i - 1].pcm))
                      /\ FlattenSeq([i \in 1..Len(chunks) |-> Fresh(chunks, i, setting)]) = Samples(segments)
    BY DEF ChunksAreSegments
  <2>1. setting \in Setting /\ segments = Segs /\ chunks = Chunked(Segs, setting)
    BY DEF SpeechInv, StageOK, MadeOK, Chks, ChunksOf
  <2>2. Linked(chunks, setting) /\ FlattenSeq(Adds(chunks, setting)) = Samples(segments)
    BY <2>1, MadeTyped, ChunkedFound
  <2>3. FlattenSeq([i \in 1..Len(chunks) |-> Fresh(chunks, i, setting)]) = Samples(segments)
    BY <2>2 DEF Adds
  <2> QED BY <2>2, <2>3 DEF Linked
<1> QED BY <1>1, SpeechInductive, PTL

\* A recording is called silent only if no window reaches the level of silence, and
\* every sample that counts is transcribed (deafness.rs:44, pipeline.rs:72): no
\* loop of the segmentation, the chunking or the join loses one.
THEOREM SpeechHeard == SSpec => []SpeechIsHeard
<1>1. SpeechInv => SpeechIsHeard
  <2> SUFFICES ASSUME SpeechInv PROVE SpeechIsHeard
    OBVIOUS
  <2> DEFINE spoken == Spoken(recording, setting)
  <2>1. recording \in Recording /\ setting \in Setting /\ alike \in BOOLEAN
    BY DEF SpeechInv, StageOK
  <2>2. ASSUME outcome = "NoSpeech" PROVE \A w \in 1..Len(recording.prob) : recording.prob[w] < SilenceMax
    <3>1. Silent(recording, setting) \/ recording.samples = 0
      BY <2>2 DEF SpeechInv, EndOK
    <3> QED BY <2>1, <3>1, SilentFound
  <2>3. ASSUME outcome = "Written", ~alike, setting.chunking => setting.max > 0,
               NEW p \in 1..recording.samples,
               ~(setting.vad /\ spoken # {} /\ \A g \in spoken : p \notin g[1] * Window + 1 .. g[2] * Window)
        PROVE  \E i \in 1..Len(transcript) : transcript[i] = p
    <3> DEFINE n == recording.samples
    <3>1. n \in Nat /\ Segs \in Seq(Span(n)) /\ Segs # << >>
      BY MadeTyped
    <3>2. alike = FALSE
      BY <2>1, <2>3
    <3>3. transcript = Joined(PartsOf(ChunksOf(Segs, setting), FALSE))
      BY <2>3, <3>2, NoteIs DEF Chks
    <3>4. p \in Nat /\ 0 < p /\ p <= n
      BY <2>3, <3>1
    <3>5. \E i \in 1..Len(Segs) : Segs[i][1] < p /\ p <= Segs[i][2]
      <4>1. CASE ~(setting.vad /\ spoken # {})
        <5>1. Segs = <<Whole(recording)>>
          BY <2>1, <4>1, SegmentedFound DEF Segs
        <5>2. Segs[1] = <<0, n>> /\ 1 \in 1..Len(Segs)
          BY <5>1 DEF Whole
        <5>3. Segs[1][1] < p /\ p <= Segs[1][2]
          BY <3>4, <5>2
        <5> QED BY <5>2, <5>3
      <4>2. CASE setting.vad /\ spoken # {}
        <5>1. PICK g \in spoken : p \in g[1] * Window + 1 .. g[2] * Window
          BY <2>3, <4>2
        <5>2. PICK i \in 1..Len(Segs) : Segs[i] = Pad(g, recording, setting)
          <6>1. \E nth \in [1..Len(Segs) -> spoken] :
                  /\ \A i \in 1..Len(Segs) : Segs[i] = Pad(nth[i], recording, setting)
                  /\ \A h \in spoken : \E i \in 1..Len(Segs) : nth[i] = h
            BY <2>1, <4>2, SegmentedFound DEF Segs
          <6> HIDE DEF spoken
          <6> QED BY <6>1
        <5> DEFINE seg == Pad(g, recording, setting)
                   a == seg[1]
                   A == g[1] * Window
                   B == g[2] * Window
        <5>3. seg \in Pairs /\ a <= A /\ (p <= B => p <= seg[2])
          BY <2>1, <2>3, PadLies
        <5>4. A \in Int /\ B \in Int
          <6>1. g \in (0..Len(recording.prob)) \X (1..Len(recording.prob)) /\ Len(recording.prob) \in Nat
            BY <2>1, Typed DEF Spoken, Groups
          <6>2. g[1] \in Nat /\ g[2] \in Nat /\ Window \in Nat
            BY <6>1, Constant
          <6>3. \A x, y \in Nat : x * y \in Int
            OBVIOUS
          <6> QED BY <6>2, <6>3
        <5>5. p \in A + 1 .. B
          BY <5>1
        <5> HIDE DEF seg, A, B
        <5>6. a \in Nat
          BY <5>3 DEF Pairs
        <5> HIDE DEF a
        <5>7. a < p /\ p <= B
          BY <3>4, <5>3, <5>4, <5>5, <5>6
        <5>8. Segs[i][1] < p /\ p <= Segs[i][2]
          BY <5>2, <5>3, <5>7 DEF seg, a
        <5> QED BY <5>8
      <4> QED BY <4>1, <4>2
    <3>6. PICK m \in 1..Len(Samples(Segs)) : Samples(Segs)[m] = p
      BY <3>1, <3>4, <3>5, SamplesFound
    <3>7. \E k \in 1..Len(transcript) : transcript[k] = Samples(Segs)[m]
      BY <2>1, <2>3, <3>1, <3>3, SamplesHeard
    <3> QED BY <3>6, <3>7
  <2> HIDE DEF spoken
  <2> QED BY <2>2, <2>3 DEF SpeechIsHeard, spoken
<1> QED BY <1>1, SpeechInductive, PTL

\* The text repeats nothing: when the overlap is at most MaxWords words and the
\* padding of two segments cannot meet, each word is written once and in order
\* (join.rs:15).
THEOREM WordsWrittenOnce == SSpec => []WordsOnce
<1>1. SpeechInv => WordsOnce
  <2> SUFFICES ASSUME SpeechInv, outcome = "Written", ~alike,
                      setting.chunking => Shared(setting) <= MaxWords,
                      setting.vad => 2 * PadSamples(setting) <= Pause(setting) * Window
               PROVE  Increasing(transcript)
    BY DEF WordsOnce, Increasing
  <2>1. recording \in Recording /\ setting \in Setting /\ alike = FALSE
    BY DEF SpeechInv, StageOK
  <2>2. recording.samples \in Nat /\ Segs \in Seq(Span(recording.samples))
    BY MadeTyped
  <2>3. transcript = Joined(PartsOf(ChunksOf(Segs, setting), FALSE))
    BY <2>1, NoteIs DEF Chks
  <2>4. transcript = Samples(Segs) \/ transcript = << >>
    BY <2>1, <2>2, <2>3, SamplesWritten
  <2>5. \A i \in 1..Len(Segs) - 1 : Segs[i][2] <= Segs[i + 1][1]
    BY <2>1, SegmentsInOrder DEF Segs
  <2>6. Increasing(Samples(Segs))
    BY <2>2, <2>5, SamplesFound
  <2>7. Increasing(<< >>)
    BY DEF Increasing
  <2> QED BY <2>4, <2>6, <2>7
<1> QED BY <1>1, SpeechInductive, PTL

\* Words that the speaker did repeat: the join drops at most MaxWords at a flagged
\* boundary and none elsewhere (join.rs:54).
THEOREM JoinLosesAtMost == SSpec => []JoinLosesLittle
<1>1. SpeechInv => JoinLosesLittle
  <2> SUFFICES ASSUME SpeechInv, outcome = "Written"
               PROVE  Len(transcript) + MaxWords * Cardinality({i \in 1..Len(parts) : parts[i].overlap})
                        >= Len(FlattenSeq([i \in 1..Len(parts) |-> parts[i].words]))
    BY DEF JoinLosesLittle
  <2>1. transcript = Joined(parts) /\ parts \in Seq(Parts)
    BY NoteIs
  <2> QED BY <2>1, JoinedLoses
<1> QED BY <1>1, SpeechInductive, PTL

====
