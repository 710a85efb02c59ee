--------------------------- MODULE StopWorldProofs ---------------------------
(***************************************************************************)
(* Proofs about StopWorld: wherever in the print power is lost, and        *)
(* whatever of the log survives, the height, the line and the extruder     *)
(* reading the machine stopped at are among those StopSet admits, for      *)
(* every timing and every number of faults, and for every file as long as  *)
(* the sample the lines are replayed from is Consistent: a line that       *)
(* moves an axis by an amount must not be run a second time.               *)
(***************************************************************************)
EXTENDS StopWorld, FiniteSetTheorems, SequenceTheorems, WellFoundedInduction, TLAPS

(* The lines that were read begin one after the other, each no sooner than *)
(* the ones before it can have ended.                                      *)
LinesInv ==
  /\ start \in Seq(Nat) /\ Read <= Len(File)
  /\ \A i, j \in 1..Read : i <= j =>
       start[i] + (TimeAfter(j - 1) - TimeAfter(i - 1)) <= start[j]
  /\ \A i \in 1..Read : start[i] < now + LookAhead

(* A planned move is dumped in order, after it was read and soon after it  *)
(* began.                                                                  *)
RowsInv ==
  /\ rowAt \in Seq(Nat) /\ Len(rowAt) <= Read
  /\ \A i, j \in 1..Len(rowAt) : i <= j => rowAt[i] <= rowAt[j]
  /\ \A i \in 1..Len(rowAt) :
       /\ rowAt[i] <= now
       /\ start[i] < rowAt[i] + LookAhead
       /\ rowAt[i] <= start[i] + Batch
  /\ \A i \in Len(rowAt) + 1 .. Read : now < start[i] + Batch

(* A sample parts the lines read by then from those read later.            *)
Parts(s) ==
  /\ \A i \in 1..s.done : start[i] < s.at + LookAhead
  /\ \A i \in s.done + 1 .. Read : s.at < start[i]
SamplesInv ==
  /\ \A s \in samples :
       /\ s \in [at : 0..now, pos : Nat, done : 0..Read]
       /\ s.pos <= s.done /\ s.done <= s.pos + 1
       /\ Parts(s)
  /\ \E s \in samples : s.at = 0

(* A planned move is missed only in a loss.                                *)
LossesInv ==
  /\ \A l \in losses : l \in [from : Nat, to : 0..now]
  /\ Blind => blindFrom \in Nat
  /\ missed \subseteq 1..Len(rowAt)
  /\ ~Blind => \A i \in missed : \E l \in losses : rowAt[i] <= l.to

EdgeInv == edge # NoTime => edge \in Nat /\ now <= edge + HoldUp

IInv ==
  /\ now \in Nat
  /\ LinesInv /\ RowsInv /\ SamplesInv /\ LossesInv /\ EdgeInv

-----------------------------------------------------------------------------
(* The greatest and the least of finite sets of numbers. *)

\* A nonempty set of naturals has a least element.
LEMMA LeastNat ==
  ASSUME NEW T \in SUBSET Nat, T # {}
  PROVE  \E x \in T : \A y \in T : x <= y
<1> DEFINE R == {ss \in Nat \X Nat : ss[1] < ss[2]}
<1>1. IsWellFoundedOn(R, Nat)
  BY NatLessThanWellFounded DEF OpToRel
<1>2. PICK x \in T : \A y \in T : ~(<<y, x>> \in R)
  BY <1>1, WFMin
<1>3. ASSUME NEW y \in T PROVE x <= y
  <2>1. y \in Nat /\ x \in Nat /\ <<y, x>> \in Nat \X Nat
    OBVIOUS
  <2>2. ~(y < x)
    BY <1>2, <2>1
  <2>. QED
    BY <2>1, <2>2
<1>. QED
  BY <1>3

HasMax(T) == \E x \in T : \A y \in T : y <= x
MaxLess(S) == {T \in SUBSET S : IsFiniteSet(T) /\ T # {} /\ ~HasMax(T)}

\* A finite nonempty set of integers has a greatest element: the smallest set
\* without one would still lack one after losing an element.
LEMMA FiniteMax ==
  ASSUME NEW S \in SUBSET Int, IsFiniteSet(S), S # {}
  PROVE  HasMax(S)
<1> SUFFICES ASSUME ~HasMax(S) PROVE FALSE
  OBVIOUS
<1> DEFINE Sizes == {Cardinality(T) : T \in MaxLess(S)}
<1>1. S \in MaxLess(S)
  BY DEF MaxLess
<1>2. Sizes \in SUBSET Nat /\ Sizes # {}
  BY <1>1, FS_CardinalityType DEF MaxLess
<1>3. PICK k \in Sizes : \A m \in Sizes : k <= m
  BY <1>2, LeastNat
<1>4. PICK T \in MaxLess(S) : k = Cardinality(T)
  BY <1>3
<1>5. IsFiniteSet(T) /\ T # {} /\ ~HasMax(T) /\ T \in SUBSET Int
  BY <1>4 DEF MaxLess
<1>6. PICK x \in T : TRUE
  BY <1>5
<1> DEFINE U == T \ {x}
<1>7. IsFiniteSet(U) /\ Cardinality(U) = k - 1 /\ k \in Nat /\ Cardinality(U) \in Nat
  BY <1>4, <1>5, <1>6, FS_RemoveElement, FS_CardinalityType
<1>8. U \notin MaxLess(S)
  <2>1. SUFFICES ASSUME U \in MaxLess(S) PROVE FALSE
    OBVIOUS
  <2>2. Cardinality(U) \in Sizes
    BY <2>1
  <2>3. k <= Cardinality(U)
    <3> HIDE DEF Sizes, U
    <3>. QED
      BY <1>3, <2>2
  <2>. QED
    BY <1>7, <2>3
<1>9. U = {} \/ HasMax(U)
  BY <1>4, <1>7, <1>8 DEF MaxLess
<1>10. CASE U = {}
  <2>1. T = {x} /\ x \in Int
    BY <1>5, <1>6, <1>10
  <2>. QED
    BY <1>5, <2>1 DEF HasMax
<1>11. CASE HasMax(U)
  <2>1. PICK m \in U : \A y \in U : y <= m
    BY <1>11 DEF HasMax
  <2>2. m \in Int /\ x \in Int /\ \A y \in T : y \in Int /\ (y \in U \/ y = x)
    BY <1>5, <1>6, <2>1
  <2>3. CASE x <= m
    BY <1>5, <2>1, <2>2, <2>3 DEF HasMax
  <2>4. CASE m <= x
    <3>1. \A y \in T : y <= x
      BY <2>1, <2>2, <2>4
    <3>. QED
      BY <1>5, <1>6, <3>1 DEF HasMax
  <2>. QED
    BY <2>2, <2>3, <2>4
<1>. QED
  BY <1>9, <1>10, <1>11

\* Max is the greatest element.
LEMMA MaxIs ==
  ASSUME NEW S \in SUBSET Int, IsFiniteSet(S), S # {}
  PROVE  Max(S) \in S /\ Max(S) \in Int /\ \A x \in S : x <= Max(S)
<1>1. PICK x \in S : \A y \in S : y <= x
  BY FiniteMax DEF HasMax
<1>2. \A y \in S : x >= y
  BY <1>1
<1>3. Max(S) \in S /\ \A y \in S : Max(S) >= y
  BY <1>2 DEF Max
<1>. QED
  BY <1>3

\* The values of a function on a finite set are finitely many.
LEMMA ImageIsFinite ==
  ASSUME NEW S, IsFiniteSet(S), NEW f, DOMAIN f = S
  PROVE  IsFiniteSet({f[x] : x \in S})
<1> DEFINE T == {f[x] : x \in S}
<1> DEFINE g == [x \in S |-> f[x]]
<1>1. g \in [S -> T] /\ \A t \in T : \E x \in S : g[x] = t
  OBVIOUS
<1>2. g \in Surjection(S, T)
  BY <1>1 DEF Surjection
<1>. QED
  BY <1>2, FS_Surjection

\* Min is the least element.
LEMMA MinIs ==
  ASSUME NEW S \in SUBSET Int, IsFiniteSet(S), S # {}
  PROVE  Min(S) \in S /\ Min(S) \in Int /\ \A x \in S : Min(S) <= x
<1> DEFINE N == {-x : x \in S}
<1> DEFINE f == [x \in S |-> -x]
<1>1. N \in SUBSET Int /\ N # {} /\ IsFiniteSet(N)
  <2>1. IsFiniteSet({f[x] : x \in S})
    BY ImageIsFinite, DOMAIN f = S
  <2>2. {f[x] : x \in S} = N
    OBVIOUS
  <2>3. \A x \in S : -x \in Int
    OBVIOUS
  <2>4. N # {}
    OBVIOUS
  <2>5. N \in SUBSET Int
    BY <2>3
  <2>. QED
    BY <2>1, <2>2, <2>4, <2>5
<1>2. PICK m \in N : \A y \in N : y <= m
  BY <1>1, FiniteMax DEF HasMax
<1>3. PICK x \in S : m = -x
  BY <1>2
<1>4. ASSUME NEW y \in S PROVE x <= y
  <2>1. -y <= -x
    BY <1>2, <1>3
  <2>. QED
    BY <2>1
<1>5. Min(S) \in S /\ \A y \in S : Min(S) <= y
  BY <1>3, <1>4 DEF Min
<1>. QED
  BY <1>5

\* A set of two or three numbers is finite.
LEMMA FewAreFinite ==
  ASSUME NEW a, NEW b, NEW c
  PROVE  IsFiniteSet({a}) /\ IsFiniteSet({a, b}) /\ IsFiniteSet({a, b, c})
<1>1. IsFiniteSet({c}) /\ IsFiniteSet({b}) /\ IsFiniteSet({a})
  BY FS_Singleton
<1>2. IsFiniteSet({b} \cup {a})
  BY <1>1, FS_AddElement
<1>3. {b} \cup {a} = {a, b} /\ {a, b} \cup {c} = {a, b, c}
  OBVIOUS
<1>4. IsFiniteSet({a, b} \cup {c})
  BY <1>2, <1>3, FS_AddElement
<1>. QED
  BY <1>1, <1>2, <1>3, <1>4

LEMMA MaxOfTwo ==
  ASSUME NEW a \in Int, NEW b \in Int
  PROVE  /\ Max({a, b}) \in Int /\ a <= Max({a, b}) /\ b <= Max({a, b})
         /\ Max({a, b}) = a \/ Max({a, b}) = b
BY FewAreFinite, MaxIs, {a, b} \in SUBSET Int

LEMMA MinOfTwo ==
  ASSUME NEW a \in Int, NEW b \in Int
  PROVE  /\ Min({a, b}) \in Int /\ Min({a, b}) <= a /\ Min({a, b}) <= b
         /\ Min({a, b}) = a \/ Min({a, b}) = b
BY FewAreFinite, MinIs, {a, b} \in SUBSET Int

-----------------------------------------------------------------------------
(* The lines of the file. *)

LEMMA TimeFacts ==
  /\ Len(File) \in Nat
  /\ \A n \in 0..Len(File) : TimeAfter(n) \in Nat /\ ZAfter(n) \in Int /\ EAfter(n) \in Int
  /\ \A a, b \in 0..Len(File) : a <= b => TimeAfter(a) <= TimeAfter(b)
  /\ \A a, b \in 0..Len(File) : TimeAfter(a) = TimeAfter(b) => ZAfter(a) = ZAfter(b)
<1>1. Len(File) \in Nat /\ DOMAIN File = 1..Len(File)
  BY FileAssumption, LenProperties
<1>2. \A n \in 1..Len(File) : File[n].by \in Nat /\ File[n].z \in Int /\ File[n].e \in Int
  <2>1. ASSUME NEW n \in 1..Len(File) 
        PROVE File[n] \in [by : Nat, z : Int, e : Int, rel : SUBSET {"z", "e"}, again : Nat]
    BY <1>1, FileAssumption, ElementOfSeq
  <2>. QED
    BY <2>1
<1>3. \A n \in 0..Len(File) : n = 0 \/ n \in 1..Len(File)
  BY <1>1
<1>4. \A n \in 0..Len(File) : TimeAfter(n) \in Nat /\ ZAfter(n) \in Int /\ EAfter(n) \in Int
  BY <1>2, <1>3 DEF TimeAfter, ZAfter, EAfter
<1>5. ASSUME NEW a \in 0..Len(File), NEW b \in 0..Len(File), a <= b
      PROVE  TimeAfter(a) <= TimeAfter(b)
  <2>1. CASE a = 0
    BY <1>4, <2>1 DEF TimeAfter
  <2>2. CASE a # 0
    <3>1. a \in 1..Len(File) /\ b \in 1..Len(File) /\ b # 0
      BY <1>1, <1>5, <2>2
    <3>. QED
      BY <1>1, <1>5, <2>2, <3>1, FileAssumption DEF TimeAfter
  <2>. QED
    BY <2>1, <2>2
<1>6. ASSUME NEW a \in 0..Len(File), NEW b \in 0..Len(File), TimeAfter(a) = TimeAfter(b)
      PROVE  ZAfter(a) = ZAfter(b)
  <2>1. CASE a # 0 /\ b # 0
    BY <1>1, <1>3, <1>6, <2>1, FileAssumption DEF TimeAfter, ZAfter
  <2>2. CASE a = 0 \/ b = 0
    BY <1>1, <1>3, <1>6, <2>2, FileAssumption DEF TimeAfter, ZAfter
  <2>. QED
    BY <2>1, <2>2
<1>. QED
  BY <1>1, <1>4, <1>5, <1>6

LEMMA DurationFacts ==
  ASSUME NEW i \in 1..Len(File)
  PROVE  /\ Duration(i) \in Nat /\ Duration(i) + LookAhead <= Lead + 1
         /\ TimeAfter(i) = TimeAfter(i - 1) + Duration(i)
<1>1. i \in 0..Len(File) /\ i - 1 \in 0..Len(File) /\ i - 1 <= i /\ i \in DOMAIN File
  BY TimeFacts, FileAssumption, LenProperties
<1>2. TimeAfter(i - 1) \in Nat /\ TimeAfter(i) \in Nat /\ TimeAfter(i - 1) <= TimeAfter(i)
  BY <1>1, TimeFacts
<1>. QED
  BY <1>1, <1>2, LeadAssumption DEF Duration

LEMMA Constants ==
  /\ Lead \in Nat /\ Horizon \in Nat /\ StepLead \in Nat /\ HoldUp \in Nat /\ Draws \in Nat
  /\ Tolerance \in Nat /\ LookAhead \in Nat /\ Batch \in Nat /\ Lag \in Nat
  /\ Batch < Horizon /\ Batch < Draws /\ NoTime \notin Int
BY TimingAssumption, DumpAssumption

-----------------------------------------------------------------------------
(* A second of print. *)

\* What lies `b - a` before s lies `c - a` before the end of a move from s.
LEMMA Lengthen ==
  ASSUME NEW r \in Int, NEW s \in Int, NEW a \in Int, NEW b \in Int, NEW c \in Int,
         NEW d \in Int, NEW e \in Int,
         r + (b - a) <= s, e = s + d, c = b + d
  PROVE  r + (c - a) <= e
OBVIOUS

LEMMA ReadStep ==
  ASSUME now \in Nat, LinesInv, NEW n \in Read..Len(File), ReadLines(n)
  PROVE  /\ start' \in Seq(Nat) /\ Len(start') = n
         /\ \A i \in 1..Read : start'[i] = start[i]
         /\ \A i \in Read + 1 .. n : now + 1 <= start'[i] /\ start'[i] < now + 1 + LookAhead
         /\ \A i, j \in 1..n : i <= j =>
              start'[i] + (TimeAfter(j - 1) - TimeAfter(i - 1)) <= start'[j]
<1> DEFINE first == Max({now + 1, Queued})
<1>0. start \in Seq(Nat) /\ Read <= Len(File) /\ n \in Read..Len(File)
  BY DEF LinesInv
<1>1. /\ Read \in Nat /\ n \in Nat /\ Read <= n /\ n <= Len(File) /\ Len(File) \in Nat
      /\ \A i \in 1..Read : start[i] \in Nat
  <2>1. Len(File) \in Nat
    BY TimeFacts
  <2>2. Read \in Nat /\ \A i \in 1..Read : start[i] \in Nat
    BY <1>0, LenProperties, ElementOfSeq DEF Read
  <2>. QED
    BY <1>0, <2>1, <2>2
<1>2. Queued \in Nat
  <2>1. CASE Read = 0
    BY <2>1 DEF Queued
  <2>2. CASE Read # 0
    <3>1. Read \in 1..Read /\ Read \in 1..Len(File)
      BY <1>1, <2>2
    <3>. QED
      BY <1>1, <2>2, <3>1, DurationFacts DEF Queued, End
  <2>. QED
    BY <2>1, <2>2
<1>3. first \in Nat /\ now + 1 <= first /\ Queued <= first
  <2>1. now + 1 \in Nat /\ now + 1 \in Int /\ Queued \in Int
    BY <1>2
  <2>2. first \in Int /\ now + 1 <= first /\ Queued <= first
    BY <2>1, MaxOfTwo
  <2> HIDE DEF first
  <2>. QED
    BY <2>1, <2>2
<1> HIDE DEF first
<1>4. start' = [i \in 1..n |-> IF i <= Read THEN start[i]
                               ELSE first + TimeAfter(i - 1) - TimeAfter(Read)]
  BY DEF ReadLines, LinesUpTo, first
<1>5. /\ \A i \in 1..Read : start'[i] = start[i]
      /\ \A i \in Read + 1 .. n : start'[i] = first + TimeAfter(i - 1) - TimeAfter(Read)
  BY <1>1, <1>4
<1>6. \A i \in 1..n : i \in 0..Len(File) /\ i - 1 \in 0..Len(File)
                      /\ (i \in 1..Read \/ i \in Read + 1 .. n)
  BY <1>1
<1>7. \A i \in 1..n : TimeAfter(i - 1) \in Nat
  BY <1>6, TimeFacts
<1>8. TimeAfter(Read) \in Nat
  BY <1>1, TimeFacts
<1>9. \A i \in Read + 1 .. n : TimeAfter(Read) <= TimeAfter(i - 1)
  BY <1>1, TimeFacts
<1>10. \A i \in Read + 1 .. n : first <= start'[i] /\ start'[i] \in Nat
  BY <1>1, <1>3, <1>5, <1>7, <1>8, <1>9
<1>11. \A i \in 1..n : start'[i] \in Nat
  BY <1>1, <1>5, <1>6, <1>10
<1>12. start' \in Seq(Nat) /\ Len(start') = n
  BY <1>1, <1>4, <1>11
<1>13. \A i \in Read + 1 .. n : now + 1 <= start'[i] /\ start'[i] < now + 1 + LookAhead
  BY <1>1, <1>3, <1>10 DEF ReadLines
<1>14. ASSUME NEW i \in 1..n, NEW j \in 1..n, i <= j
       PROVE  start'[i] + (TimeAfter(j - 1) - TimeAfter(i - 1)) <= start'[j]
  <2>1. CASE j \in 1..Read
    <3>1. i \in 1..Read
      BY <1>1, <1>14, <2>1
    <3>. QED
      BY <1>5, <1>14, <2>1, <3>1 DEF LinesInv
  <2>2. CASE i \in 1..Read /\ j \in Read + 1 .. n
    <3>1. Read \in 1..Read /\ Read \in 1..Len(File) /\ i <= Read /\ Read # 0
      BY <1>1, <2>2
    <3>2. start[i] + (TimeAfter(Read - 1) - TimeAfter(i - 1)) <= start[Read]
      BY <2>2, <3>1 DEF LinesInv
    <3>3. Queued = start[Read] + Duration(Read) /\ Duration(Read) \in Nat
          /\ TimeAfter(Read) = TimeAfter(Read - 1) + Duration(Read)
      BY <3>1, DurationFacts DEF Queued, End
    <3>4. TimeAfter(Read - 1) \in Nat /\ TimeAfter(i - 1) \in Nat /\ TimeAfter(j - 1) \in Nat
      BY <1>1, <1>7, <3>1
    <3>5. start'[i] = start[i] /\ start'[j] = first + TimeAfter(j - 1) - TimeAfter(Read)
      BY <1>5, <2>2
    <3>6. start[i] \in Nat /\ start[Read] \in Nat
      BY <1>1, <2>2, <3>1
    <3>7. start[i] + (TimeAfter(Read) - TimeAfter(i - 1)) <= Queued
      <4> DEFINE r == start[i]
                 s == start[Read]
                 a == TimeAfter(i - 1)
                 b == TimeAfter(Read - 1)
                 c == TimeAfter(Read)
                 d == Duration(Read)
      <4>1. r \in Int /\ s \in Int /\ a \in Int /\ b \in Int /\ c \in Int /\ d \in Int
            /\ Queued \in Int
        BY <1>2, <1>8, <3>3, <3>4, <3>6
      <4>2. r + (b - a) <= s /\ Queued = s + d /\ c = b + d
        BY <3>2, <3>3
      <4>3. r + (c - a) <= Queued
        <5> HIDE DEF r, s, a, b, c, d
        <5>. QED
          BY <4>1, <4>2, Lengthen
      <4>. QED
        BY <4>3
    <3>. QED
      BY <1>2, <1>3, <1>8, <3>4, <3>5, <3>6, <3>7
  <2>3. CASE i \in Read + 1 .. n /\ j \in Read + 1 .. n
    BY <1>3, <1>5, <1>7, <1>8, <2>3
  <2>. QED
    BY <1>1, <1>6, <1>14, <2>1, <2>2, <2>3
<1>. QED
  BY <1>5, <1>12, <1>13, <1>14

LEMMA DumpStep ==
  ASSUME now \in Nat, LinesInv, RowsInv, NEW n \in Read..Len(File), ReadLines(n),
         NEW k \in {Len(rowAt)} \cup {Len(start') - 1, Len(start')},
         k >= Len(rowAt), Dump(k), now' = now + 1
  PROVE  RowsInv' /\ Len(rowAt') = k
<1>1. /\ Len(start') = n
      /\ \A i \in 1..Read : start'[i] = start[i]
      /\ \A i \in Read + 1 .. n : now + 1 <= start'[i] /\ start'[i] < now + 1 + LookAhead
      /\ start' \in Seq(Nat)
  BY ReadStep
<1>2. Read \in Nat /\ Len(rowAt) \in Nat /\ Len(File) \in Nat /\ n \in Nat /\ Read <= n
      /\ Len(rowAt) <= Read
  BY TimeFacts, LenProperties DEF LinesInv, RowsInv, Read
<1>3. k \in Nat /\ k <= n /\ Len(rowAt) <= k
  BY <1>1, <1>2
<1>4. /\ \A i \in 1..Len(rowAt) : rowAt[i] \in Nat
      /\ \A i \in 1..Read : start[i] \in Nat
      /\ \A i \in 1..n : start'[i] \in Nat
  BY <1>1, ElementOfSeq, LenProperties DEF LinesInv, RowsInv, Read
<1>5. rowAt' = [i \in 1..k |-> IF i <= Len(rowAt) THEN rowAt[i] ELSE now + 1]
      /\ \A i \in k + 1 .. n : now + 1 < start'[i] + Batch
  BY <1>1 DEF Dump
<1>6. /\ \A i \in 1..Len(rowAt) : rowAt'[i] = rowAt[i]
      /\ \A i \in Len(rowAt) + 1 .. k : rowAt'[i] = now + 1
      /\ \A i \in 1..k : \/ rowAt'[i] = rowAt[i] /\ i \in 1..Len(rowAt)
                         \/ rowAt'[i] = now + 1 /\ i \in Len(rowAt) + 1 .. k
  <2>1. \A i \in 1..Len(rowAt) : i \in 1..k /\ i <= Len(rowAt)
    BY <1>2, <1>3
  <2>2. \A i \in Len(rowAt) + 1 .. k : i \in 1..k /\ ~(i <= Len(rowAt))
    BY <1>2, <1>3
  <2>3. \A i \in 1..k : i \in 1..Len(rowAt) \/ i \in Len(rowAt) + 1 .. k
    BY <1>2, <1>3
  <2>4. \A i \in 1..Len(rowAt) : rowAt'[i] = rowAt[i]
    BY <1>5, <2>1
  <2>5. \A i \in Len(rowAt) + 1 .. k : rowAt'[i] = now + 1
    BY <1>5, <2>2
  <2>6. ASSUME NEW i \in 1..k
        PROVE  \/ rowAt'[i] = rowAt[i] /\ i \in 1..Len(rowAt)
               \/ rowAt'[i] = now + 1 /\ i \in Len(rowAt) + 1 .. k
    <3>1. CASE i \in 1..Len(rowAt)
      BY <2>4, <3>1
    <3>2. CASE i \in Len(rowAt) + 1 .. k
      BY <2>5, <3>2
    <3>. QED
      BY <2>3, <3>1, <3>2
  <2>. QED
    BY <2>4, <2>5, <2>6
<1>7. rowAt' \in Seq(Nat) /\ Len(rowAt') = k
  <2>1. \A i \in 1..k : rowAt'[i] \in Nat
    BY <1>4, <1>6
  <2>. QED
    BY <1>3, <1>5, <2>1
<1>8. ASSUME NEW i \in 1..k, NEW j \in 1..k, i <= j PROVE rowAt'[i] <= rowAt'[j]
  <2>1. CASE j \in 1..Len(rowAt)
    <3>1. i \in 1..Len(rowAt)
      BY <1>2, <1>8, <2>1
    <3>. QED
      BY <1>6, <1>8, <2>1, <3>1 DEF RowsInv
  <2>2. CASE j \in Len(rowAt) + 1 .. k /\ i \in 1..Len(rowAt)
    <3>1. rowAt[i] <= now /\ rowAt[i] \in Nat
      BY <1>4, <2>2 DEF RowsInv
    <3>2. rowAt'[i] = rowAt[i] /\ rowAt'[j] = now + 1
      BY <1>6, <2>2
    <3>. QED
      BY <3>1, <3>2
  <2>3. CASE j \in Len(rowAt) + 1 .. k /\ i \in Len(rowAt) + 1 .. k
    BY <1>6, <2>3
  <2>. QED
    BY <1>6, <2>1, <2>2, <2>3
<1>9. ASSUME NEW i \in 1..k
      PROVE  /\ rowAt'[i] <= now + 1
             /\ start'[i] < rowAt'[i] + LookAhead
             /\ rowAt'[i] <= start'[i] + Batch
  <2>1. i \in 1..n /\ (i \in 1..Read \/ i \in Read + 1 .. n)
    BY <1>2, <1>3
  <2>2. CASE i \in 1..Len(rowAt)
    <3>1. i \in 1..Read /\ start'[i] = start[i] /\ rowAt'[i] = rowAt[i]
      BY <1>1, <1>2, <1>6, <2>2
    <3>2. rowAt[i] <= now /\ start[i] < rowAt[i] + LookAhead /\ rowAt[i] <= start[i] + Batch
          /\ rowAt[i] \in Nat
      BY <1>4, <2>2 DEF RowsInv
    <3>. QED
      BY <3>1, <3>2
  <2>3. CASE i \in Len(rowAt) + 1 .. k /\ i \in 1..Read
    <3>1. start'[i] = start[i] /\ rowAt'[i] = now + 1 /\ start[i] \in Nat
      BY <1>1, <1>4, <1>6, <2>3
    <3>2. i \in Len(rowAt) + 1 .. Read
      BY <1>2, <1>3, <2>3
    <3>3. now < start[i] + Batch /\ start[i] < now + LookAhead
      BY <2>3, <3>2 DEF RowsInv, LinesInv
    <3>. QED
      BY <3>1, <3>3, Constants
  <2>4. CASE i \in Len(rowAt) + 1 .. k /\ i \in Read + 1 .. n
    <3>1. rowAt'[i] = now + 1 /\ now + 1 <= start'[i] /\ start'[i] < now + 1 + LookAhead
          /\ start'[i] \in Nat
      BY <1>1, <1>4, <1>6, <2>1, <2>4
    <3>. QED
      BY <3>1, Constants
  <2>. QED
    BY <1>6, <2>1, <2>2, <2>3, <2>4
<1>. QED
  BY <1>1, <1>3, <1>5, <1>7, <1>8, <1>9 DEF RowsInv, Read

\* The newest of finitely many samples, or heartbeats, is one of them.
LEMMA NewestIs ==
  ASSUME NEW S, S # {}, NEW m \in Nat, \A s \in S : s.at \in 0..m
  PROVE  \E s \in S : \A r \in S : r.at <= s.at
<1> DEFINE T == {s.at : s \in S}
<1>1. T \in SUBSET (0..m) /\ T # {}
  OBVIOUS
<1>2. IsFiniteSet(T)
  <2> HIDE DEF T
  <2>1. IsFiniteSet(0..m)
    BY FS_Interval
  <2>. QED
    BY <1>1, <2>1, FS_Subset
<1>3. T \in SUBSET Int
  BY <1>1
<1>4. PICK t \in T : \A u \in T : u <= t
  BY <1>1, <1>2, <1>3, FiniteMax DEF HasMax
<1>. QED
  BY <1>4

LEMMA NewestIsASample ==
  ASSUME now \in Nat, SamplesInv
  PROVE  Newest \in samples
<1>1. samples # {} /\ \A s \in samples : s.at \in 0..now
  BY DEF SamplesInv
<1>2. \E s \in samples : \A r \in samples : r.at <= s.at
  BY <1>1, NewestIs
<1>. QED
  BY <1>2 DEF Newest

LEMMA SampleStep ==
  ASSUME now \in Nat, LinesInv, SamplesInv, NEW n \in Read..Len(File), ReadLines(n),
         now' = now + 1, NoSample \/ \E skew \in {0, 1} : Sample(skew)
  PROVE  SamplesInv'
<1>1. /\ Len(start') = n /\ Read' = n
      /\ \A i \in 1..Read : start'[i] = start[i]
      /\ \A i \in Read + 1 .. n : now + 1 <= start'[i] /\ start'[i] < now + 1 + LookAhead
      /\ start' \in Seq(Nat)
      /\ \A i \in 1..n : start'[i] \in Nat
  BY ReadStep, ElementOfSeq, LenProperties DEF Read
<1>2. /\ Read \in Nat /\ n \in Nat /\ Read <= n
      /\ \A i \in 1..Read : start[i] \in Nat /\ start[i] < now + LookAhead
  BY TimeFacts, LenProperties, ElementOfSeq DEF LinesInv, Read
<1>3. ASSUME NEW s \in samples
      PROVE  /\ s \in [at : 0..now', pos : Nat, done : 0..n] /\ s.pos <= s.done /\ s.done <= s.pos + 1
             /\ Parts(s)'
  <2>1. /\ s \in [at : 0..now, pos : Nat, done : 0..Read] /\ s.pos <= s.done /\ s.done <= s.pos + 1
        /\ Parts(s)
    BY DEF SamplesInv
  <2>2. s \in [at : 0..now', pos : Nat, done : 0..n]
    <3>1. 0..now \subseteq 0..now' /\ 0..Read \subseteq 0..n
      BY <1>2
    <3>. QED
      BY <2>1, <3>1
  <2>3. ASSUME NEW i \in 1..s.done PROVE start'[i] < s.at + LookAhead
    <3>1. i \in 1..Read
      BY <1>2, <2>1
    <3>. QED
      BY <1>1, <2>1, <3>1 DEF Parts
  <2>4. ASSUME NEW i \in s.done + 1 .. n PROVE s.at < start'[i]
    <3>1. s.at \in Nat /\ s.at <= now /\ s.done \in Nat /\ s.done <= Read
      BY <1>2, <2>1
    <3>2. i \in 1..n /\ ((i \in s.done + 1 .. Read /\ i \in 1..Read) \/ i \in Read + 1 .. n)
      BY <1>2, <3>1
    <3>3. CASE i \in s.done + 1 .. Read /\ i \in 1..Read
      BY <1>1, <2>1, <3>3 DEF Parts
    <3>4. CASE i \in Read + 1 .. n
      BY <1>1, <3>1, <3>2, <3>4
    <3>. QED
      BY <3>2, <3>3, <3>4
  <2>. QED
    BY <1>1, <2>1, <2>2, <2>3, <2>4 DEF Parts
<1>4. PICK zero \in samples : zero.at = 0
  BY DEF SamplesInv
<1>5. CASE NoSample
  BY <1>1, <1>3, <1>4, <1>5 DEF NoSample, SamplesInv
<1>6. CASE \E skew \in {0, 1} : Sample(skew)
  <2>1. PICK skew \in {0, 1} : Sample(skew)
    BY <1>6
  <2> DEFINE t == [at |-> now + 1, pos |-> n - skew, done |-> n]
  <2>2. samples' = samples \cup {t} /\ Newest.done < n
    BY <1>1, <2>1 DEF Sample
  <2>3. Newest.done \in Nat
    BY <1>2, NewestIsASample DEF SamplesInv
  <2>4. t.at = now + 1 /\ t.done = n /\ t.pos = n - skew /\ n >= 1
    BY <1>2, <2>2, <2>3
  <2>5. t \in [at : 0..now', pos : Nat, done : 0..n] /\ t.pos <= t.done /\ t.done <= t.pos + 1
    <3>1. now + 1 \in 0..now' /\ n - skew \in Nat /\ n \in 0..n /\ n - skew <= n /\ n <= n - skew + 1
      BY <1>2, <2>4
    <3>. QED
      BY <3>1
  <2>6. ASSUME NEW i \in 1..n PROVE start'[i] < (now + 1) + LookAhead
    <3>1. CASE i \in 1..Read
      <4>1. start'[i] = start[i] /\ start[i] < now + LookAhead /\ start[i] \in Nat
        BY <1>1, <1>2, <3>1
      <4>. QED
        BY <4>1, Constants
    <3>2. CASE i \in Read + 1 .. n
      BY <1>1, <3>2
    <3>. QED
      BY <1>2, <3>1, <3>2
  <2>7. ASSUME NEW s \in {t} PROVE Parts(s)'
    <3>1. \A i \in n + 1 .. n : FALSE
      BY <1>2
    <3>2. s.at = now + 1 /\ s.done = n
      BY <2>4
    <3>3. \A i \in 1..s.done : start'[i] < s.at + LookAhead
      BY <2>6, <3>2
    <3>. QED
      BY <1>1, <3>1, <3>2, <3>3 DEF Parts
  <2> HIDE DEF t
  <2>. QED
    BY <1>1, <1>3, <1>4, <2>2, <2>5, <2>7 DEF SamplesInv
<1>. QED
  BY <1>5, <1>6

LEMMA LossStep ==
  ASSUME now \in Nat, RowsInv, LossesInv, NEW k \in Nat, k >= Len(rowAt), Len(rowAt') = k,
         now' = now + 1, UNCHANGED <<blindFrom, losses>>,
         rowAt' = [i \in 1..k |-> IF i <= Len(rowAt) THEN rowAt[i] ELSE now + 1],
         missed' = IF Blind THEN missed \cup (Len(rowAt) + 1 .. k) ELSE missed
  PROVE  LossesInv'
<1>1. Blind' = Blind /\ Len(rowAt) \in Nat
  BY LenProperties DEF Blind, RowsInv
<1>2. 1..Len(rowAt) \subseteq 1..k /\ Len(rowAt) + 1 .. k \subseteq 1..k
  BY <1>1
<1>3. missed' \subseteq 1..Len(rowAt')
  BY <1>2 DEF LossesInv
<1>4. \A l \in losses : l \in [from : Nat, to : 0..now']
  <2>1. 0..now \subseteq 0..now'
    OBVIOUS
  <2>. QED
    BY <2>1 DEF LossesInv
<1>5. ASSUME ~Blind, NEW i \in missed PROVE \E l \in losses : rowAt'[i] <= l.to
  <2>1. i \in 1..Len(rowAt) /\ i \in 1..k /\ i <= Len(rowAt)
    BY <1>1, <1>2 DEF LossesInv
  <2>2. rowAt'[i] = rowAt[i]
    BY <2>1
  <2>. QED
    BY <1>5, <2>2 DEF LossesInv
<1>. QED
  BY <1>1, <1>3, <1>4, <1>5 DEF LossesInv

LEMMA InvInit == Init => IInv
<1> SUFFICES ASSUME Init PROVE IInv
  OBVIOUS
<1>1. Read = 0 /\ Len(rowAt) = 0 /\ start \in Seq(Nat) /\ rowAt \in Seq(Nat)
  BY DEF Init, Read
<1>2. LinesInv /\ RowsInv
  BY <1>1, TimeFacts, EmptySeq DEF LinesInv, RowsInv
<1>3. SamplesInv
  BY <1>1 DEF Init, SamplesInv, Parts
<1>4. LossesInv /\ EdgeInv
  BY <1>1 DEF Init, LossesInv, EdgeInv, Blind
<1>. QED
  BY <1>2, <1>3, <1>4 DEF Init, IInv

LEMMA InvStep == IInv /\ [Next]_vars => IInv'
<1> SUFFICES ASSUME IInv, [Next]_vars
             PROVE  IInv'
  OBVIOUS
<1> USE DEF IInv
<1>1. CASE Second
  <2>1. PICK n \in Read..Len(File) : ReadLines(n)
    BY <1>1 DEF Second
  <2>2. PICK k \in {Len(rowAt)} \cup {Len(start') - 1, Len(start')} : k >= Len(rowAt) /\ Dump(k)
    BY <1>1 DEF Second
  <2>3. now' = now + 1 /\ UNCHANGED <<blindFrom, losses, edge>>
        /\ (NoSample \/ \E skew \in {0, 1} : Sample(skew))
    BY <1>1 DEF Second
  <2>4. now' \in Nat
    BY <2>3
  <2>5. /\ start' \in Seq(Nat) /\ Len(start') = n
        /\ \A i \in Read + 1 .. n : start'[i] < now' + LookAhead
        /\ \A i \in 1..Read : start'[i] = start[i]
        /\ \A i, j \in 1..n : i <= j =>
             start'[i] + (TimeAfter(j - 1) - TimeAfter(i - 1)) <= start'[j]
    BY <2>1, <2>3, ReadStep
  <2>6. Read \in Nat /\ n \in Nat /\ n <= Len(File) /\ \A i \in 1..Read : start[i] \in Nat
    <3>1. start \in Seq(Nat)
      BY DEF LinesInv
    <3>2. Read \in Nat /\ \A i \in 1..Read : start[i] \in Nat
      BY <3>1, LenProperties, ElementOfSeq DEF Read
    <3>. QED
      BY <3>2, TimeFacts
  <2>7. ASSUME NEW i \in 1..n PROVE start'[i] < now' + LookAhead
    <3>1. CASE i \in 1..Read
      <4>1. start'[i] = start[i] /\ start[i] < now + LookAhead /\ start[i] \in Nat
        BY <2>5, <2>6, <3>1 DEF LinesInv
      <4>. QED
        BY <2>3, <4>1, Constants
    <3>2. CASE i \in Read + 1 .. n
      BY <2>5, <3>2
    <3>. QED
      BY <2>6, <3>1, <3>2
  <2>8. LinesInv'
    BY <2>5, <2>6, <2>7 DEF LinesInv, Read
  <2>9. RowsInv' /\ Len(rowAt') = k
    BY <2>1, <2>2, <2>3, DumpStep
  <2>10. SamplesInv'
    BY <2>1, <2>3, SampleStep
  <2>11. LossesInv'
    <3>1. k \in Nat
      BY <2>9, LenProperties DEF RowsInv
    <3>. QED
      BY <2>2, <2>3, <2>9, <3>1, LossStep DEF Dump
  <2>12. EdgeInv'
    <3>1. edge # NoTime => edge \in Nat /\ now < edge + HoldUp
      BY <1>1 DEF Second, EdgeInv
    <3>. QED
      BY <2>3, <3>1, Constants DEF EdgeInv
  <2>. QED
    BY <2>4, <2>8, <2>9, <2>10, <2>11, <2>12
<1>2. CASE StartLosing
  <2>1. UNCHANGED <<now, start, rowAt, samples, losses, missed, edge>> /\ blindFrom' = now
    BY <1>2 DEF StartLosing
  <2>2. Blind'
    BY <2>1, Constants DEF Blind
  <2>3. LinesInv' /\ RowsInv' /\ EdgeInv'
    BY <2>1 DEF LinesInv, RowsInv, EdgeInv, Read
  <2>4. SamplesInv'
    BY <2>1 DEF SamplesInv, Parts, Read
  <2>5. LossesInv'
    BY <2>1, <2>2 DEF LossesInv
  <2>. QED
    BY <2>1, <2>3, <2>4, <2>5
<1>3. CASE StopLosing
  <2>1. UNCHANGED <<now, start, rowAt, samples, missed, edge>>
        /\ Blind /\ blindFrom' = NoTime /\ losses' = losses \cup {[from |-> blindFrom, to |-> now]}
    BY <1>3 DEF StopLosing
  <2>2. LinesInv' /\ RowsInv' /\ EdgeInv'
    BY <2>1 DEF LinesInv, RowsInv, EdgeInv, Read
  <2>3. SamplesInv'
    BY <2>1 DEF SamplesInv, Parts, Read
  <2> DEFINE l == [from |-> blindFrom, to |-> now]
  <2>4. l \in [from : Nat, to : 0..now] /\ l.to = now /\ l \in losses'
    BY <2>1 DEF LossesInv
  <2> HIDE DEF l
  <2>5. \A m \in losses' : m \in [from : Nat, to : 0..now]
    BY <2>1, <2>4 DEF LossesInv, l
  <2>6. \A i \in missed : rowAt[i] <= l.to
    BY <2>4 DEF LossesInv, RowsInv
  <2>7. ~Blind'
    BY <2>1 DEF Blind
  <2>. QED
    BY <2>1, <2>2, <2>3, <2>4, <2>5, <2>6, <2>7 DEF LossesInv
<1>4. CASE Fail
  <2>1. UNCHANGED <<now, start, rowAt, samples, blindFrom, losses, missed>> /\ edge' = now
    BY <1>4 DEF Fail
  <2>2. LinesInv' /\ RowsInv' /\ LossesInv'
    BY <2>1 DEF LinesInv, RowsInv, LossesInv, Read, Blind
  <2>3. SamplesInv'
    BY <2>1 DEF SamplesInv, Parts, Read
  <2>4. EdgeInv'
    BY <2>1, Constants DEF EdgeInv
  <2>. QED
    BY <2>1, <2>2, <2>3, <2>4
<1>5. CASE UNCHANGED vars
  <2>1. UNCHANGED <<now, start, rowAt, samples, blindFrom, losses, missed, edge>>
    BY <1>5 DEF vars
  <2>2. LinesInv' /\ RowsInv' /\ LossesInv' /\ EdgeInv'
    BY <2>1 DEF LinesInv, RowsInv, LossesInv, EdgeInv, Read, Blind
  <2>3. SamplesInv'
    BY <2>1 DEF SamplesInv, Parts, Read
  <2>. QED
    BY <2>1, <2>2, <2>3
<1>. QED
  BY <1>1, <1>2, <1>3, <1>4, <1>5 DEF Next

LEMMA Invariance == Spec => []IInv
BY InvInit, InvStep, PTL DEF Spec

-----------------------------------------------------------------------------
(* The machine. *)

LEMMA ReadFacts ==
  ASSUME IInv
  PROVE  /\ now \in Nat /\ Read \in Nat /\ Read <= Len(File) /\ Len(rowAt) \in Nat
         /\ Len(rowAt) <= Read /\ Len(File) \in Nat
         /\ \A i \in 1..Read : /\ start[i] \in Nat /\ i \in 1..Len(File)
                               /\ Duration(i) \in Nat /\ End(i) \in Nat
                               /\ End(i) = start[i] + Duration(i)
                               /\ TimeAfter(i) = TimeAfter(i - 1) + Duration(i)
         /\ \A i \in 1..Len(rowAt) : rowAt[i] \in Nat /\ i \in 1..Read
         /\ \A i \in 0..Read : TimeAfter(i) \in Nat /\ ZAfter(i) \in Int /\ EAfter(i) \in Int
<1>1. start \in Seq(Nat) /\ rowAt \in Seq(Nat) /\ Read <= Len(File) /\ Len(rowAt) <= Read
  BY DEF IInv, LinesInv, RowsInv
<1>2. /\ Read \in Nat /\ Len(rowAt) \in Nat
      /\ \A i \in 1..Read : start[i] \in Nat
      /\ \A i \in 1..Len(rowAt) : rowAt[i] \in Nat
  BY <1>1, LenProperties, ElementOfSeq DEF Read
<1>3. \A i \in 1..Read : i \in 1..Len(File)
  BY <1>1, <1>2, TimeFacts
<1>4. ASSUME NEW i \in 1..Read
      PROVE  /\ Duration(i) \in Nat /\ End(i) = start[i] + Duration(i) /\ End(i) \in Nat
             /\ TimeAfter(i) = TimeAfter(i - 1) + Duration(i)
  <2>1. Duration(i) \in Nat /\ TimeAfter(i) = TimeAfter(i - 1) + Duration(i)
    BY <1>3, DurationFacts
  <2>. QED
    BY <1>2, <2>1 DEF End
<1>5. \A i \in 0..Read : i \in 0..Len(File)
  BY <1>1, <1>2, TimeFacts
<1>6. \A i \in 1..Len(rowAt) : i \in 1..Read
  BY <1>1, <1>2
<1>. QED
  BY <1>1, <1>2, <1>3, <1>4, <1>5, <1>6, TimeFacts DEF IInv

\* A line ends before the next begins, and two lines begin at least the least
\* time of what lies between apart.
LEMMA Order ==
  ASSUME IInv, NEW i \in 1..Read, NEW j \in 1..Read
  PROVE  /\ i <= j => start[i] + (TimeAfter(j - 1) - TimeAfter(i - 1)) <= start[j]
         /\ i < j => End(i) <= start[j]
         /\ i <= j => End(i) <= End(j) /\ start[i] <= start[j]
<1>1. /\ Read \in Nat
      /\ start[i] \in Nat /\ start[j] \in Nat /\ Duration(i) \in Nat /\ Duration(j) \in Nat
      /\ End(i) = start[i] + Duration(i) /\ End(j) = start[j] + Duration(j)
      /\ TimeAfter(i) = TimeAfter(i - 1) + Duration(i)
      /\ i - 1 \in 0..Read /\ j - 1 \in 0..Read /\ i \in 0..Read /\ j \in 0..Read
  <2>1. Read \in Nat /\ i - 1 \in 0..Read /\ j - 1 \in 0..Read /\ i \in 0..Read /\ j \in 0..Read
    <3>1. Read \in Nat
      BY ReadFacts
    <3>. QED
      BY <3>1
  <2>2. \A n \in 1..Read : /\ start[n] \in Nat /\ Duration(n) \in Nat /\ End(n) = start[n] + Duration(n)
                           /\ TimeAfter(n) = TimeAfter(n - 1) + Duration(n)
    BY ReadFacts
  <2>. QED
    BY <2>1, <2>2
<1>2. /\ TimeAfter(i - 1) \in Nat /\ TimeAfter(j - 1) \in Nat /\ TimeAfter(i) \in Nat
      /\ \A a, b \in 0..Read : a <= b => TimeAfter(a) <= TimeAfter(b)
  <2>1. \A a \in 0..Read : a \in 0..Len(File)
    BY ReadFacts
  <2>. QED
    BY <1>1, <2>1, ReadFacts, TimeFacts
<1>3. i <= j => start[i] + (TimeAfter(j - 1) - TimeAfter(i - 1)) <= start[j]
  BY DEF IInv, LinesInv
<1>4. i <= j => TimeAfter(i - 1) <= TimeAfter(j - 1)
  BY <1>1, <1>2
<1>5. i < j => TimeAfter(i) <= TimeAfter(j - 1)
  BY <1>1, <1>2
<1>6. i < j => End(i) <= start[j]
  BY <1>1, <1>2, <1>3, <1>5
<1>7. i <= j => start[i] <= start[j]
  BY <1>1, <1>2, <1>3, <1>4
<1>8. i <= j => End(i) <= End(j)
  BY <1>1, <1>6
<1>. QED
  BY <1>3, <1>6, <1>7, <1>8

\* The lines executed are those that have ended.
LEMMA ExecutedIs ==
  ASSUME IInv
  PROVE  /\ Executed \in 0..Read
         /\ \A i \in 1..Read : i <= Executed <=> End(i) <= now
         /\ Executed # 0 => start[Executed] <= now
<1> DEFINE S == {i \in 1..Read : End(i) <= now} \cup {0}
<1>1. Read \in Nat /\ S \in SUBSET (0..Read) /\ S \in SUBSET Int /\ S # {}
  BY ReadFacts
<1>2. IsFiniteSet(S)
  <2> HIDE DEF S
  <2>1. IsFiniteSet(0..Read)
    BY <1>1, FS_Interval
  <2>. QED
    BY <1>1, <2>1, FS_Subset
<1>3. Executed \in S /\ \A i \in S : i <= Executed
  <2>1. Executed = Max(S)
    BY DEF Executed
  <2> HIDE DEF S
  <2>. QED
    BY <1>1, <1>2, <2>1, MaxIs
<1>4. Executed \in 0..Read /\ (Executed # 0 => Executed \in 1..Read /\ End(Executed) <= now)
  BY <1>1, <1>3
<1>5. ASSUME NEW i \in 1..Read, End(i) <= now PROVE i <= Executed
  BY <1>3, <1>5
<1>6. ASSUME NEW i \in 1..Read, i <= Executed PROVE End(i) <= now
  <2>1. Executed \in 1..Read /\ End(Executed) <= now
    BY <1>1, <1>4, <1>6
  <2>2. End(i) <= End(Executed)
    BY <1>6, <2>1, Order
  <2>3. End(i) \in Nat /\ End(Executed) \in Nat /\ now \in Nat
    BY <2>1, ReadFacts
  <2>. QED
    BY <2>1, <2>2, <2>3
<1>7. ASSUME Executed # 0 PROVE start[Executed] <= now
  <2>1. Executed \in 1..Read /\ End(Executed) <= now
    BY <1>4, <1>7
  <2>2. /\ End(Executed) = start[Executed] + Duration(Executed) /\ now \in Nat
        /\ start[Executed] \in Nat /\ Duration(Executed) \in Nat
    BY <2>1, ReadFacts
  <2>. QED
    BY <2>1, <2>2
<1>. QED
  BY <1>4, <1>5, <1>6, <1>7

-----------------------------------------------------------------------------
(* The log. *)

\* What a log is a cut of.
Cut(log, cut, beat, hasSeq) ==
  /\ log = Left(cut, beat, hasSeq)
  /\ cut \in 0..now /\ beat \in 0..now /\ now - 1 <= beat
  /\ \A l \in losses : l.to <= cut

LEMMA LogIsCut ==
  ASSUME IInv, NEW log \in Logs
  PROVE  \E cut, beat, hasSeq : Cut(log, cut, beat, hasSeq)
<1> DEFINE S == {0, now - Lag} \cup {l.to : l \in losses}
           B == Max({0, now - 1})
<1>1. PICK cut, beat, hasSeq :
        cut \in Max(S)..now /\ beat \in B..now /\ log = Left(cut, beat, hasSeq)
  <2> DEFINE Beats == {t \in B..now : Beating(t)}
             Flags == {FALSE, edge # NoTime}
  <2>1. Logs = {Left(cut, beat, hasSeq) : cut \in Max(S)..now, beat \in Beats, hasSeq \in Flags}
    BY DEF Logs
  <2>2. Beats \subseteq B..now
    OBVIOUS
  <2> HIDE DEF Beats, Flags, S, B
  <2>. QED
    BY <2>1, <2>2
<1>2. now \in Nat /\ Lag \in Nat /\ now - Lag \in Int /\ now - Lag <= now /\ -Lag \in Int
      /\ now - 1 \in Int
  BY Constants DEF IInv
<1>3. \A l \in losses : l.to \in 0..now
  BY DEF IInv, LossesInv
<1>4. S \in SUBSET ((-Lag)..now) /\ S # {}
  <2>1. 0 \in (-Lag)..now /\ now - Lag \in (-Lag)..now
    BY <1>2
  <2>2. 0..now \subseteq (-Lag)..now
    BY <1>2
  <2>. QED
    BY <1>3, <2>1, <2>2
<1>5. Max(S) \in Int /\ \A x \in S : x <= Max(S)
  <2> HIDE DEF S
  <2>1. IsFiniteSet((-Lag)..now)
    BY <1>2, FS_Interval
  <2>2. IsFiniteSet(S)
    BY <1>4, <2>1, FS_Subset
  <2>3. S \in SUBSET Int
    BY <1>4
  <2>. QED
    BY <1>4, <2>2, <2>3, MaxIs
<1>6. 0 <= Max(S) /\ \A l \in losses : l.to <= Max(S)
  BY <1>5
<1>7. B \in Int /\ 0 <= B /\ now - 1 <= B
  <2>1. 0 \in Int /\ now - 1 \in Int
    BY <1>2
  <2>. QED
    BY <2>1, MaxOfTwo
<1> HIDE DEF S, B
<1>8. cut \in 0..now /\ beat \in 0..now /\ now - 1 <= beat
  BY <1>1, <1>2, <1>5, <1>6, <1>7
<1>9. \A l \in losses : l.to <= cut
  BY <1>1, <1>3, <1>5, <1>6
<1>. QED
  BY <1>1, <1>8, <1>9 DEF Cut

\* The lines whose planned moves arrived are finitely many.
LEMMA SeenIs ==
  ASSUME IInv, NEW t
  PROVE  Seen(t) \subseteq 1..Read /\ Seen(t) \subseteq 1..Len(rowAt) /\ IsFiniteSet(Seen(t))
<1>1. Seen(t) \subseteq 1..Len(rowAt)
  BY LenProperties DEF Seen, IInv, RowsInv
<1>2. Seen(t) \subseteq 1..Read
  BY <1>1, ReadFacts
<1>3. IsFiniteSet(1..Read)
  BY ReadFacts, FS_Interval
<1>. QED
  BY <1>1, <1>2, <1>3, FS_Subset

\* Motion received reaches the end of every line that arrived.
LEMMA ReceivedIs ==
  ASSUME IInv, NEW t
  PROVE  Received(t) \in Nat /\ \A i \in Seen(t) : End(i) <= Received(t)
<1> DEFINE f == [i \in Seen(t) |-> End(i)]
           S == {End(i) : i \in Seen(t)}
           U == S \cup {0}
<1>1. IsFiniteSet(S)
  <2>1. IsFiniteSet({f[x] : x \in Seen(t)})
    BY SeenIs, ImageIsFinite, DOMAIN f = Seen(t)
  <2>2. S = {f[x] : x \in Seen(t)}
    OBVIOUS
  <2>. QED
    BY <2>1, <2>2
<1>2. IsFiniteSet(U)
  <2> HIDE DEF S
  <2>. QED
    BY <1>1, FS_AddElement
<1>3. \A i \in Seen(t) : End(i) \in Nat
  BY SeenIs, ReadFacts
<1>4. U \in SUBSET Nat /\ U # {}
  BY <1>3
<1>5. Max(U) \in U /\ \A x \in U : x <= Max(U)
  <2> HIDE DEF U
  <2>1. U \in SUBSET Int
    BY <1>4
  <2>. QED
    BY <1>2, <1>4, <2>1, MaxIs
<1>6. Received(t) = Max(U)
  BY DEF Received
<1>. QED
  BY <1>4, <1>5, <1>6

LEMMA BeatFacts ==
  ASSUME IInv, NEW log, NEW cut, NEW beat, NEW hasSeq, Cut(log, cut, beat, hasSeq),
         NEW b, b = NewestBeat(log)
  PROVE  /\ \A c \in log.beats : c.at \in 0..now /\ c.at <= b.at
         /\ b \in log.beats /\ b.at \in 0..now /\ now - 1 <= b.at
         /\ b.pt = Received(b.at) /\ b.pt \in Nat
<1> DEFINE T == {s \in 0..cut : Beating(s)} \cup {beat}
<1>1. cut \in 0..now /\ beat \in 0..now /\ now - 1 <= beat /\ now \in Nat
  BY DEF Cut, IInv
<1>2. log.beats = {[at |-> t, pt |-> Received(t)] : t \in T}
  BY DEF Cut, Left
<1>3. T \subseteq 0..now /\ beat \in T
  BY <1>1
<1> HIDE DEF T
<1>4. \A c \in log.beats : c.at \in 0..now /\ c.pt = Received(c.at)
  BY <1>2, <1>3
<1> DEFINE last == [at |-> beat, pt |-> Received(beat)]
<1>5. last \in log.beats /\ last.at = beat
  BY <1>2, <1>3
<1>6. \E s \in log.beats : \A r \in log.beats : r.at <= s.at
  BY <1>1, <1>4, <1>5, NewestIs
<1>7. b \in log.beats /\ \A c \in log.beats : c.at <= b.at
  BY <1>6 DEF NewestBeat
<1>8. now - 1 <= b.at
  <2>1. beat <= b.at /\ b.at \in 0..now
    BY <1>4, <1>5, <1>7
  <2>. QED
    BY <1>1, <2>1
<1>. QED
  BY <1>4, <1>7, <1>8, ReceivedIs

LEMMA TAIs ==
  ASSUME IInv, NEW log, NEW cut, NEW beat, NEW hasSeq, Cut(log, cut, beat, hasSeq),
         NEW b, b = NewestBeat(log)
  PROVE  /\ TA(log) \in 0..now /\ TA(log) <= b.at
         /\ TA(log) = b.at \/ TA(log) = b.pt
<1>1. b.at \in 0..now /\ b.pt \in Nat /\ now \in Nat
  BY BeatFacts DEF IInv
<1>2. TA(log) = Min({b.pt, b.at})
  BY DEF TA
<1>3. /\ Min({b.pt, b.at}) <= b.at
      /\ Min({b.pt, b.at}) = b.pt \/ Min({b.pt, b.at}) = b.at
  <2>1. b.pt \in Int /\ b.at \in Int
    BY <1>1
  <2>. QED
    BY <2>1, MinOfTwo
<1>4. 0 <= TA(log) /\ TA(log) \in Nat /\ TA(log) <= now
  BY <1>1, <1>2, <1>3
<1>. QED
  BY <1>2, <1>3, <1>4, <1>1

\* The anchor is a sample.
LEMMA ContextFacts ==
  ASSUME IInv, NEW log, NEW cut, NEW beat, NEW hasSeq, Cut(log, cut, beat, hasSeq)
  PROVE  /\ Anchor(log) \in log.contexts /\ log.contexts \subseteq samples
         /\ \A c \in log.contexts : /\ c.at \in 0..now /\ c.pos \in Nat /\ c.done \in 0..Read
                                    /\ c.pos <= c.done /\ c.done <= c.pos + 1 /\ Parts(c)
<1>1. log.contexts = {s \in samples : s.at <= cut} /\ cut \in 0..now /\ now \in Nat
  BY DEF Cut, Left, IInv
<1>2. /\ \A c \in samples : /\ c.at \in 0..now /\ c.pos \in Nat /\ c.done \in 0..Read
                            /\ c.pos <= c.done /\ c.done <= c.pos + 1 /\ Parts(c)
      /\ \E s \in samples : s.at = 0
  BY DEF IInv, SamplesInv
<1>3. log.contexts # {} /\ \A c \in log.contexts : c.at \in 0..now
  BY <1>1, <1>2
<1>4. \E s \in log.contexts : \A r \in log.contexts : r.at <= s.at
  BY <1>1, <1>3, NewestIs
<1>5. Anchor(log) \in log.contexts
  BY <1>4 DEF Anchor
<1>. QED
  BY <1>1, <1>2, <1>5

\* A planned move a journaled loss swallowed is over by t_a, unless the loss is
\* an observation gap.
LEMMA MissedHasEnded ==
  ASSUME IInv, NEW log, NEW cut, NEW beat, NEW hasSeq, Cut(log, cut, beat, hasSeq),
         Observed, PerLine(log), NEW i \in missed
  PROVE  i \in 1..Read /\ End(i) < TA(log)
<1>1. i \in 1..Len(rowAt) /\ i \in 1..Read
  BY ReadFacts DEF IInv, LossesInv
<1>2. PICK l \in losses : rowAt[i] <= l.to
  BY DEF IInv, LossesInv, Observed
<1>3. l.to <= cut /\ l.to \in 0..now /\ log.gaps = {m.to : m \in {x \in losses : x.to <= cut}}
  BY DEF Cut, Left, IInv, LossesInv
<1>4. l.to \in log.gaps
  BY <1>3
<1>5. TA(log) \in 0..now
  BY TAIs
<1>6. ~(l.to >= TA(log) - Lead)
  BY <1>4 DEF PerLine, ObservationGap
<1>7. start[i] < rowAt[i] + LookAhead
  BY <1>1 DEF IInv, RowsInv
<1>8. Duration(i) + LookAhead <= Lead + 1 /\ Duration(i) \in Nat
  BY <1>1, ReadFacts, DurationFacts
<1>9. End(i) = start[i] + Duration(i) /\ start[i] \in Nat /\ rowAt[i] \in Nat
  BY <1>1, ReadFacts
<1>10. End(i) <= rowAt[i] + Lead
  BY <1>7, <1>8, <1>9, Constants
<1>11. TA(log) \in Nat /\ l.to \in Nat /\ Lead \in Nat
  BY <1>3, <1>5, Constants
<1>12. l.to + Lead < TA(log)
  BY <1>6, <1>11
<1>13. rowAt[i] + Lead <= l.to + Lead
  BY <1>2, <1>9, <1>11
<1>14. End(i) \in Nat
  BY <1>1, ReadFacts
<1> DEFINE x == rowAt[i] + Lead
           y == l.to + Lead
           z == TA(log)
<1>15. End(i) <= x /\ x <= y /\ y < z /\ x \in Int /\ y \in Int /\ z \in Int
  BY <1>9, <1>10, <1>11, <1>12, <1>13
<1>16. End(i) < z
  <2> HIDE DEF x, y, z
  <2>. QED
    BY <1>14, <1>15
<1>. QED
  BY <1>1, <1>16

\* When motion lags the clock, every line dumped by the newest heartbeat has
\* ended by t_a ...
LEMMA DumpedHasEnded ==
  ASSUME IInv, NEW log, NEW cut, NEW beat, NEW hasSeq, Cut(log, cut, beat, hasSeq),
         Observed, PerLine(log), NEW b, b = NewestBeat(log), TA(log) # b.at,
         NEW i \in 1..Len(rowAt), rowAt[i] <= b.at
  PROVE  End(i) <= TA(log)
<1>1. TA(log) = Received(b.at) /\ TA(log) \in 0..now
  BY TAIs, BeatFacts
<1>2. CASE i \in missed
  <2>1. End(i) < TA(log) /\ i \in 1..Read
    BY <1>2, MissedHasEnded
  <2>2. End(i) \in Nat /\ TA(log) \in Nat
    BY <1>1, <2>1, ReadFacts
  <2>. QED
    BY <2>1, <2>2
<1>3. CASE i \notin missed
  <2>1. i \in Seen(b.at)
    BY <1>3, LenProperties DEF Seen, IInv, RowsInv
  <2>. QED
    BY <1>1, <2>1, ReceivedIs
<1>. QED
  BY <1>2, <1>3

\* ... and every other began no more than a batch ago.
LEMMA UndumpedBeganLate ==
  ASSUME IInv, NEW log, NEW cut, NEW beat, NEW hasSeq, Cut(log, cut, beat, hasSeq),
         NEW b, b = NewestBeat(log),
         NEW i \in 1..Read, ~(i \in 1..Len(rowAt) /\ rowAt[i] <= b.at)
  PROVE  now <= start[i] + Batch
<1>1. b.at \in Nat /\ now - 1 <= b.at /\ now \in Nat /\ start[i] \in Nat /\ Batch \in Nat
  <2>1. b.at \in 0..now /\ now - 1 <= b.at
    BY BeatFacts
  <2>2. now \in Nat /\ start[i] \in Nat
    BY ReadFacts
  <2>. QED
    BY <2>1, <2>2, Constants
<1>2. CASE i \in 1..Len(rowAt)
  <2>1. rowAt[i] \in Nat /\ rowAt[i] <= start[i] + Batch
    BY <1>2, ReadFacts DEF IInv, RowsInv
  <2>. QED
    BY <1>1, <1>2, <2>1
<1>3. CASE i \notin 1..Len(rowAt)
  <2>1. i \in Len(rowAt) + 1 .. Read
    BY <1>3, ReadFacts
  <2>2. now < start[i] + Batch
    BY <2>1 DEF IInv, RowsInv
  <2>. QED
    BY <1>1, <2>2
<1>. QED
  BY <1>2, <1>3

\* A replay from a consistent sample adds nothing to a height or a reading.
LEMMA NothingIsAdded ==
  ASSUME NEW ctx, Consistent(ctx), ctx.pos \in Nat, ctx.done \in 0..Len(File),
         NEW n \in Nat, StateAfter(ctx, n) \in 0..Len(File)
  PROVE  /\ ZReplayed(ctx, n) = ZAfter(StateAfter(ctx, n))
         /\ EReplayed(ctx, n) = EAfter(StateAfter(ctx, n))
<1>1. ZAfter(StateAfter(ctx, n)) \in Int /\ EAfter(StateAfter(ctx, n)) \in Int
  BY TimeFacts
<1>2. ASSUME RunsAgain(ctx)
      PROVE  /\ ZAfter(ctx.done) \in Int /\ ZAfter(ctx.done - 1) \in Int
             /\ EAfter(ctx.done) \in Int /\ EAfter(ctx.done - 1) \in Int
  <2>1. Len(File) \in Nat
    BY TimeFacts
  <2>2. ctx.pos < ctx.done
    BY <1>2 DEF RunsAgain
  <2>3. ctx.done \in 0..Len(File) /\ ctx.done - 1 \in 0..Len(File)
    BY <2>1, <2>2
  <2>. QED
    BY <2>3, TimeFacts
<1>3. ASSUME NEW axis, AddedTo(axis, ctx, n) PROVE RunsAgain(ctx) /\ axis \in File[ctx.done].rel
  <2>1. ctx.done \in Nat /\ ctx.done <= n
    BY <1>3, TimeFacts DEF AddedTo
  <2>2. ctx.done \in ctx.done..n
    BY <2>1
  <2>. QED
    BY <1>3, <2>2 DEF AddedTo
<1>4. ASSUME AddedTo("z", ctx, n) PROVE ZAfter(ctx.done) - ZAfter(ctx.done - 1) = 0
  <2>1. ZAfter(ctx.done) = ZAfter(ctx.done - 1)
    BY <1>3, <1>4 DEF Consistent
  <2>. QED
    BY <1>2, <1>3, <1>4, <2>1
<1>5. ASSUME AddedTo("e", ctx, n) PROVE EAfter(ctx.done) - EAfter(ctx.done - 1) = 0
  <2>1. EAfter(ctx.done) = EAfter(ctx.done - 1)
    BY <1>3, <1>5 DEF Consistent
  <2>. QED
    BY <1>2, <1>3, <1>5, <2>1
<1>. QED
  BY <1>1, <1>4, <1>5 DEF ZReplayed, EReplayed

\* From the lines the state has been through already, time is counted on.
LEMMA ElapsedIs ==
  ASSUME IInv, NEW ctx, Consistent(ctx), ctx.pos \in Nat, ctx.done \in 0..Read,
         ctx.pos <= ctx.done, ctx.done <= ctx.pos + 1,
         NEW n \in 0..Len(File), ctx.pos < n
  PROVE  /\ ctx.done <= n /\ StateAfter(ctx, n) = n
         /\ Elapsed(ctx, n) = TimeAfter(n) - TimeAfter(ctx.done)
<1>1. ctx.done \in Nat /\ ctx.done \in 0..Len(File) /\ n \in Nat /\ ctx.done <= n
  BY ReadFacts
<1>2. n \in Int /\ ctx.done \in Int
  BY <1>1
<1>3. /\ Max({n, ctx.done}) \in Int /\ n <= Max({n, ctx.done})
      /\ Max({n, ctx.done}) = n \/ Max({n, ctx.done}) = ctx.done
  BY <1>2, MaxOfTwo
<1>4. Max({n, ctx.done}) = n
  BY <1>1, <1>3
<1>5. TimeAfter(n) \in Nat /\ TimeAfter(ctx.done) \in Nat
  BY <1>1, TimeFacts
<1>6. RunsAgain(ctx) => File[ctx.done].again = 0
  BY DEF Consistent
<1>7. Elapsed(ctx, n) = TimeAfter(n) - TimeAfter(ctx.done)
  BY <1>4, <1>5, <1>6 DEF StateAfter, Elapsed
<1>. QED
  BY <1>1, <1>4, <1>7 DEF StateAfter

\* What the machine went through since the anchor, up to a line that has begun,
\* took no longer than the anchor is old, and not a batch longer than motion is
\* proven for.
LEMMA TailIsShort ==
  ASSUME IInv, NEW log, NEW cut, NEW beat, NEW hasSeq, Cut(log, cut, beat, hasSeq),
         Observed, PerLine(log), NEW a, a = Anchor(log), Consistent(a),
         NEW n \in Nat, a.pos < n, n + 1 <= Read, start[n + 1] <= now
  PROVE  /\ Elapsed(a, n) \in Int
         /\ Elapsed(a, n) <= now - a.at - 1
         /\ Elapsed(a, n) <= Batch \/ Elapsed(a, n) <= (TA(log) - a.at) + Batch
<1> DEFINE b == NewestBeat(log)
           done == a.done
           at == a.at
           ta == TA(log)
<1>1. /\ a.pos \in Nat /\ done \in 0..Read /\ a.pos <= done /\ done <= a.pos + 1
      /\ at \in 0..now /\ Parts(a)
  BY ContextFacts
<1>2. done <= n /\ Elapsed(a, n) = TimeAfter(n) - TimeAfter(done)
  <2>1. n \in 0..Len(File)
    BY ReadFacts
  <2>. QED
    BY <1>1, <2>1, ElapsedIs
<1>3. now \in Nat /\ Read \in Nat /\ done \in Nat /\ at \in Nat /\ ta \in Nat /\ Batch \in Nat
  <2>1. now \in Nat /\ Read \in Nat
    BY ReadFacts
  <2>2. ta \in 0..now
    BY TAIs
  <2> HIDE DEF done, at, ta
  <2>. QED
    BY <1>1, <2>1, <2>2, Constants
<1>4. n \in 0..Read /\ done \in 0..Read /\ n + 1 \in 1..Read /\ done + 1 \in 1..Read
      /\ done + 1 \in done + 1 .. Read
  BY <1>2, <1>3
<1>5. TimeAfter(n) \in Nat /\ TimeAfter(done) \in Nat /\ start[n + 1] \in Nat
      /\ start[done + 1] \in Nat
  BY <1>4, ReadFacts
<1>6. at < start[done + 1]
  BY <1>1, <1>4 DEF Parts
<1>7. start[done + 1] + (TimeAfter(n) - TimeAfter(done)) <= start[n + 1]
  <2>1. done + 1 <= n + 1 /\ (n + 1) - 1 = n /\ (done + 1) - 1 = done
    BY <1>2, <1>3
  <2>. QED
    BY <1>4, <2>1, Order
<1> HIDE DEF b, done, at, ta
<1>8. Elapsed(a, n) \in Int /\ Elapsed(a, n) <= now - at - 1
  BY <1>2, <1>3, <1>5, <1>6, <1>7
<1> SUFFICES Elapsed(a, n) <= Batch \/ Elapsed(a, n) <= (ta - at) + Batch
  BY <1>8 DEF at, ta
<1>9. CASE ta = b.at
  <2>1. now - 1 <= ta
    BY <1>9, BeatFacts DEF b
  <2>. QED
    BY <1>3, <1>8, <2>1
<1>10. CASE ta # b.at
  <2> DEFINE Dumped(i) == i \in 1..Len(rowAt) /\ rowAt[i] <= b.at
             Late == {i \in done + 1 .. n : ~Dumped(i)}
  <2>1. \A i \in done + 1 .. n : i \in 1..Read
    BY <1>3, <1>4
  <2>2. \A i \in 1..Read : Dumped(i) => End(i) <= ta
    BY <1>10, DumpedHasEnded DEF b, ta
  <2>3. \A i \in 1..Read : ~Dumped(i) => now <= start[i] + Batch
    BY UndumpedBeganLate DEF b
  <2> HIDE DEF Dumped
  \* The lines from the anchor to one that was dumped.
  <2>4. ASSUME NEW m \in done + 1 .. n, Dumped(m)
        PROVE  TimeAfter(m) - TimeAfter(done) <= ta - at - 1 /\ TimeAfter(m) \in Nat
    <3>1. /\ m \in 1..Read /\ End(m) = start[m] + Duration(m) /\ TimeAfter(m) = TimeAfter(m - 1) + Duration(m)
          /\ start[m] \in Nat /\ Duration(m) \in Nat /\ m \in Nat /\ m - 1 \in 0..Read
      <4>1. m \in 1..Read /\ m \in Nat
        BY <1>3, <2>1
      <4>2. m - 1 \in 0..Read
        BY <1>3, <4>1
      <4>. QED
        BY <4>1, <4>2, ReadFacts
    <3>2. TimeAfter(m - 1) \in Nat
      BY <3>1, ReadFacts
    <3>3. start[done + 1] + (TimeAfter(m - 1) - TimeAfter(done)) <= start[m]
      <4>1. done + 1 <= m /\ (done + 1) - 1 = done
        BY <1>3, <2>4
      <4>. QED
        BY <1>4, <3>1, <4>1, Order
    <3>4. End(m) <= ta
      BY <2>2, <2>4, <3>1
    <3>. QED
      BY <1>3, <1>5, <1>6, <3>1, <3>2, <3>3, <3>4
  <2>5. CASE Late = {}
    <3>1. CASE n = done
      BY <1>2, <1>3, <1>5, <3>1
    <3>2. CASE n # done
      <4>1. n \in done + 1 .. n
        BY <1>2, <1>3, <3>2
      <4>2. TimeAfter(n) - TimeAfter(done) <= ta - at - 1
        BY <2>4, <2>5, <4>1
      <4>. QED
        BY <1>2, <1>3, <1>5, <4>2
    <3>. QED
      BY <3>1, <3>2
  <2>6. CASE Late # {}
    <3>1. Late \in SUBSET Nat
      BY <1>3
    <3>2. PICK f \in Late : \A i \in Late : f <= i
      <4> HIDE DEF Late
      <4>. QED
        BY <2>6, <3>1, LeastNat
    <3>3. f \in done + 1 .. n /\ ~Dumped(f) /\ f \in 1..Read /\ f \in Nat /\ f - 1 \in 0..Read
      BY <1>3, <2>1, <3>2
    <3>4. now <= start[f] + Batch /\ start[f] \in Nat /\ TimeAfter(f - 1) \in Nat
      BY <2>3, <3>3, ReadFacts
    <3>5. start[f] + (TimeAfter(n) - TimeAfter(f - 1)) <= start[n + 1]
      <4>1. f <= n + 1 /\ (n + 1) - 1 = n
        BY <3>3
      <4>. QED
        BY <1>4, <3>3, <4>1, Order
    <3>6. TimeAfter(n) - TimeAfter(f - 1) <= Batch
      BY <1>3, <1>5, <3>4, <3>5
    <3>7. CASE f = done + 1
      <4>1. f - 1 = done
        BY <1>3, <3>7
      <4>. QED
        BY <1>2, <3>6, <4>1
    <3>8. CASE f # done + 1
      <4>1. f - 1 \in done + 1 .. n
        BY <1>3, <3>3, <3>8
      <4>2. Dumped(f - 1)
        <5>1. f - 1 \notin Late
          BY <3>1, <3>2, <3>3
        <5>. QED
          BY <4>1, <5>1
      <4>3. TimeAfter(f - 1) - TimeAfter(done) <= ta - at - 1
        BY <2>4, <4>1, <4>2
      <4>4. TimeAfter(n) - TimeAfter(done) <= (ta - at) + Batch
        BY <1>3, <1>5, <3>4, <3>6, <4>3
      <4>. QED
        BY <1>2, <4>4
    <3>. QED
      BY <3>7, <3>8
  <2>. QED
    BY <2>5, <2>6
<1>. QED
  BY <1>9, <1>10

-----------------------------------------------------------------------------
(* The window. *)

\* A row of the log is the planned move of a line that takes time.
RowOf(r, i) ==
  /\ i \in 1..Read /\ Duration(i) > 0
  /\ r.at = rowAt[i] /\ r.from = start[i] /\ r.to = End(i)
  /\ r.z.from = ZAfter(i - 1) /\ r.z.to = ZAfter(i)

LEMMA RowFacts ==
  ASSUME IInv, NEW log, NEW cut, NEW beat, NEW hasSeq, Cut(log, cut, beat, hasSeq)
  PROVE  /\ \A r \in log.rows : \E i \in 1..Read : RowOf(r, i)
         /\ \A r \in log.rows : r.from \in Nat /\ r.to \in Nat
         /\ IsFiniteSet(log.rows)
         /\ IsFiniteSet({r.to : r \in log.rows}) /\ {r.to : r \in log.rows} \in SUBSET Int
<1> DEFINE row(i) == [at |-> rowAt[i], from |-> start[i], to |-> End(i),
                      z |-> [from |-> ZAfter(i - 1), to |-> ZAfter(i)]]
           R == {j \in Seen(cut) : Duration(j) > 0}
           f == [i \in R |-> row(i)]
           g == [r \in log.rows |-> r.to]
<1>1. log.rows = {row(i) : i \in R}
  BY DEF Cut, Left
<1>2. R \subseteq Seen(cut) /\ R \subseteq 1..Read /\ IsFiniteSet(R) /\ \A i \in R : Duration(i) > 0
  <2>1. R \subseteq Seen(cut)
    OBVIOUS
  <2>. QED
    BY <2>1, SeenIs, FS_Subset
<1>3. \A i \in R : RowOf(row(i), i)
  BY <1>2 DEF RowOf
<1>4. \A r \in log.rows : \E i \in 1..Read : RowOf(r, i)
  <2> HIDE DEF row, R
  <2>. QED
    BY <1>1, <1>2, <1>3
<1>5. \A r \in log.rows : r.from \in Nat /\ r.to \in Nat
  BY <1>4, ReadFacts DEF RowOf
<1>6. IsFiniteSet(log.rows)
  <2>1. IsFiniteSet({f[i] : i \in R})
    <3> HIDE DEF R, row
    <3>. QED
      BY <1>2, ImageIsFinite, DOMAIN f = R
  <2>2. log.rows = {f[i] : i \in R}
    <3> HIDE DEF R, row
    <3>. QED
      BY <1>1
  <2>. QED
    BY <2>1, <2>2
<1>7. IsFiniteSet({r.to : r \in log.rows})
  <2>1. IsFiniteSet({g[r] : r \in log.rows})
    BY <1>6, ImageIsFinite, DOMAIN g = log.rows
  <2>2. {r.to : r \in log.rows} = {g[r] : r \in log.rows}
    OBVIOUS
  <2>. QED
    BY <2>1, <2>2
<1>. QED
  BY <1>4, <1>5, <1>6, <1>7

LEMMA CommittedFacts ==
  ASSUME IInv, NEW log, NEW cut, NEW beat, NEW hasSeq, Cut(log, cut, beat, hasSeq)
  PROVE  IsFiniteSet(Committed(log)) /\ Committed(log) \in SUBSET Int
<1> DEFINE step(i) == [isZ |-> ZAfter(i - 1) # ZAfter(i),
                       last |-> Min({rowAt[i] + StepLead, End(i)})]
           S == Seen(cut)
           f == [i \in S |-> step(i)]
           z == {s \in log.steps : s.isZ}
           U == IF z # {} THEN z ELSE log.steps
           g == [s \in U |-> s.last]
<1>1. log.steps = {step(i) : i \in S}
  BY DEF Cut, Left
<1>2. \A i \in S : Min({rowAt[i] + StepLead, End(i)}) \in Int
  <2> SUFFICES ASSUME NEW i \in S PROVE Min({rowAt[i] + StepLead, End(i)}) \in Int
    OBVIOUS
  <2>1. i \in 1..Read /\ i \in 1..Len(rowAt)
    BY SeenIs
  <2>2. rowAt[i] + StepLead \in Int /\ End(i) \in Int
    <3>1. rowAt[i] \in Nat /\ End(i) \in Nat
      BY <2>1, ReadFacts
    <3>. QED
      BY <3>1, Constants
  <2>. QED
    BY <2>2, MinOfTwo
<1>3. \A s \in log.steps : s.last \in Int
  <2>1. \A i \in S : step(i).last \in Int
    BY <1>2
  <2> HIDE DEF step, S
  <2>. QED
    BY <1>1, <2>1
<1>4. IsFiniteSet(log.steps)
  <2>1. IsFiniteSet(S) /\ DOMAIN f = S
    BY SeenIs
  <2>2. IsFiniteSet({f[i] : i \in S})
    <3> HIDE DEF S, step, f
    <3>. QED
      BY <2>1, ImageIsFinite
  <2>3. log.steps = {f[i] : i \in S}
    <3> HIDE DEF S, step
    <3>. QED
      BY <1>1
  <2>. QED
    BY <2>2, <2>3
<1>5. U \subseteq log.steps
  OBVIOUS
<1> HIDE DEF U
<1>6. IsFiniteSet(U) /\ \A s \in U : s.last \in Int
  BY <1>3, <1>4, <1>5, FS_Subset
<1>7. IsFiniteSet({g[s] : s \in U})
  BY <1>6, ImageIsFinite, DOMAIN g = U
<1>8. {g[s] : s \in U} = {s.last : s \in U}
  OBVIOUS
<1>9. Committed(log) = {s.last : s \in U}
  BY DEF Committed, U
<1>. QED
  BY <1>6, <1>7, <1>8, <1>9

\* t_b is never before t_a.
LEMMA TBIs ==
  ASSUME IInv, NEW log, NEW cut, NEW beat, NEW hasSeq, Cut(log, cut, beat, hasSeq)
  PROVE  TB(log) \in Int /\ TA(log) <= TB(log)
<1> DEFINE S == Committed(log) \cup SeqBound(log) \cup {TA(log)}
<1>1. IsFiniteSet(Committed(log)) /\ Committed(log) \in SUBSET Int
  BY CommittedFacts
<1>2. IsFiniteSet(SeqBound(log)) /\ SeqBound(log) \in SUBSET Int
  <2>1. log.seq = IF hasSeq THEN beat ELSE NoTime
    BY DEF Cut, Left
  <2>2. beat \in 0..now /\ StepLead \in Nat /\ now \in Nat
    BY Constants, ReadFacts DEF Cut
  <2>3. CASE log.seq = NoTime
    BY <2>3, FS_EmptySet DEF SeqBound
  <2>4. CASE log.seq # NoTime
    <3>1. log.seq = beat /\ SeqBound(log) = {beat + StepLead}
      BY <2>1, <2>4 DEF SeqBound
    <3>2. beat + StepLead \in Int
      BY <2>2
    <3>. QED
      BY <3>1, <3>2, FS_Singleton
  <2>. QED
    BY <2>3, <2>4
<1>3. TA(log) \in Int
  <2>1. TA(log) \in 0..now
    BY TAIs
  <2>. QED
    BY <2>1
<1>4. IsFiniteSet(S) /\ S \in SUBSET Int /\ TA(log) \in S
  BY <1>1, <1>2, <1>3, FS_Union, FS_AddElement
<1>5. TB(log) = Max(S)
  BY DEF TB
<1> HIDE DEF S
<1>. QED
  BY <1>4, <1>5, MaxIs

LEMMA EvalEndIs ==
  ASSUME IInv, NEW log, NEW cut, NEW beat, NEW hasSeq, Cut(log, cut, beat, hasSeq)
  PROVE  /\ EvalEnd(log) \in Int /\ TA(log) <= EvalEnd(log)
         /\ \/ \A r \in log.rows : r.to <= EvalEnd(log)
            \/ Collapses(log, TB(log)) /\ now <= EvalEnd(log)
<1> DEFINE tb == TB(log)
           S == {tb} \cup {r.to : r \in log.rows}
           high == Max(S)
<1>1. tb \in Int /\ TA(log) <= tb /\ TA(log) \in Int
  <2>1. TA(log) \in 0..now
    BY TAIs
  <2>. QED
    BY <2>1, TBIs
<1>2. IsFiniteSet(S) /\ S \in SUBSET Int
  <2>1. IsFiniteSet({r.to : r \in log.rows}) /\ {r.to : r \in log.rows} \in SUBSET Int
    BY RowFacts
  <2>2. IsFiniteSet({tb})
    BY FS_Singleton
  <2> DEFINE T == {r.to : r \in log.rows}
  <2> HIDE DEF T
  <2>3. IsFiniteSet({tb} \cup T)
    BY <2>1, <2>2, FS_Union DEF T
  <2>. QED
    BY <1>1, <2>1, <2>3 DEF T
<1>3. tb \in S /\ \A r \in log.rows : r.to \in S
  OBVIOUS
<1>4. high \in Int /\ \A x \in S : x <= high
  <2> HIDE DEF S
  <2>. QED
    BY <1>2, <1>3, MaxIs
<1>5. EvalEnd(log) = IF Collapses(log, tb) THEN Min({high, CutTime(log)}) ELSE high
  BY DEF EvalEnd
<1> HIDE DEF S, high
<1>6. high \in Int /\ tb <= high /\ \A r \in log.rows : r.to <= high
  BY <1>3, <1>4
<1>7. CASE ~Collapses(log, tb)
  BY <1>1, <1>5, <1>6, <1>7
<1>8. CASE Collapses(log, tb)
  <2>1. log.edge = edge /\ edge # NoTime /\ CutTime(log) >= tb
    BY <1>8 DEF Collapses, EdgeIsLast, Cut, Left
  <2>2. CutTime(log) \in Int /\ now <= CutTime(log)
    BY <2>1, Constants DEF CutTime, IInv, EdgeInv
  <2>3. EvalEnd(log) \in Int /\ (EvalEnd(log) = high \/ EvalEnd(log) = CutTime(log))
    BY <1>5, <1>6, <1>8, <2>2, MinOfTwo
  <2>4. CASE EvalEnd(log) = high
    BY <1>1, <1>6, <2>3, <2>4
  <2>5. CASE EvalEnd(log) = CutTime(log)
    BY <1>1, <1>8, <2>1, <2>2, <2>3, <2>5
  <2>. QED
    BY <2>3, <2>4, <2>5
<1>. QED
  BY <1>7, <1>8

LEMMA StartTimeIs ==
  ASSUME IInv, NEW log, NEW cut, NEW beat, NEW hasSeq, Cut(log, cut, beat, hasSeq)
  PROVE  StartTime(log) \in Int /\ StartTime(log) <= TA(log) /\ StartTime(log) <= Anchor(log).at
<1> DEFINE at == Anchor(log).at
           ta == TA(log)
           J == JournaledBy(log, at)
           x == IF J = {} THEN ta - Lead ELSE Max(J)
<1>1. at \in Int /\ ta \in Int /\ Lead \in Int
  <2>1. ta \in 0..now /\ at \in 0..now
    BY TAIs, ContextFacts
  <2>. QED
    BY <2>1, Constants
<1>2. IsFiniteSet(J) /\ J \in SUBSET Int
  <2> DEFINE T == {r.to : r \in log.rows}
  <2>1. IsFiniteSet(T) /\ T \in SUBSET Int
    BY RowFacts
  <2>2. J \subseteq T
    BY DEF JournaledBy
  <2> HIDE DEF T, J
  <2>. QED
    BY <2>1, <2>2, FS_Subset
<1>3. x \in Int
  <2> HIDE DEF J, ta
  <2>. QED
    BY <1>1, <1>2, MaxIs
<1>4. StartTime(log) = Min({ta, at, x})
  BY DEF StartTime
<1> HIDE DEF ta, at, x
<1>5. {ta, at, x} \in SUBSET Int /\ IsFiniteSet({ta, at, x})
  BY <1>1, <1>3, FewAreFinite
<1>6. StartTime(log) \in Int /\ StartTime(log) <= ta /\ StartTime(log) <= at
  BY <1>4, <1>5, MinIs
<1>. QED
  BY <1>6 DEF ta, at

-----------------------------------------------------------------------------
(* The lines. *)

\* The simulation consumes every line before which its budget is not used up.
LEMMA SimulatedReaches ==
  ASSUME NEW ctx, ctx.pos \in Nat, NEW budget \in Int, NEW m \in 0..Len(File),
         \A n \in Nat : ctx.pos < n /\ n < m =>
           Elapsed(ctx, n) \in Int /\ Elapsed(ctx, n) < budget
  PROVE  Simulated(ctx, budget) \in 0..Len(File) /\ m <= Simulated(ctx, budget)
<1> DEFINE S == {n \in ctx.pos + 1 .. Len(File) : Elapsed(ctx, n) >= budget} \cup {Len(File)}
<1>1. Len(File) \in Nat /\ Simulated(ctx, budget) = Min(S)
  BY TimeFacts DEF Simulated
<1>2. S \in SUBSET (0..Len(File)) /\ Len(File) \in S
  BY <1>1
<1>3. IsFiniteSet(S) /\ S \in SUBSET Int
  <2>1. IsFiniteSet(0..Len(File))
    BY <1>1, FS_Interval
  <2> HIDE DEF S
  <2>2. IsFiniteSet(S)
    BY <1>2, <2>1, FS_Subset
  <2>3. \A x \in S : x \in Int
    BY <1>2
  <2>. QED
    BY <2>2, <2>3
<1>4. Min(S) \in S
  <2> HIDE DEF S
  <2>. QED
    BY <1>2, <1>3, MinIs
<1>5. CASE Min(S) = Len(File)
  BY <1>1, <1>5
<1>6. CASE Min(S) # Len(File)
  <2>1. PICK n \in ctx.pos + 1 .. Len(File) : n = Min(S) /\ Elapsed(ctx, n) >= budget
    BY <1>4, <1>6
  <2>2. n \in Nat /\ ctx.pos < n /\ n \in 0..Len(File)
    BY <1>1, <2>1
  <2>3. ~(n < m)
    <3>1. SUFFICES ASSUME n < m PROVE FALSE
      OBVIOUS
    <3>2. Elapsed(ctx, n) \in Int /\ Elapsed(ctx, n) < budget
      BY <2>2, <3>1
    <3>. QED
      BY <2>1, <3>2
  <2> HIDE DEF S
  <2>. QED
    BY <1>1, <2>1, <2>2, <2>3
<1>. QED
  BY <1>5, <1>6

\* A line the machine has begun, and so the last it has executed.
Begun(m) == m \in 0..Read /\ (m # 0 => start[m] <= now)

LEMMA TailBefore ==
  ASSUME IInv, NEW log, NEW cut, NEW beat, NEW hasSeq, Cut(log, cut, beat, hasSeq),
         Observed, PerLine(log), NEW a, a = Anchor(log), Consistent(a),
         NEW m, Begun(m), NEW n \in Nat, a.pos < n, n < m
  PROVE  /\ Elapsed(a, n) \in Int
         /\ Elapsed(a, n) <= now - a.at - 1
         /\ Elapsed(a, n) <= Batch \/ Elapsed(a, n) <= (TA(log) - a.at) + Batch
<1>1. Read \in Nat /\ m \in 1..Read /\ start[m] <= now /\ n + 1 \in 1..Read /\ n + 1 <= m
  BY ReadFacts DEF Begun
<1>2. start[n + 1] <= start[m]
  BY <1>1, Order
<1>3. start[n + 1] \in Nat /\ start[m] \in Nat /\ now \in Nat
  BY <1>1, ReadFacts
<1>4. start[n + 1] <= now /\ n + 1 <= Read
  BY <1>1, <1>2, <1>3
<1>. QED
  BY <1>4, TailIsShort

\* The extension reaches every line the machine has begun.
LEMMA ConsumedReaches ==
  ASSUME IInv, NEW log, NEW cut, NEW beat, NEW hasSeq, Cut(log, cut, beat, hasSeq),
         Observed, PerLine(log), Consistent(Anchor(log)), NEW m, Begun(m)
  PROVE  Consumed(log) \in 0..Len(File) /\ m <= Consumed(log)
<1> DEFINE a == Anchor(log)
           ta == TA(log)
           end == EvalEnd(log)
           begin == StartTime(log)
           budget == Horizon + end - begin
<1>1. end \in Int /\ ta <= end /\ begin \in Int /\ begin <= ta /\ begin <= a.at
  BY EvalEndIs, StartTimeIs
<1>2. a.pos \in Nat /\ a.at \in 0..now /\ ta \in 0..now
  BY ContextFacts, TAIs
<1>3. a.at \in Int /\ ta \in Int /\ Horizon \in Nat /\ Batch \in Nat /\ Batch < Horizon
  BY <1>2, Constants
<1>4. budget \in Int /\ Batch < budget /\ (ta - a.at) + Batch < budget
  <2> HIDE DEF a, ta, end, begin
  <2>. QED
    BY <1>1, <1>3
<1>5. m \in 0..Len(File)
  BY ReadFacts DEF Begun
<1>6. ASSUME NEW n \in Nat, a.pos < n, n < m
      PROVE  Elapsed(a, n) \in Int /\ Elapsed(a, n) < budget
  <2>1. /\ Elapsed(a, n) \in Int
        /\ Elapsed(a, n) <= Batch \/ Elapsed(a, n) <= (ta - a.at) + Batch
    BY <1>6, TailBefore
  <2> HIDE DEF a, ta, budget
  <2>. QED
    BY <1>3, <1>4, <2>1
<1>7. Consumed(log) = Simulated(a, budget)
  BY DEF Consumed
<1> HIDE DEF a, budget
<1>. QED
  BY <1>2, <1>4, <1>5, <1>6, <1>7, SimulatedReaches

\* The spacing of the heartbeats, when there is one.
LEMMA SpacingIs ==
  ASSUME IInv, NEW log, NEW cut, NEW beat, NEW hasSeq, Cut(log, cut, beat, hasSeq)
  PROVE  TailSpacing(log) = NoTime \/ TailSpacing(log) \in Nat
<1> DEFINE at == {b.at : b \in log.beats}
           gap(t) == t - Max({s \in at : s < t})
           inner == at \ {Min(at)}
           breaks == {t \in inner : gap(t) > Tolerance}
           run == {u \in inner : \A s \in breaks : s < u}
           f == [t \in run |-> gap(t)]
<1>1. TailSpacing(log) = IF inner = {} THEN Tolerance
                         ELSE IF Max(at) \in breaks THEN NoTime
                         ELSE Max({gap(t) : t \in run})
  BY DEF TailSpacing
<1>2. at \in SUBSET (0..now) /\ now \in Nat
  BY BeatFacts DEF IInv
<1>3. IsFiniteSet(at) /\ at \in SUBSET Int
  <2> HIDE DEF at
  <2>1. IsFiniteSet(0..now)
    BY <1>2, FS_Interval
  <2>2. IsFiniteSet(at)
    BY <1>2, <2>1, FS_Subset
  <2>3. \A x \in at : x \in Int
    BY <1>2
  <2>. QED
    BY <2>2, <2>3
<1>4. ASSUME inner # {}, Max(at) \notin breaks
      PROVE  Max({gap(t) : t \in run}) \in Nat
  <2>1. at # {}
    BY <1>4
  <2> HIDE DEF at
  <2>2. /\ Max(at) \in at /\ \A x \in at : x <= Max(at)
        /\ Min(at) \in at /\ \A x \in at : Min(at) <= x
    BY <1>3, <2>1, MaxIs, MinIs
  <2>3. ASSUME NEW t \in inner PROVE gap(t) \in Nat
    <3> DEFINE B == {s \in at : s < t}
    <3>1. t \in Int /\ Min(at) \in Int /\ Min(at) <= t /\ Min(at) # t
      BY <1>3, <2>2
    <3>2. B # {} /\ B \subseteq at
      BY <2>2, <3>1
    <3>3. Max(B) \in B /\ Max(B) \in Int
      <4> HIDE DEF B
      <4>. QED
        BY <1>3, <3>2, FS_Subset, MaxIs
    <3>4. Max(B) < t /\ gap(t) = t - Max(B)
      BY <3>3
    <3> HIDE DEF B, gap
    <3>. QED
      BY <3>1, <3>3, <3>4
  <2>4. Max(at) \in inner
    <3>1. PICK t \in inner : TRUE
      BY <1>4
    <3>2. t \in Int /\ Max(at) \in Int /\ Min(at) \in Int /\ Min(at) <= t /\ t # Min(at) /\ t <= Max(at)
      BY <1>3, <2>2, <3>1
    <3>3. Max(at) # Min(at)
      BY <3>2
    <3>. QED
      BY <2>2, <3>3
  <2>5. ASSUME NEW s \in breaks PROVE s < Max(at)
    <3>1. s \in at /\ s # Max(at)
      BY <1>4
    <3>2. s \in Int /\ Max(at) \in Int /\ s <= Max(at)
      BY <1>3, <2>2, <3>1
    <3>. QED
      BY <3>1, <3>2
  <2>6. run # {} /\ run \subseteq inner /\ run \subseteq at
    BY <2>4, <2>5
  <2> HIDE DEF run, inner, gap
  <2>7. IsFiniteSet(run)
    BY <1>3, <2>6, FS_Subset
  <2> DEFINE G == {gap(t) : t \in run}
  <2>8. G \in SUBSET Nat /\ G # {}
    BY <2>3, <2>6
  <2>9. IsFiniteSet(G)
    <3>1. IsFiniteSet({f[t] : t \in run})
      BY <2>7, ImageIsFinite, DOMAIN f = run
    <3>2. {f[t] : t \in run} = G
      OBVIOUS
    <3>. QED
      BY <3>1, <3>2
  <2>10. Max(G) \in G
    <3>1. G \in SUBSET Int
      BY <2>8
    <3> HIDE DEF G
    <3>. QED
      BY <2>8, <2>9, <3>1, MaxIs
  <2>. QED
    BY <2>8, <2>10
<1> HIDE DEF inner, breaks, run, at, gap
<1>. QED
  BY <1>1, <1>4, Constants

\* The cap on the frontier reaches every line the machine has begun.
LEMMA FrontierCapReaches ==
  ASSUME IInv, NEW log, NEW cut, NEW beat, NEW hasSeq, Cut(log, cut, beat, hasSeq),
         Observed, PerLine(log), Consistent(Anchor(log)), NEW m, Begun(m)
  PROVE  FrontierCap(log) \in 0..Len(File) /\ m <= FrontierCap(log)
<1> DEFINE a == Anchor(log)
           ta == TA(log)
           spacing == TailSpacing(log)
           priced == PricedTail(log, spacing)
           stale == Max({0, ta - a.at})
           inferred == stale + spacing + Draws
           left == Max({0, CutTime(log) - a.at})
           reached == Simulated(a, priced)
<1>1. m \in 0..Len(File) /\ Len(File) \in Nat
  BY ReadFacts DEF Begun
<1>2. FrontierCap(log) = IF spacing = NoTime THEN Len(File) ELSE Min({Len(File), reached + 1})
  BY DEF FrontierCap, PerLine
<1>3. CASE spacing = NoTime
  BY <1>1, <1>2, <1>3
<1>4. CASE spacing # NoTime
  <2>1. spacing \in Nat
    BY <1>4, SpacingIs
  <2>2. a.pos \in Nat /\ a.at \in Int /\ ta \in Int /\ Draws \in Nat /\ Batch \in Nat /\ Batch < Draws
    <3>1. a.pos \in Nat /\ a.at \in 0..now /\ ta \in 0..now
      BY ContextFacts, TAIs
    <3>. QED
      BY <3>1, Constants
  <2>3. stale \in Int /\ 0 <= stale /\ ta - a.at <= stale
    <3>1. 0 \in Int /\ ta - a.at \in Int
      BY <2>2
    <3>. QED
      BY <3>1, MaxOfTwo
  <2>4. priced = IF EdgeIsLast(log) THEN Min({inferred, left}) ELSE inferred
    BY DEF PricedTail
  <2>5. EdgeIsLast(log) => left \in Int /\ now - a.at <= left
    <3> SUFFICES ASSUME EdgeIsLast(log) PROVE left \in Int /\ now - a.at <= left
      OBVIOUS
    <3>1. log.edge = edge /\ edge # NoTime
      BY DEF EdgeIsLast, Cut, Left
    <3>2. CutTime(log) \in Int /\ now <= CutTime(log) /\ now \in Int
      BY <3>1, Constants DEF CutTime, IInv, EdgeInv
    <3>3. 0 \in Int /\ CutTime(log) - a.at \in Int
      BY <2>2, <3>2
    <3>4. left \in Int /\ CutTime(log) - a.at <= left
      BY <3>3, MaxOfTwo
    <3> HIDE DEF a, left
    <3>. QED
      BY <2>2, <3>2, <3>4
  <2>6. /\ inferred \in Int /\ Batch < inferred /\ (ta - a.at) + Batch < inferred
    <3> HIDE DEF a, ta, spacing, stale
    <3>. QED
      BY <2>1, <2>2, <2>3
  <2>7. priced \in Int /\ (priced = inferred \/ (EdgeIsLast(log) /\ priced = left))
    <3> HIDE DEF priced, inferred, left
    <3>1. CASE EdgeIsLast(log)
      BY <2>4, <2>5, <2>6, <3>1, MinOfTwo
    <3>2. CASE ~EdgeIsLast(log)
      BY <2>4, <2>6, <3>2
    <3>. QED
      BY <3>1, <3>2
  <2>8. ASSUME NEW n \in Nat, a.pos < n, n < m
        PROVE  Elapsed(a, n) \in Int /\ Elapsed(a, n) < priced
    <3>1. /\ Elapsed(a, n) \in Int
          /\ Elapsed(a, n) <= now - a.at - 1
          /\ Elapsed(a, n) <= Batch \/ Elapsed(a, n) <= (ta - a.at) + Batch
      BY <2>8, TailBefore
    <3>2. now \in Int
      BY ReadFacts
    <3> HIDE DEF a, ta, priced, inferred, left
    <3>3. CASE priced = inferred
      BY <2>2, <2>6, <3>1, <3>3
    <3>4. CASE EdgeIsLast(log) /\ priced = left
      BY <2>2, <2>5, <3>1, <3>2, <3>4
    <3>. QED
      BY <2>7, <3>3, <3>4
  <2> HIDE DEF a, priced
  <2>9. reached \in 0..Len(File) /\ m <= reached
    BY <1>1, <2>2, <2>7, <2>8, SimulatedReaches
  <2> HIDE DEF reached
  <2>10. Len(File) \in Int /\ reached + 1 \in Int /\ m \in Nat /\ m <= reached + 1 /\ m <= Len(File)
         /\ 0 <= reached + 1
    BY <1>1, <2>9
  <2>11. /\ Min({Len(File), reached + 1}) \in Int /\ Min({Len(File), reached + 1}) <= Len(File)
         /\ Min({Len(File), reached + 1}) = Len(File) \/ Min({Len(File), reached + 1}) = reached + 1
    BY <2>10, MinOfTwo
  <2>12. FrontierCap(log) \in Int /\ FrontierCap(log) <= Len(File)
         /\ (FrontierCap(log) = Len(File) \/ FrontierCap(log) = reached + 1)
    BY <1>2, <1>4, <2>11
  <2>. QED
    BY <1>1, <2>10, <2>12
<1>. QED
  BY <1>3, <1>4

\* The machine has passed the floor when it is certain.
LEMMA FloorIsPassed ==
  ASSUME IInv, NEW log, NEW cut, NEW beat, NEW hasSeq, Cut(log, cut, beat, hasSeq),
         FloorIsCertain(log)
  PROVE  /\ Floor(log) \in log.contexts
         /\ Floor(log).pos \in Nat /\ Floor(log).done \in 0..Read
         /\ Floor(log).pos <= Floor(log).done /\ Floor(log).done <= Executed
<1> DEFINE old == OldFrontiers(log)
           c == Floor(log)
           P == {d.pos : d \in old}
<1>1. old # {} /\ old = {d \in log.contexts : d.at <= TA(log) - Lead}
  BY DEF FloorIsCertain, OldFrontiers
<1>2. \A d \in old : d.pos \in 0..Read
  <2>1. \A d \in log.contexts : d.pos \in Nat /\ d.done \in 0..Read /\ d.pos <= d.done
    BY ContextFacts
  <2>2. Read \in Nat
    BY ReadFacts
  <2>. QED
    BY <1>1, <2>1, <2>2
<1>3. \E d \in old : \A x \in old : x.pos < d.pos \/ (x.pos = d.pos /\ x.at <= d.at)
  <2> HIDE DEF old
  <2>1. P \in SUBSET (0..Read) /\ P # {}
    BY <1>1, <1>2
  <2>2. IsFiniteSet(P)
    <3> HIDE DEF P
    <3>1. IsFiniteSet(0..Read)
      BY ReadFacts, FS_Interval
    <3>. QED
      BY <2>1, <3>1, FS_Subset
  <2>3. P \in SUBSET Int
    BY <2>1
  <2>4. PICK p \in P : \A q \in P : q <= p
    <3> HIDE DEF P
    <3>. QED
      BY <2>1, <2>2, <2>3, FiniteMax DEF HasMax
  <2> DEFINE Furthest == {d \in old : d.pos = p}
  <2>5. Furthest # {} /\ Furthest \subseteq old
    BY <2>4
  <2>6. \A d \in Furthest : d.at \in 0..now
    BY <1>1, <2>5, ContextFacts
  <2>7. now \in Nat
    BY ReadFacts
  <2>8. PICK d \in Furthest : \A x \in Furthest : x.at <= d.at
    <3> HIDE DEF Furthest
    <3>. QED
      BY <2>5, <2>6, <2>7, NewestIs
  <2>9. \A x \in old : x.pos <= p /\ x.pos \in Int /\ p \in Int
    BY <1>2, <2>3, <2>4
  <2>10. \A x \in old : x.pos < p \/ x \in Furthest
    BY <2>9
  <2>. QED
    BY <2>8, <2>10
<1>4. c \in old
  <2>1. c = CHOOSE d \in old : \A x \in old :
              x.pos < d.pos \/ (x.pos = d.pos /\ x.at <= d.at)
    BY <1>1 DEF Floor
  <2> HIDE DEF old, c
  <2>. QED
    BY <1>3, <2>1
<1>5. c \in log.contexts /\ c.at <= TA(log) - Lead
  BY <1>1, <1>4
<1> HIDE DEF c, old
<1>6. /\ c.at \in 0..now /\ c.pos \in Nat /\ c.done \in 0..Read /\ c.pos <= c.done /\ Parts(c)
  BY <1>5, ContextFacts
<1>7. c.done <= Executed
  <2>1. CASE c.done = 0
    BY <2>1, ExecutedIs
  <2>2. CASE c.done # 0
    <3>1. c.done \in 1..Read /\ c.done \in 1..c.done
      BY <1>6, <2>2, ReadFacts
    <3>2. start[c.done] < c.at + LookAhead
      BY <1>6, <3>1 DEF Parts
    <3>3. /\ End(c.done) = start[c.done] + Duration(c.done) /\ start[c.done] \in Nat
          /\ Duration(c.done) \in Nat /\ Duration(c.done) + LookAhead <= Lead + 1
      BY <3>1, ReadFacts, DurationFacts
    <3>4. TA(log) \in Int /\ TA(log) <= now /\ now \in Int /\ c.at \in Int
      <4>1. TA(log) \in 0..now /\ now \in Nat
        BY TAIs, ReadFacts
      <4>. QED
        BY <1>6, <4>1
    <3>5. End(c.done) <= c.at + Lead
      BY <3>2, <3>3, <3>4, Constants
    <3>6. c.at + Lead <= now
      BY <1>5, <3>4, Constants
    <3>7. End(c.done) <= now
      <4>1. End(c.done) \in Int /\ c.at + Lead \in Int
        BY <3>3, <3>4, Constants
      <4>. QED
        BY <3>4, <3>5, <3>6, <4>1
    <3>. QED
      BY <3>1, <3>7, ExecutedIs
  <2>. QED
    BY <2>1, <2>2
<1>. QED
  BY <1>5, <1>6, <1>7 DEF c

-----------------------------------------------------------------------------
\* The file window (offset_window, stopset.rs:1936) holds the line the print
\* stopped on, whenever the floor is certain, no loss is in the way and the
\* newest sample was not taken within a line that takes its time twice.
THEOREM LineCovered == Spec => []LineIsCovered
<1>1. IInv => LineIsCovered
  <2> SUFFICES ASSUME IInv, Observed, NEW log \in Logs, PerLine(log), FloorIsCertain(log),
                      Consistent(Anchor(log))
               PROVE  Within(Offsets(log), Executed)
    BY DEF LineIsCovered
  <2>1. PICK cut, beat, hasSeq : Cut(log, cut, beat, hasSeq)
    BY LogIsCut
  <2> DEFINE E == Executed
             pos == Floor(log).pos
             c == Consumed(log)
             f == FrontierCap(log)
             end == Min({c, f})
  <2>2. Begun(E) /\ E \in Nat
    BY ExecutedIs, ReadFacts DEF Begun
  <2>3. c \in 0..Len(File) /\ E <= c
    BY <2>1, <2>2, ConsumedReaches
  <2>4. f \in 0..Len(File) /\ E <= f
    BY <2>1, <2>2, FrontierCapReaches
  <2>5. pos \in Nat /\ pos <= E
    <3>1. pos \in Nat /\ Floor(log).done \in 0..Read /\ pos <= Floor(log).done /\ Floor(log).done <= E
      BY <2>1, FloorIsPassed
    <3>. QED
      BY <2>2, <3>1
  <2> HIDE DEF E, pos, c, f
  <2>6. end \in Int /\ E <= end
    <3>1. c \in Int /\ f \in Int
      BY <2>3, <2>4
    <3>. QED
      BY <2>3, <2>4, <3>1, MinOfTwo
  <2> HIDE DEF end
  <2>7. Min({pos, end}) <= E
    <3>1. pos \in Int /\ end \in Int
      BY <2>5, <2>6
    <3>2. Min({pos, end}) \in Int /\ Min({pos, end}) <= pos
      BY <3>1, MinOfTwo
    <3>. QED
      BY <2>2, <2>5, <3>2
  <2>8. Offsets(log) = [lo |-> Min({pos, end}), hi |-> end]
    BY DEF Offsets, pos, end, c, f
  <2>. QED
    BY <2>6, <2>7, <2>8 DEF Within, E
<1>. QED
  BY <1>1, Invariance, PTL

\* The extruder reading of the file at the stop lies in the interval replayed
\* from the floor (replay_file_e, stopset.rs:1846), if neither the floor nor the
\* newest sample was taken within a line that is added a second time.
THEOREM ReadingCovered == Spec => []ReadingIsCovered
<1>1. IInv => ReadingIsCovered
  <2> SUFFICES ASSUME IInv, Observed, NEW log \in Logs, PerLine(log), FloorIsCertain(log),
                      Consistent(Anchor(log)), Consistent(Floor(log))
               PROVE  Within(Readings(log), EAfter(Executed))
    BY DEF ReadingIsCovered
  <2>1. PICK cut, beat, hasSeq : Cut(log, cut, beat, hasSeq)
    BY LogIsCut
  <2> DEFINE c == Consumed(log)
             floor == Floor(log)
             dom == floor.pos .. c
             S == {EReplayed(floor, n) : n \in dom}
             f == [n \in dom |-> EReplayed(floor, n)]
  <2>2. Begun(Executed) /\ Executed \in 0..Read /\ Executed \in Nat
    BY ExecutedIs, ReadFacts DEF Begun
  <2>3. c \in 0..Len(File) /\ Executed <= c /\ Len(File) \in Nat
    BY <2>1, <2>2, ConsumedReaches, TimeFacts
  <2>4. /\ floor.pos \in Nat /\ floor.done \in 0..Read /\ floor.pos <= floor.done
        /\ floor.done <= Executed
    BY <2>1, FloorIsPassed
  <2> HIDE DEF c, floor
  <2>5. Executed \in dom
    BY <2>2, <2>3, <2>4
  <2>6. ASSUME NEW n \in dom PROVE StateAfter(floor, n) \in 0..Len(File)
    <3>1. n \in Int /\ floor.done \in Int /\ n \in 0..Len(File) /\ floor.done \in 0..Len(File)
      <4>1. Read \in Nat /\ Read <= Len(File)
        BY ReadFacts
      <4>2. floor.done \in Nat /\ floor.done <= Len(File)
        BY <2>3, <2>4, <4>1
      <4>3. n \in Nat /\ n <= c
        BY <2>3, <2>4
      <4>. QED
        BY <2>3, <4>2, <4>3
    <3>. QED
      BY <3>1, MaxOfTwo DEF StateAfter
  <2>7. StateAfter(floor, Executed) = Executed
    <3>1. Executed \in Int /\ floor.done \in Int
      BY <2>2, <2>4
    <3>2. /\ Max({Executed, floor.done}) \in Int /\ Executed <= Max({Executed, floor.done})
          /\ Max({Executed, floor.done}) = Executed \/ Max({Executed, floor.done}) = floor.done
      BY <3>1, MaxOfTwo
    <3>. QED
      BY <2>4, <3>1, <3>2 DEF StateAfter
  <2>8. ASSUME NEW n \in dom
        PROVE  EReplayed(floor, n) = EAfter(StateAfter(floor, n)) /\ EReplayed(floor, n) \in Int
    <3>1. n \in Nat /\ floor.done \in 0..Len(File) /\ Consistent(floor)
      <4>1. Read \in Nat /\ Read <= Len(File)
        BY ReadFacts
      <4>2. Consistent(floor)
        BY DEF floor
      <4>. QED
        BY <2>3, <2>4, <4>1, <4>2
    <3>2. EReplayed(floor, n) = EAfter(StateAfter(floor, n))
      BY <2>4, <2>6, <3>1, NothingIsAdded
    <3>. QED
      BY <2>6, <3>2, TimeFacts
  <2>9. EAfter(Executed) \in S /\ S # {} /\ S \in SUBSET Int
    BY <2>5, <2>7, <2>8
  <2>10. IsFiniteSet(S)
    <3>1. IsFiniteSet(dom)
      <4>1. floor.pos \in Int /\ c \in Int
        BY <2>3, <2>4
      <4>. QED
        BY <4>1, FS_Interval
    <3>2. IsFiniteSet({f[n] : n \in dom})
      <4> HIDE DEF dom
      <4>. QED
        BY <3>1, ImageIsFinite, DOMAIN f = dom
    <3>3. {f[n] : n \in dom} = S
      OBVIOUS
    <3>. QED
      BY <3>2, <3>3
  <2>11. Readings(log) = [lo |-> Min(S), hi |-> Max(S)]
    BY DEF Readings, Hull, floor, c
  <2> HIDE DEF S
  <2>12. Min(S) <= EAfter(Executed) /\ EAfter(Executed) <= Max(S)
    BY <2>9, <2>10, MinIs, MaxIs
  <2>. QED
    BY <2>11, <2>12 DEF Within
<1>. QED
  BY <1>1, Invariance, PTL

-----------------------------------------------------------------------------
(* Heights. *)

\* Along a move of constant speed a later height is on the far side of an
\* earlier one, and the ends of the move are its heights.
At(z, w, d, x) == z + ((w - z) * x) \div d

LEMMA MulMono ==
  ASSUME NEW k \in Int, NEW x \in Int, NEW y \in Int, x <= y
  PROVE  /\ k >= 0 => k * x <= k * y
         /\ k <= 0 => k * y <= k * x
         /\ k * x \in Int /\ k * y \in Int
OBVIOUS

LEMMA DivMono ==
  ASSUME NEW a \in Int, NEW b \in Int, NEW d \in Int, d > 0, a <= b
  PROVE  a \div d <= b \div d /\ a \div d \in Int /\ b \div d \in Int
BY SMTT(30)

LEMMA DivEnds ==
  ASSUME NEW k \in Int, NEW d \in Int, d > 0
  PROVE  (k * d) \div d = k /\ (k * 0) \div d = 0
BY SMTT(30)

LEMMA AtMono ==
  ASSUME NEW z \in Int, NEW w \in Int, NEW d \in Int, d > 0, NEW x \in Int, NEW y \in Int, x <= y
  PROVE  /\ At(z, w, d, x) \in Int /\ At(z, w, d, y) \in Int
         /\ z <= w => At(z, w, d, x) <= At(z, w, d, y)
         /\ w <= z => At(z, w, d, y) <= At(z, w, d, x)
<1> DEFINE k == w - z
           p == k * x
           q == k * y
<1>1. /\ k \in Int /\ (z <= w => k >= 0) /\ (w <= z => k <= 0)
  OBVIOUS
<1> HIDE DEF k
<1>2. p \in Int /\ q \in Int /\ (k >= 0 => p <= q) /\ (k <= 0 => q <= p)
  BY <1>1, MulMono
<1> HIDE DEF p, q
<1>3. /\ p \div d \in Int /\ q \div d \in Int
      /\ p <= q => p \div d <= q \div d
      /\ q <= p => q \div d <= p \div d
  <2>1. p <= q \/ q <= p
    BY <1>2
  <2>2. p <= q => p \div d <= q \div d /\ p \div d \in Int /\ q \div d \in Int
    BY <1>2, DivMono
  <2>3. q <= p => q \div d <= p \div d /\ p \div d \in Int /\ q \div d \in Int
    BY <1>2, DivMono
  <2>. QED
    BY <2>1, <2>2, <2>3
<1>4. At(z, w, d, x) = z + p \div d /\ At(z, w, d, y) = z + q \div d
  BY DEF At, p, q, k
<1>. QED
  BY <1>1, <1>2, <1>3, <1>4

LEMMA AtEnds ==
  ASSUME NEW z \in Int, NEW w \in Int, NEW d \in Int, d > 0
  PROVE  At(z, w, d, 0) = z /\ At(z, w, d, d) = w
<1> DEFINE k == w - z
<1>1. k \in Int /\ z + k = w /\ z + 0 = z
  OBVIOUS
<1>2. At(z, w, d, 0) = z + (k * 0) \div d /\ At(z, w, d, d) = z + (k * d) \div d
  BY DEF At
<1> HIDE DEF k
<1>. QED
  BY <1>1, <1>2, DivEnds

\* The heights between two moments are between the heights at them.
LEMMA AtWithin ==
  ASSUME NEW z \in Int, NEW w \in Int, NEW d \in Int, d > 0,
         NEW lo \in Int, NEW x \in Int, NEW hi \in Int, lo <= x, x <= hi
  PROVE  Within(Span(At(z, w, d, lo), At(z, w, d, hi)), At(z, w, d, x))
<1> DEFINE a == At(z, w, d, lo)
           b == At(z, w, d, hi)
           v == At(z, w, d, x)
<1>1. /\ a \in Int /\ b \in Int /\ v \in Int
      /\ (z <= w => a <= v /\ v <= b) /\ (w <= z => b <= v /\ v <= a)
  BY AtMono
<1> HIDE DEF a, b, v
<1>2. (a <= v /\ v <= b) \/ (b <= v /\ v <= a)
  BY <1>1
<1>3. /\ Min({a, b}) \in Int /\ Min({a, b}) <= a /\ Min({a, b}) <= b
      /\ Max({a, b}) \in Int /\ a <= Max({a, b}) /\ b <= Max({a, b})
  BY <1>1, MinOfTwo, MaxOfTwo
<1>4. Min({a, b}) <= v /\ v <= Max({a, b})
  BY <1>1, <1>2, <1>3
<1>5. Span(a, b) = [lo |-> Min({a, b}), hi |-> Max({a, b})]
  BY DEF Span
<1>6. Within(Span(a, b), v)
  BY <1>4, <1>5 DEF Within
<1>. QED
  BY <1>6 DEF a, b, v

LEMMA SpanEnds ==
  ASSUME NEW a \in Int, NEW b \in Int
  PROVE  Within(Span(a, b), a) /\ Within(Span(a, b), b)
<1>1. /\ Min({a, b}) <= a /\ Min({a, b}) <= b /\ a <= Max({a, b}) /\ b <= Max({a, b})
  BY MinOfTwo, MaxOfTwo
<1>2. Span(a, b) = [lo |-> Min({a, b}), hi |-> Max({a, b})]
  BY DEF Span
<1>. QED
  BY <1>1, <1>2 DEF Within

\* The height of line i at time t, while it runs.
Along(i, t) == At(ZAfter(i - 1), ZAfter(i), Duration(i), t - start[i])

LEMMA HeightIs ==
  ASSUME IInv
  PROVE  \/ \E i \in 1..Read : start[i] <= now /\ now < End(i) /\ Height = Along(i, now)
         \/ /\ \A i \in 1..Read : start[i] <= now => End(i) <= now
            /\ Height = ZAfter(Executed)
<1> DEFINE moving == {i \in 1..Read : start[i] <= now /\ now < End(i)}
           one == CHOOSE j \in moving : TRUE
<1>1. Height = IF moving = {} THEN ZAfter(Executed) ELSE Along(one, now)
  BY DEF Height, Along, At
<1>2. CASE moving = {}
  <2>1. ASSUME NEW i \in 1..Read, start[i] <= now PROVE End(i) <= now
    <3>1. ~(now < End(i))
      BY <1>2, <2>1
    <3>2. now \in Nat /\ End(i) \in Nat
      BY ReadFacts
    <3>. QED
      BY <3>1, <3>2
  <2>. QED
    BY <1>1, <1>2, <2>1
<1>3. CASE moving # {}
  <2>1. one \in moving
    BY <1>3
  <2> HIDE DEF one
  <2>. QED
    BY <1>1, <1>3, <2>1
<1>. QED
  BY <1>2, <1>3

\* What the extension contributes.
LEMMA LineHeights ==
  ASSUME IInv, NEW log, NEW cut, NEW beat, NEW hasSeq, Cut(log, cut, beat, hasSeq),
         Observed, PerLine(log), NEW a, a = Anchor(log), Consistent(a)
  PROVE  /\ Span(ZAfter(a.done), ZAfter(a.done)) \in Heights(log)
         /\ \A i \in 1..Read : a.done < i /\ start[i] <= now =>
              Span(ZAfter(i - 1), ZAfter(i)) \in Heights(log)
<1> DEFINE z(n) == ZReplayed(a, n)
           c == Consumed(log)
<1>1. /\ a.pos \in Nat /\ a.done \in 0..Read /\ a.pos <= a.done /\ Read \in Nat /\ a.done \in Nat
  <2>1. a.pos \in Nat /\ a.done \in 0..Read /\ a.pos <= a.done
    BY ContextFacts
  <2>2. Read \in Nat
    BY ReadFacts
  <2>. QED
    BY <2>1, <2>2
<1>2. HeightsFromLines(log) = {Span(z(a.pos), z(a.pos))} \cup {Span(z(n - 1), z(n)) : n \in a.pos + 1 .. c}
  BY DEF HeightsFromLines
<1>3. ASSUME NEW n \in Nat PROVE StateAfter(a, n) = IF a.done <= n THEN n ELSE a.done
  <2>1. n \in Int /\ a.done \in Int
    BY <1>1
  <2>2. /\ Max({n, a.done}) \in Int /\ n <= Max({n, a.done}) /\ a.done <= Max({n, a.done})
        /\ Max({n, a.done}) = n \/ Max({n, a.done}) = a.done
    BY <2>1, MaxOfTwo
  <2>. QED
    BY <2>1, <2>2 DEF StateAfter
<1>4. ASSUME NEW n \in Nat, n <= Len(File) PROVE z(n) = IF a.done <= n THEN ZAfter(n) ELSE ZAfter(a.done)
  <2>1. a.done \in 0..Len(File) /\ n \in 0..Len(File)
    BY <1>1, <1>4, ReadFacts
  <2>2. StateAfter(a, n) \in 0..Len(File)
    BY <1>3, <2>1
  <2>3. z(n) = ZAfter(StateAfter(a, n))
    BY <1>1, <2>1, <2>2, NothingIsAdded
  <2>. QED
    BY <1>3, <2>3
<1>6. z(a.pos) = ZAfter(a.done)
  <2>1. Read <= Len(File) /\ Len(File) \in Nat
    BY ReadFacts
  <2>2. a.pos <= Len(File)
    BY <1>1, <2>1
  <2>3. a.done <= a.pos => a.done = a.pos
    BY <1>1
  <2>4. z(a.pos) = IF a.done <= a.pos THEN ZAfter(a.pos) ELSE ZAfter(a.done)
    BY <1>1, <1>4, <2>2
  <2> HIDE DEF z
  <2>. QED
    BY <2>3, <2>4
<1>5. ASSUME NEW i \in 1..Read, a.done < i, start[i] <= now
      PROVE  Span(ZAfter(i - 1), ZAfter(i)) \in HeightsFromLines(log)
  <2>1. Begun(i)
    BY <1>1, <1>5 DEF Begun
  <2>2. c \in 0..Len(File) /\ i <= c /\ Len(File) \in Nat
    BY <2>1, ConsumedReaches, TimeFacts
  <2> HIDE DEF c
  <2>3. /\ i \in a.pos + 1 .. c /\ i \in Nat /\ i - 1 \in Nat /\ a.done <= i - 1 /\ a.done <= i
        /\ i <= Len(File) /\ i - 1 <= Len(File)
    BY <1>1, <1>5, <2>2
  <2>4. z(i - 1) = ZAfter(i - 1) /\ z(i) = ZAfter(i)
    BY <1>4, <2>3
  <2> HIDE DEF z
  <2>. QED
    BY <1>2, <2>3, <2>4
<1> HIDE DEF z, c
<1>. QED
  BY <1>2, <1>5, <1>6 DEF Heights

\* The planned move of a line up to the last known position.
LEMMA RowInLog ==
  ASSUME IInv, NEW log, NEW cut, NEW beat, NEW hasSeq, Cut(log, cut, beat, hasSeq),
         RowsReachTheFrontier(log), NEW i \in 1..Anchor(log).done, Duration(i) > 0
  PROVE  i \in 1..Read /\ \E r \in log.rows : RowOf(r, i)
<1>1. i \in 1..Read
  <2>1. Anchor(log).done \in 0..Read /\ Read \in Nat
    BY ContextFacts, ReadFacts
  <2>. QED
    BY <2>1
<1>2. PICK r \in log.rows : r.from = start[i] /\ r.to = End(i)
  BY DEF RowsReachTheFrontier
<1>3. PICK j \in 1..Read : RowOf(r, j)
  BY RowFacts
<1>4. start[j] = start[i] /\ End(j) = End(i) /\ Duration(j) > 0
  BY <1>2, <1>3 DEF RowOf
<1>5. /\ start[i] \in Nat /\ start[j] \in Nat /\ Duration(i) \in Nat /\ Duration(j) \in Nat
      /\ End(i) = start[i] + Duration(i) /\ End(j) = start[j] + Duration(j)
  BY <1>1, ReadFacts
<1>6. ~(End(i) <= start[j]) /\ ~(End(j) <= start[i])
  BY <1>4, <1>5
<1>7. ~(i < j) /\ ~(j < i)
  BY <1>1, <1>6, Order
<1>8. i = j
  BY <1>1, <1>7
<1>. QED
  BY <1>1, <1>3, <1>8

LEMMA ZAtIs ==
  ASSUME IInv, NEW i, NEW r, RowOf(r, i), NEW t
  PROVE  ZAt(r, t) = Along(i, t)
<1>1. i \in 1..Read /\ r.from = start[i] /\ r.to = End(i) /\ r.z.from = ZAfter(i - 1) /\ r.z.to = ZAfter(i)
  BY DEF RowOf
<1>2. r.to - r.from = Duration(i)
  <2>1. start[i] \in Nat /\ Duration(i) \in Nat /\ End(i) = start[i] + Duration(i)
    BY <1>1, ReadFacts
  <2>. QED
    BY <1>1, <2>1
<1>. QED
  BY <1>1, <1>2 DEF ZAt, Along, At

\* A row covers the heights its line has while motion is followed.
LEMMA RowCovers ==
  ASSUME IInv, NEW log, NEW cut, NEW beat, NEW hasSeq, Cut(log, cut, beat, hasSeq),
         NEW r \in log.rows, NEW i, RowOf(r, i),
         NEW t \in Int, TA(log) <= t, start[i] <= t, t <= EvalEnd(log), t <= End(i)
  PROVE  \E iv \in Heights(log) : Within(iv, Along(i, t))
<1> DEFINE ta == TA(log)
           end == EvalEnd(log)
           lo == Max({ta, r.from})
           hi == Min({end, r.to})
           iv == Span(ZAt(r, lo), ZAt(r, hi))
<1>1. ta \in Int /\ end \in Int
  <2>1. ta \in 0..now
    BY TAIs
  <2>. QED
    BY <2>1, EvalEndIs
<1>2. /\ i \in 1..Read /\ Duration(i) > 0 /\ r.from = start[i] /\ r.to = End(i)
  BY DEF RowOf
<1>3. /\ start[i] \in Int /\ End(i) \in Int /\ Duration(i) \in Int
      /\ ZAfter(i - 1) \in Int /\ ZAfter(i) \in Int
  <2>1. Read \in Nat
    BY ReadFacts
  <2>2. i \in 0..Read /\ i - 1 \in 0..Read
    BY <1>2, <2>1
  <2>3. start[i] \in Nat /\ End(i) \in Nat /\ Duration(i) \in Nat
    BY <1>2, ReadFacts
  <2>4. ZAfter(i - 1) \in Int /\ ZAfter(i) \in Int
    BY <2>2, ReadFacts
  <2>. QED
    BY <2>3, <2>4
<1>4. r.to >= ta /\ r.from <= end
  <2> HIDE DEF ta, end
  <2>. QED
    BY <1>1, <1>2, <1>3 DEF ta, end
<1>5. iv \in HeightsFromRows(log)
  BY <1>4 DEF HeightsFromRows
<1>6. lo \in Int /\ hi \in Int /\ lo <= t /\ t <= hi
  <2>1. r.from \in Int /\ r.to \in Int
    BY <1>2, <1>3
  <2>2. /\ lo \in Int /\ (lo = ta \/ lo = r.from) /\ hi \in Int /\ (hi = end \/ hi = r.to)
    BY <1>1, <2>1, MaxOfTwo, MinOfTwo
  <2> HIDE DEF lo, hi
  <2>. QED
    BY <1>2, <2>2
<1>7. ZAt(r, lo) = Along(i, lo) /\ ZAt(r, hi) = Along(i, hi)
  BY ZAtIs
<1> HIDE DEF lo, hi
<1>8. /\ lo - start[i] \in Int /\ t - start[i] \in Int /\ hi - start[i] \in Int
      /\ lo - start[i] <= t - start[i] /\ t - start[i] <= hi - start[i]
  BY <1>3, <1>6
<1>9. Within(Span(Along(i, lo), Along(i, hi)), Along(i, t))
  BY <1>2, <1>3, <1>8, AtWithin DEF Along
<1>. QED
  BY <1>5, <1>7, <1>9 DEF Heights

\* The machine pauses before a line that was read before the last sample: the
\* height is where the next move that takes time begins, or the last one ended.
LEMMA PauseIsCovered ==
  ASSUME IInv, NEW log, NEW cut, NEW beat, NEW hasSeq, Cut(log, cut, beat, hasSeq),
         Observed, PerLine(log), RowsReachTheFrontier(log), Consistent(Anchor(log)),
         \A i \in 1..Read : start[i] <= now => End(i) <= now,
         Executed < Anchor(log).done
  PROVE  \E iv \in Heights(log) : Within(iv, ZAfter(Executed))
<1> DEFINE E == Executed
           done == Anchor(log).done
           ta == TA(log)
           end == EvalEnd(log)
           G == {i \in E + 1 .. done : TimeAfter(i) > TimeAfter(E)}
<1>1. /\ E \in 0..Read /\ done \in 0..Read /\ Read \in Nat /\ E \in Nat /\ done \in Nat /\ E < done
      /\ \A i \in 1..Read : i <= E <=> End(i) <= now
  <2>1. done \in 0..Read /\ Read \in Nat
    BY ContextFacts, ReadFacts
  <2>. QED
    BY <2>1, ExecutedIs
<1>2. ta \in Int /\ end \in Int /\ now \in Int /\ ta <= now
  <2>1. ta \in 0..now /\ now \in Nat
    BY TAIs, ReadFacts
  <2>. QED
    BY <2>1, EvalEndIs
<1>3. /\ \A n \in 0..Read : TimeAfter(n) \in Nat /\ ZAfter(n) \in Int
      /\ \A x, y \in 0..Read : x <= y => TimeAfter(x) <= TimeAfter(y)
      /\ \A x, y \in 0..Read : TimeAfter(x) = TimeAfter(y) => ZAfter(x) = ZAfter(y)
  <2>1. \A n \in 0..Read : n \in 0..Len(File)
    BY ReadFacts
  <2>. QED
    BY <2>1, TimeFacts
<1>4. \A i \in 1..Read : /\ start[i] \in Nat /\ End(i) \in Nat /\ End(i) = start[i] + Duration(i)
                         /\ Duration(i) \in Nat /\ TimeAfter(i) = TimeAfter(i - 1) + Duration(i)
                         /\ i \in 0..Read /\ i - 1 \in 0..Read /\ i \in Nat
  <2>1. \A i \in 1..Read : i \in 0..Read /\ i - 1 \in 0..Read /\ i \in Nat
    BY <1>1
  <2>. QED
    BY <2>1, ReadFacts
<1>5. CASE G = {}
  <2>1. done \in E + 1 .. done
    BY <1>1
  <2>2. ~(TimeAfter(done) > TimeAfter(E))
    BY <1>5, <2>1
  <2>3. TimeAfter(done) = TimeAfter(E)
    BY <1>1, <1>3, <2>2
  <2>4. ZAfter(done) = ZAfter(E) /\ ZAfter(done) \in Int
    BY <1>1, <1>3, <2>3
  <2>5. Span(ZAfter(done), ZAfter(done)) \in Heights(log)
    BY LineHeights
  <2> HIDE DEF E, done
  <2>6. Within(Span(ZAfter(done), ZAfter(done)), ZAfter(E))
    BY <2>4, SpanEnds
  <2>. QED
    BY <2>5, <2>6 DEF E
<1>6. CASE G # {}
  <2>1. G \in SUBSET Nat
    BY <1>1
  <2>2. PICK g \in G : \A i \in G : g <= i
    <3> HIDE DEF G
    <3>. QED
      BY <1>6, <2>1, LeastNat
  <2>3. g \in E + 1 .. done /\ TimeAfter(g) > TimeAfter(E) /\ g \in 1..done /\ g \in 1..Read /\ g \in Nat
    BY <1>1, <2>2
  <2>4. TimeAfter(g - 1) = TimeAfter(E) /\ g - 1 \in 0..Read
    <3>1. g - 1 \in 0..Read /\ E <= g - 1 /\ g - 1 \in Nat
      BY <1>1, <2>3
    <3>2. TimeAfter(E) <= TimeAfter(g - 1) /\ TimeAfter(E) \in Nat /\ TimeAfter(g - 1) \in Nat
      BY <1>1, <1>3, <3>1
    <3>3. CASE g - 1 = E
      BY <3>1, <3>3
    <3>4. CASE g - 1 # E
      <4>1. g - 1 \in E + 1 .. done /\ g - 1 \notin G
        <5>1. g - 1 \in E + 1 .. done
          BY <1>1, <2>3, <3>1, <3>4
        <5>2. g - 1 \notin G
          <6> HIDE DEF G
          <6>. QED
            BY <2>2, <2>3
        <5>. QED
          BY <5>1, <5>2
      <4>2. ~(TimeAfter(g - 1) > TimeAfter(E))
        BY <4>1
      <4>. QED
        BY <3>1, <3>2, <4>2
    <3>. QED
      BY <3>3, <3>4
  <2>5. ZAfter(g - 1) = ZAfter(E) /\ ZAfter(g - 1) \in Int /\ ZAfter(g) \in Int
    BY <1>1, <1>3, <1>4, <2>3, <2>4
  <2>6. Duration(g) > 0 /\ Duration(g) \in Nat
    BY <1>1, <1>3, <1>4, <2>3, <2>4
  <2>7. now < start[g]
    <3>1. ~(start[g] <= now)
      BY <1>1, <2>3
    <3>. QED
      BY <1>2, <1>4, <2>3, <3>1
  <2>8. PICK r \in log.rows : RowOf(r, g)
    BY <2>3, <2>6, RowInLog
  <2>9. r.from = start[g] /\ r.to = End(g) /\ r.z.from = ZAfter(g - 1) /\ start[g] <= End(g)
    BY <1>4, <2>3, <2>8 DEF RowOf
  \* A row that begins after the pause is that of g or of a later line, ...
  <2>10. ASSUME NEW j \in 1..Read, Duration(j) > 0, E < j PROVE start[g] <= start[j]
    <3>1. ~(j < g)
      <4>1. SUFFICES ASSUME j < g PROVE FALSE
        OBVIOUS
      <4>2. j <= g - 1 /\ E <= j - 1
        BY <1>1, <1>4, <2>3, <2>10, <4>1
      <4>3. TimeAfter(j) <= TimeAfter(g - 1) /\ TimeAfter(E) <= TimeAfter(j - 1)
        BY <1>1, <1>3, <1>4, <2>4, <4>2
      <4>4. /\ TimeAfter(j) = TimeAfter(j - 1) + Duration(j) /\ Duration(j) \in Nat
            /\ TimeAfter(j - 1) \in Nat /\ TimeAfter(E) \in Nat
        BY <1>1, <1>3, <1>4
      <4>. QED
        BY <2>4, <2>10, <4>3, <4>4
    <3>2. g <= j
      BY <1>4, <2>3, <3>1
    <3>. QED
      BY <2>3, <3>2, Order
  <2>11. CASE start[g] <= end
    <3>1. start[g] \in Int /\ ta <= start[g]
      BY <1>2, <1>4, <2>3, <2>7
    <3>2. \E iv \in Heights(log) : Within(iv, Along(g, start[g]))
      BY <2>8, <2>9, <2>11, <3>1, RowCovers
    <3>3. Along(g, start[g]) = ZAfter(g - 1)
      <4>1. start[g] - start[g] = 0
        BY <3>1
      <4>. QED
        BY <2>5, <2>6, <4>1, AtEnds DEF Along
    <3>. QED
      BY <2>5, <3>2, <3>3 DEF E
  <2>12. CASE ~(start[g] <= end)
    <3>1. Collapses(log, TB(log)) /\ now <= end
      <4>1. ~(r.to <= end)
        BY <1>2, <1>4, <2>3, <2>9, <2>12
      <4>. QED
        BY <4>1, EvalEndIs
    <3> DEFINE within == {q \in log.rows : q.to >= ta /\ q.from <= end}
               after == {q \in log.rows : q.to >= ta /\ q.from > end}
    <3>2. CASE \E q \in within : q.to >= end
      <4>1. PICK q \in log.rows : q.from <= end /\ q.to >= end
        BY <3>2
      <4>2. PICK j \in 1..Read : RowOf(q, j)
        BY RowFacts
      <4>3. /\ start[j] <= end /\ end <= End(j) /\ Duration(j) > 0
            /\ start[j] \in Int /\ End(j) \in Int
        BY <1>2, <1>4, <4>1, <4>2 DEF RowOf
      <4>4. j <= E
        <5>1. ~(E < j)
          <6>1. SUFFICES ASSUME E < j PROVE FALSE
            OBVIOUS
          <6>2. start[g] <= start[j]
            BY <2>10, <4>3, <6>1
          <6>. QED
            BY <1>2, <1>4, <2>3, <2>12, <4>3, <6>2
        <5>. QED
          BY <1>1, <1>4, <5>1
      <4>5. End(j) <= now
        BY <1>1, <4>4
      <4>6. End(j) = now /\ end = now
        BY <1>2, <3>1, <4>3, <4>5
      <4>7. ZAfter(j) = ZAfter(E)
        <5>1. E \in 1..Read /\ E # 0
          BY <1>1, <1>4, <4>4
        <5>2. End(E) <= now
          BY <1>1, <5>1
        <5>3. start[j] + (TimeAfter(E - 1) - TimeAfter(j - 1)) <= start[E]
          BY <4>4, <5>1, Order
        <5>4. TimeAfter(j) <= TimeAfter(E)
          BY <1>1, <1>3, <1>4, <4>4
        <5>5. /\ End(j) = start[j] + Duration(j) /\ TimeAfter(j) = TimeAfter(j - 1) + Duration(j)
              /\ start[j] \in Nat /\ Duration(j) \in Nat /\ j - 1 \in 0..Read
          BY <1>4
        <5>6. /\ End(E) = start[E] + Duration(E) /\ TimeAfter(E) = TimeAfter(E - 1) + Duration(E)
              /\ start[E] \in Nat /\ Duration(E) \in Nat /\ E - 1 \in 0..Read
          BY <1>4, <5>1
        <5>7. TimeAfter(j - 1) \in Nat /\ TimeAfter(E - 1) \in Nat
          BY <1>3, <5>5, <5>6
        <5> HIDE DEF E
        <5>8. TimeAfter(E) <= TimeAfter(j)
          BY <1>2, <4>6, <5>2, <5>3, <5>5, <5>6, <5>7
        <5>9. TimeAfter(E) = TimeAfter(j)
          <6>1. TimeAfter(E) \in Nat /\ TimeAfter(j) \in Nat
            BY <5>5, <5>6, <5>7
          <6>. QED
            BY <5>4, <5>8, <6>1
        <5>10. E \in 0..Read /\ j \in 0..Read
          BY <1>1, <1>4, <4>4, <5>1
        <5>. QED
          BY <1>3, <5>9, <5>10
      <4>8. \E iv \in Heights(log) : Within(iv, Along(j, now))
        <5>1. now \in Int /\ TA(log) <= now /\ start[j] <= now /\ now <= EvalEnd(log) /\ now <= End(j)
          BY <1>2, <1>4, <4>3, <4>6
        <5>. QED
          BY <4>2, <5>1, RowCovers
      <4>9. Along(j, now) = ZAfter(j)
        <5>1. now - start[j] = Duration(j) /\ Duration(j) \in Int
          BY <1>4, <4>6
        <5>2. ZAfter(j) \in Int /\ ZAfter(j - 1) \in Int
          BY <1>3, <1>4
        <5>. QED
          BY <4>3, <5>1, <5>2, AtEnds DEF Along
      <4>. QED
        BY <4>7, <4>8, <4>9 DEF E
    <3>3. CASE ~(\E q \in within : q.to >= end)
      <4>1. r \in after
        BY <1>2, <1>4, <2>3, <2>7, <2>9, <2>12
      <4>2. ASSUME NEW q \in after PROVE r.from <= q.from
        <5>1. PICK j \in 1..Read : RowOf(q, j)
          BY RowFacts
        <5>2. q.from = start[j] /\ Duration(j) > 0 /\ start[j] > end /\ start[j] \in Int
              /\ End(j) \in Int /\ start[j] <= End(j)
          BY <1>4, <5>1 DEF RowOf
        <5>3. E < j
          <6>1. ~(End(j) <= now)
            BY <1>2, <3>1, <5>2
          <6>. QED
            BY <1>1, <1>4, <6>1
        <5>. QED
          BY <2>9, <2>10, <5>2, <5>3
      <4>3. Span(r.z.from, r.z.from) \in HeightsFromRows(log)
        <5>1. r \in {x \in after : \A q \in after : x.from <= q.from}
          BY <4>1, <4>2
        <5>. QED
          BY <3>1, <3>3, <5>1 DEF HeightsFromRows
      <4>4. Within(Span(r.z.from, r.z.from), ZAfter(E))
        BY <2>5, <2>9, SpanEnds
      <4>. QED
        BY <4>3, <4>4 DEF Heights, E
    <3>. QED
      BY <3>2, <3>3
  <2>. QED
    BY <2>11, <2>12
<1>. QED
  BY <1>5, <1>6

\* The height the nozzle stopped at (eval_toolhead_span, stopset.rs:970, and
\* extension_z_candidates, stopset.rs:1628) is one of the candidates, whenever
\* the rows reach the last known position, no loss is in the way and the newest
\* sample was not taken within a line that is added a second time.
THEOREM HeightCovered == Spec => []HeightIsCovered
<1>1. IInv => HeightIsCovered
  <2> SUFFICES ASSUME IInv, Observed, NEW log \in Logs, PerLine(log), RowsReachTheFrontier(log),
                      Consistent(Anchor(log))
               PROVE  \E iv \in Heights(log) : Within(iv, Height)
    BY DEF HeightIsCovered
  <2>1. PICK cut, beat, hasSeq : Cut(log, cut, beat, hasSeq)
    BY LogIsCut
  <2> DEFINE done == Anchor(log).done
  <2>2. done \in 0..Read /\ done \in Nat /\ Read \in Nat /\ now \in Int
    <3>1. done \in 0..Read /\ Read \in Nat /\ now \in Nat
      BY <2>1, ContextFacts, ReadFacts
    <3>. QED
      BY <3>1
  <2>3. ASSUME NEW i \in 1..Read, start[i] <= now, now < End(i), Height = Along(i, now)
        PROVE  \E iv \in Heights(log) : Within(iv, Height)
    <3>1. /\ start[i] \in Nat /\ End(i) \in Nat /\ Duration(i) \in Nat /\ End(i) = start[i] + Duration(i)
      BY ReadFacts
    <3>2. Duration(i) > 0
      BY <2>2, <2>3, <3>1
    <3>3. ZAfter(i - 1) \in Int /\ ZAfter(i) \in Int
      <4>1. i \in 0..Read /\ i - 1 \in 0..Read
        BY <2>2
      <4>. QED
        BY <4>1, ReadFacts
    <3>4. CASE done < i
      <4>1. Span(ZAfter(i - 1), ZAfter(i)) \in Heights(log)
        BY <2>1, <2>3, <3>4, LineHeights
      <4> DEFINE x == now - start[i]
                 d == Duration(i)
      <4>2. x \in Int /\ 0 <= x /\ x <= d /\ d \in Int /\ d > 0
        BY <2>2, <2>3, <3>1, <3>2
      <4>3. Height = At(ZAfter(i - 1), ZAfter(i), d, x)
        BY <2>3 DEF Along
      <4> HIDE DEF x, d
      <4>4. Within(Span(At(ZAfter(i - 1), ZAfter(i), d, 0), At(ZAfter(i - 1), ZAfter(i), d, d)), Height)
        <5>1. 0 \in Int /\ 0 <= x /\ x <= d
          BY <4>2
        <5>2. Within(Span(At(ZAfter(i - 1), ZAfter(i), d, 0), At(ZAfter(i - 1), ZAfter(i), d, d)),
                     At(ZAfter(i - 1), ZAfter(i), d, x))
          BY <3>3, <4>2, <5>1, AtWithin
        <5>. QED
          BY <4>3, <5>2
      <4>5. At(ZAfter(i - 1), ZAfter(i), d, 0) = ZAfter(i - 1) /\ At(ZAfter(i - 1), ZAfter(i), d, d) = ZAfter(i)
        BY <3>3, <4>2, AtEnds
      <4>. QED
        BY <4>1, <4>4, <4>5
    <3>5. CASE ~(done < i)
      <4>1. i \in 1..done
        BY <2>2, <3>5
      <4>2. PICK r \in log.rows : RowOf(r, i)
        BY <2>1, <3>2, <4>1, RowInLog
      <4>3. now <= EvalEnd(log)
        <5>1. EvalEnd(log) \in Int /\ ((\A q \in log.rows : q.to <= EvalEnd(log)) \/ now <= EvalEnd(log))
          BY <2>1, EvalEndIs
        <5>2. r.to = End(i)
          BY <4>2 DEF RowOf
        <5>. QED
          BY <2>2, <2>3, <3>1, <4>2, <5>1, <5>2
      <4>4. TA(log) <= now /\ now <= End(i)
        <5>1. TA(log) \in 0..now
          BY <2>1, TAIs
        <5>. QED
          BY <2>2, <2>3, <3>1, <5>1
      <4>5. \E iv \in Heights(log) : Within(iv, Along(i, now))
        BY <2>1, <2>2, <2>3, <4>2, <4>3, <4>4, RowCovers
      <4>. QED
        BY <2>3, <4>5
    <3>. QED
      BY <3>4, <3>5
  <2>4. ASSUME \A i \in 1..Read : start[i] <= now => End(i) <= now, Height = ZAfter(Executed)
        PROVE  \E iv \in Heights(log) : Within(iv, Height)
    <3>1. /\ Executed \in 0..Read /\ Executed \in Nat
          /\ Executed # 0 => start[Executed] <= now
      BY <2>2, ExecutedIs
    <3>2. CASE Executed < done
      BY <2>1, <2>4, <3>2, PauseIsCovered
    <3>3. CASE Executed = done
      <4>1. Span(ZAfter(done), ZAfter(done)) \in Heights(log)
        BY <2>1, LineHeights
      <4>2. ZAfter(done) \in Int
        BY <2>2, ReadFacts
      <4> HIDE DEF done
      <4>3. Within(Span(ZAfter(done), ZAfter(done)), ZAfter(done))
        BY <4>2, SpanEnds
      <4>. QED
        BY <2>4, <3>3, <4>1, <4>3
    <3>4. CASE done < Executed
      <4>1. Executed \in 1..Read /\ Executed # 0 /\ Executed \in 0..Read /\ Executed - 1 \in 0..Read
        BY <2>2, <3>1, <3>4
      <4>2. Span(ZAfter(Executed - 1), ZAfter(Executed)) \in Heights(log)
        BY <2>1, <3>1, <3>4, <4>1, LineHeights
      <4>3. ZAfter(Executed) \in Int /\ ZAfter(Executed - 1) \in Int
        BY <4>1, ReadFacts
      <4>4. Within(Span(ZAfter(Executed - 1), ZAfter(Executed)), ZAfter(Executed))
        BY <4>3, SpanEnds
      <4>. QED
        BY <2>4, <4>2, <4>4
    <3>. QED
      BY <2>2, <3>1, <3>2, <3>3, <3>4
  <2>. QED
    BY <2>3, <2>4, HeightIs
<1>. QED
  BY <1>1, Invariance, PTL

==============================================================================
