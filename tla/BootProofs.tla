----------------------------- MODULE BootProofs -----------------------------
(***************************************************************************)
(* Proofs about boot detection, the pending file and retention (Boot), for *)
(* any number of boots, prints, segments, records, edges and faults.       *)
(*                                                                         *)
(* The log says what happened in order (Ordered), truthfully (Truthful,    *)
(* EndsAreSeen), and where a print moves or ends there is a context that   *)
(* names it in the same klippy session (MotionsAreNamed, EndsAreLinked).   *)
(* From these follows what a reader of any window of it concludes: the     *)
(* crash epoch is one of the newest print seen to move.  That no reboot is *)
(* seen between two segments of a print (HeadersInv) is what keeps the     *)
(* records of a print in one of retention's sessions.                      *)
(***************************************************************************)
EXTENDS Boot, FiniteSetTheorems, SequenceTheorems, WellFoundedInduction, TLAPS

Clocks == (0..MaxTick) \cup {Unreadable}
Recs == [seg : Nat, t : 0..MaxTick, kind : RecordKinds, print : 0..MaxPrints, ended : BOOLEAN]

LogType ==
  /\ \E n \in Nat : DOMAIN log \subseteq 1..n
  /\ log \in [DOMAIN log -> Recs]
  /\ \A i \in DOMAIN log : log[i].seg \in present

SegType ==
  /\ segs \in Nat /\ present \subseteq 1..segs
  /\ created \in Seq(Clocks) /\ Len(created) = segs

\* Segments and prints go forward along the log.
Ordered(l) ==
  \A i, k \in DOMAIN l : i < k =>
    /\ l[i].seg <= l[k].seg
    /\ l[i].print # 0 /\ l[k].print # 0 => l[i].print <= l[k].print

\* What the records of a log say of the prints up to p is so.
Truthful(l, p, f) ==
  \A i \in DOMAIN l :
    /\ l[i].print <= p
    /\ l[i].ended \/ l[i].kind = "clean" => l[i].print # 0 /\ f[l[i].print] = "ended"

Names(l, c, p) == NamesFile(l[c]) /\ l[c].print = p

\* A context after the end of its print says so.
EndsAreSeen(l) ==
  \A i, k \in DOMAIN l :
    i < k /\ l[i].kind = "clean" /\ Names(l, k, l[i].print) => l[k].ended

Unbroken(l, c, i) == \A k \in DOMAIN l : c <= k /\ k < i => l[k].kind # "lost"

\* A motion of a print named before it in its segment follows, in its klippy
\* session, a context that names it.
MotionsAreNamed(l) ==
  \A i, j \in DOMAIN l :
    i < j /\ l[j].kind = "motion" /\ Names(l, i, l[j].print) /\ l[i].seg = l[j].seg =>
      \E c \in DOMAIN l : i <= c /\ c < j /\ Names(l, c, l[j].print) /\ Unbroken(l, c, j)

\* Nothing between the two records of one segment or uptime starts an epoch.
Linked(l, c, i) ==
  /\ Unbroken(l, c, i)
  /\ \A h, k \in DOMAIN l : c <= h /\ h <= k /\ k <= i =>
       l[h].seg = l[k].seg \/ l[h].t <= l[k].t

EndsAreLinked(l, pr) ==
  \A i \in DOMAIN l : l[i].kind = "clean" =>
    \/ \E c \in DOMAIN l : c < i /\ Names(l, c, l[i].print) /\ Linked(l, c, i)
    \/ /\ \E a, b \in pr : l[i].seg < a /\ a < b
       /\ \A c \in DOMAIN l : c < i /\ Names(l, c, l[i].print) => l[c].seg # l[i].seg

SessionInv ==
  sawPrint =>
    /\ Recording /\ Running
    /\ \E c \in DOMAIN log :
         /\ Names(log, c, print)
         /\ \A k \in DOMAIN log : c <= k =>
              /\ log[k].kind # "lost" /\ log[k].t <= now
              /\ \A h \in DOMAIN log : c <= h /\ h <= k => log[h].t <= log[k].t

DisplayInv == onDisplay \in {0, print} /\ (Running => onDisplay = print)

\* No reboot from segment a to segment b.
Straight(cr, a, b) ==
  \A x, y \in a..b : cr[x] \in Nat /\ (x <= y => cr[x] <= cr[y])

HeadersInv ==
  /\ \A i, k \in DOMAIN log :
       log[i].print = log[k].print /\ log[k].print # 0 =>
         Straight(created, log[i].seg, log[k].seg)
  /\ onDisplay # 0 =>
       \A i \in DOMAIN log : log[i].print = onDisplay =>
         /\ Straight(created, log[i].seg, segs)
         /\ \A x \in log[i].seg..segs : created[x] <= now
  /\ Recording => segs \in present /\ created[segs] \in 0..now

WatcherInv ==
  /\ watcher # "armed" => Recording /\ edgeTime \in Edges
  /\ watcher \in {"confirmed", "sidecar"} => edgeTime.t = now

VerdictInv ==
  /\ phase \in {"decided", "applied", "failed"} =>
       \/ verdict = Saying("unread")
       \/ \E complete \in SUBSET spent : verdict = Verdict(Found, sidecar, complete)
  /\ phase = "applied" /\ verdict.kind = "pending" =>
       pending = Offer(verdict.print, verdict.edge)

LogInv ==
  /\ Ordered(log) /\ Truthful(log, print, fate) /\ EndsAreSeen(log)
  /\ MotionsAreNamed(log) /\ EndsAreLinked(log, present)

-----------------------------------------------------------------------------
(* The least and the greatest of a set of numbers. *)

\* A nonempty set of naturals has a least element.
LEMMA LeastNat ==
  ASSUME NEW T \in SUBSET Nat, T # {}
  PROVE  \E x \in T : \A y \in T : x <= y
<1> DEFINE R == {ss \in Nat \X Nat : ss[1] < ss[2]}
<1>1. IsWellFoundedOn(R, Nat)
  BY NatLessThanWellFounded DEF OpToRel
<1>2. PICK x \in T : \A y \in T : ~(<<y, x>> \in R)
  BY <1>1, WFMin
<1>3. ASSUME NEW y \in T PROVE x <= y
  <2>1. y \in Nat /\ x \in Nat /\ <<y, x>> \in Nat \X Nat
    OBVIOUS
  <2>2. ~(y < x)
    BY <1>2, <2>1
  <2>. QED
    BY <2>1, <2>2
<1>. QED
  BY <1>3

\* Latest is the greatest of a bounded set, and 0 if there is none.
LEMMA LatestIs ==
  ASSUME NEW n \in Nat, NEW S, S \subseteq 1..n
  PROVE  /\ Latest(S) \in 0..n
         /\ S = {} => Latest(S) = 0
         /\ S # {} => Latest(S) \in S
         /\ \A x \in S : x <= Latest(S)
<1>1. CASE S = {}
  BY <1>1 DEF Latest
<1>2. CASE S # {}
  <2> DEFINE T == {m \in Nat : \A x \in S : x <= m}
  <2>1. n \in T
    OBVIOUS
  <2>2. PICK m \in T : \A y \in T : m <= y
    <3>1. T \in SUBSET Nat /\ T # {}
      BY <2>1
    <3>. HIDE DEF T
    <3>. QED
      BY <3>1, LeastNat
  <2>3. m \in S
    <3>1. SUFFICES ASSUME m \notin S PROVE FALSE
      OBVIOUS
    <3>2. m \in Nat /\ \A x \in S : x \in Nat /\ x >= 1 /\ x <= m
      BY <2>2
    <3>5. ASSUME NEW x \in S PROVE x <= m - 1
      <4>1. x # m
        BY <3>1
      <4>. QED
        BY <3>2, <4>1
    <3>6. PICK y \in S : TRUE
      BY <1>2
    <3>7. m - 1 \in Nat
      BY <3>2, <3>6
    <3>4. m - 1 \in Nat /\ \A x \in S : x <= m - 1
      BY <3>5, <3>7
    <3>3. m - 1 \in T
      BY <3>4
    <3>. QED
      BY <2>2, <3>2, <3>3
  <2>4. \E i \in S : \A j \in S : j <= i
    BY <2>3
  <2>5. Latest(S) \in S /\ \A j \in S : j <= Latest(S)
    BY <1>2, <2>4 DEF Latest
  <2>6. Latest(S) \in 1..n
    BY <2>5
  <2>. QED
    BY <1>2, <2>5, <2>6
<1>. QED
  BY <1>1, <1>2

\* A member that no member exceeds is the latest.
LEMMA LatestOf ==
  ASSUME NEW n \in Nat, NEW S, S \subseteq 1..n, NEW x \in S, \A y \in S : y <= x
  PROVE  Latest(S) = x
<1>1. Latest(S) \in S /\ x <= Latest(S) /\ Latest(S) <= x
  BY LatestIs
<1>2. Latest(S) \in 1..n /\ x \in 1..n
  BY <1>1
<1>. QED
  BY <1>1, <1>2
-----------------------------------------------------------------------------
(* Epochs of any log. *)

IsLog(w) ==
  /\ \E n \in Nat : DOMAIN w \subseteq 1..n
  /\ \A i \in DOMAIN w : w[i] \in Recs

\* Latest, on a set of a log's record numbers.
LEMMA LatestIn ==
  ASSUME NEW w, IsLog(w), NEW S, S \subseteq DOMAIN w
  PROVE  /\ Latest(S) \in Nat
         /\ S = {} => Latest(S) = 0
         /\ S # {} => Latest(S) \in S
         /\ \A x \in S : x \in Nat \ {0} /\ x <= Latest(S)
<1>1. PICK n \in Nat : DOMAIN w \subseteq 1..n
  BY DEF IsLog
<1>2. S \subseteq 1..n
  BY <1>1
<1>3. \A x \in S : x \in Nat \ {0}
  BY <1>2
<1>. QED
  BY <1>2, <1>3, LatestIs

LEMMA LogNumbers ==
  ASSUME NEW w, IsLog(w), NEW i \in DOMAIN w
  PROVE  i \in Nat \ {0} /\ w[i].t \in Nat /\ w[i].seg \in Nat /\ w[i].print \in Nat
<1>1. w[i] \in Recs /\ i \in Nat \ {0}
  BY DEF IsLog
<1>2. w[i].t \in 0..MaxTick /\ w[i].print \in 0..MaxPrints /\ w[i].seg \in Nat
  BY <1>1 DEF Recs
<1>. QED
  BY <1>1, <1>2, BootAssumption

\* The record before another is the newest of those there are before it.
LEMMA BeforeIs ==
  ASSUME NEW w, IsLog(w), NEW c \in DOMAIN w, NEW k \in DOMAIN w, c < k
  PROVE  Before(w, k) \in DOMAIN w /\ c <= Before(w, k) /\ Before(w, k) < k
<1> DEFINE S == {h \in DOMAIN w : h < k}
<1>1. S \subseteq DOMAIN w /\ c \in S
  OBVIOUS
<1>2. Latest(S) \in S /\ c <= Latest(S)
  BY <1>1, LatestIn
<1>. QED
  BY <1>2 DEF Before

\* Every record is in an epoch.
LEMMA EpochOf ==
  ASSUME NEW w, IsLog(w), NEW i \in DOMAIN w
  PROVE  \E s \in Epochs(w) : i \in Epoch(w, s)
<1>1. \A k \in DOMAIN w : k \in Nat
  BY LogNumbers
<1>2. PICK m \in DOMAIN w : \A k \in DOMAIN w : m <= k
  <2>1. DOMAIN w \in SUBSET Nat /\ DOMAIN w # {}
    BY <1>1
  <2>. QED
    BY <2>1, LeastNat
<1>3. {k \in DOMAIN w : k < m} = {}
  BY <1>1, <1>2
<1>4. Before(w, m) = 0
  BY <1>3, LatestIn DEF Before
<1>5. m \in Epochs(w)
  BY <1>4 DEF Epochs, NewEpoch
<1> DEFINE S == {k \in Epochs(w) : k <= i}
<1>6. S \subseteq DOMAIN w /\ m \in S
  BY <1>2, <1>5 DEF Epochs
<1>7. Latest(S) \in S /\ \A k \in S : k <= Latest(S)
  BY <1>6, LatestIn
<1>8. ASSUME NEW k \in Epochs(w), k > Latest(S) PROVE i < k
  <2>1. k \in Nat /\ i \in Nat /\ Latest(S) \in Nat
    BY <1>1, <1>6, <1>7 DEF Epochs
  <2>2. k \notin S
    BY <1>7, <1>8, <2>1
  <2>. QED
    BY <2>1, <2>2
<1>9. i \in Epoch(w, Latest(S))
  BY <1>7, <1>8 DEF Epoch
<1>. QED
  BY <1>7, <1>9

\* A record linked to one of an epoch is in it too.
LEMMA LinkedEpoch ==
  ASSUME NEW w, IsLog(w), NEW s \in Epochs(w), NEW c \in Epoch(w, s),
         NEW i \in DOMAIN w, c <= i, Linked(w, c, i)
  PROVE  i \in Epoch(w, s)
<1>1. c \in DOMAIN w /\ s <= c /\ s \in DOMAIN w /\ \A k \in Epochs(w) : k > s => c < k
  BY DEF Epoch, Epochs
<1>2. c \in Nat /\ s \in Nat /\ i \in Nat
  BY <1>1, LogNumbers
<1>3. ASSUME NEW k \in Epochs(w), k > s, ~(i < k) PROVE FALSE
  <2>1. k \in DOMAIN w /\ NewEpoch(w, k) /\ c < k
    BY <1>1, <1>3 DEF Epochs
  <2>2. k \in Nat /\ k <= i
    BY <2>1, <1>2, <1>3, LogNumbers
  <2> DEFINE b == Before(w, k)
  <2>3. b \in DOMAIN w /\ c <= b /\ b < k
    BY <1>1, <2>1, BeforeIs
  <2>4. b \in Nat \ {0} /\ w[b].t \in Nat /\ w[k].t \in Nat
    BY <2>1, <2>3, LogNumbers
  <2>5. b <= k /\ b < i
    BY <1>2, <2>2, <2>3, <2>4
  <2>6. w[b].seg = w[k].seg \/ w[b].t <= w[k].t
    BY <2>1, <2>2, <2>3, <2>5 DEF Linked
  <2>7. w[b].kind # "lost"
    BY <2>3, <2>5 DEF Linked, Unbroken
  <2>. QED
    BY <2>1, <2>4, <2>6, <2>7 DEF NewEpoch
<1>4. s <= i
  BY <1>1, <1>2
<1>. QED
  BY <1>3, <1>4 DEF Epoch

\* The crash epoch names a file, and so does none after it.
LEMMA CrashEpochIs ==
  ASSUME NEW w, IsLog(w), NEW c \in DOMAIN w, NamesFile(w[c])
  PROVE  \E s \in Epochs(w) :
           /\ CrashEpoch(w) = Epoch(w, s)
           /\ \E x \in Epoch(w, s) : NamesFile(w[x])
           /\ \A d \in DOMAIN w : NamesFile(w[d]) => d \in Epoch(w, s) \/ d < s
<1>1. Printing(w) # {}
  BY EpochOf DEF Printing
<1>2. Printing(w) \subseteq DOMAIN w
  BY DEF Printing, Epochs
<1> DEFINE s == Latest(Printing(w))
<1>3. s \in Printing(w) /\ \A k \in Printing(w) : k <= s
  BY <1>1, <1>2, LatestIn
<1>4. CrashEpoch(w) = Epoch(w, s)
  BY <1>1 DEF CrashEpoch
<1>5. ASSUME NEW d \in DOMAIN w, NamesFile(w[d]) PROVE d \in Epoch(w, s) \/ d < s
  <2>1. PICK r \in Epochs(w) : d \in Epoch(w, r)
    BY EpochOf
  <2>2. r \in Printing(w)
    BY <2>1, <1>5 DEF Printing
  <2>3. r \in Nat /\ s \in Nat /\ r <= s
    BY <1>2, <1>3, <2>2, LogNumbers
  <2>4. r = s \/ s > r
    BY <2>3
  <2>5. s \in Epochs(w)
    BY <1>3 DEF Printing
  <2>. QED
    BY <2>1, <2>4, <2>5 DEF Epoch
<1>6. s \in Epochs(w) /\ \E x \in Epoch(w, s) : NamesFile(w[x])
  BY <1>3 DEF Printing
<1>. QED
  BY <1>4, <1>5, <1>6
-----------------------------------------------------------------------------
(* The window of a log that detection reads. *)

LEMMA WindowIs ==
  ASSUME NEW l, IsLog(l), NEW pr
  PROVE  /\ IsLog(Window(l, pr))
         /\ DOMAIN Window(l, pr) \subseteq DOMAIN l
         /\ \A i \in DOMAIN Window(l, pr) : Window(l, pr)[i] = l[i]
BY DEF Window, IsLog

\* The window ends where the log does.
LEMMA WindowIsASuffix ==
  ASSUME NEW l, IsLog(l), Ordered(l), NEW pr, pr \subseteq Nat, IsFiniteSet(pr),
         NEW i \in DOMAIN Window(l, pr), NEW k \in DOMAIN l, i <= k
  PROVE  k \in DOMAIN Window(l, pr)
<1> DEFINE Newer(r) == {s \in pr : s > r.seg}
<1>1. i \in DOMAIN l /\ Cardinality(Newer(l[i])) < SegmentLimit
  BY DEF Window
<1>2. l[i].seg \in Nat /\ l[k].seg \in Nat /\ i \in Nat /\ k \in Nat
  BY <1>1, LogNumbers
<1>3. l[i].seg <= l[k].seg
  BY <1>1, <1>2 DEF Ordered
<1>4. ASSUME NEW s \in pr, s > l[k].seg PROVE s > l[i].seg
  <2>1. s \in Nat
    OBVIOUS
  <2>. QED
    BY <1>2, <1>3, <1>4, <2>1
<1>5. IsFiniteSet(Newer(l[i])) /\ IsFiniteSet(Newer(l[k]))
  BY FS_Subset
<1>6. Cardinality(Newer(l[k])) <= Cardinality(Newer(l[i]))
  <2>1. Newer(l[k]) \subseteq Newer(l[i])
    BY <1>4
  <2>. QED
    BY <1>5, <2>1, FS_Subset
<1>7. Cardinality(Newer(l[k])) \in Nat /\ Cardinality(Newer(l[i])) \in Nat
  BY <1>5, FS_CardinalityType
<1>8. Cardinality(Newer(l[k])) < SegmentLimit
  BY <1>1, <1>6, <1>7, BootAssumption
<1>. QED
  BY <1>8 DEF Window

LEMMA ThreeElements ==
  ASSUME NEW a, NEW b, NEW c, a # b, a # c, b # c
  PROVE  Cardinality({a, b, c}) = 3
<1>1. IsFiniteSet({a}) /\ Cardinality({a}) = 1
  BY FS_Singleton
<1>2. {a} \cup {b} = {a, b}
  OBVIOUS
<1>3. b \notin {a}
  OBVIOUS
<1>4. IsFiniteSet({a, b}) /\ Cardinality({a, b}) = 2
  BY <1>1, <1>2, <1>3, FS_AddElement
<1>5. {a, b} \cup {c} = {a, b, c}
  OBVIOUS
<1>6. c \notin {a, b}
  OBVIOUS
<1>7. Cardinality({a, b} \cup {c}) = Cardinality({a, b}) + 1
  BY <1>4, <1>6, FS_AddElement
<1>. QED
  BY <1>4, <1>5, <1>7

\* What lies before three segments is out of it.
LEMMA OutOfTheWindow ==
  ASSUME NEW l, IsLog(l), NEW pr, pr \subseteq Nat, IsFiniteSet(pr),
         NEW k \in DOMAIN l, NEW a \in pr, NEW b \in pr, NEW c \in pr,
         l[k].seg < a, a < b, b < c
  PROVE  k \notin DOMAIN Window(l, pr)
<1> DEFINE Newer == {s \in pr : s > l[k].seg}
<1>1. l[k].seg \in Nat /\ a \in Nat /\ b \in Nat /\ c \in Nat
  BY LogNumbers
<1>2. {a, b, c} \subseteq Newer /\ a # b /\ a # c /\ b # c
  BY <1>1
<1>3. IsFiniteSet(Newer)
  BY FS_Subset
<1>4. Cardinality({a, b, c}) = 3
  BY <1>2, ThreeElements
<1>5. 3 <= Cardinality(Newer) /\ Cardinality(Newer) \in Nat
  BY <1>2, <1>3, <1>4, FS_Subset, FS_CardinalityType
<1>6. ~(Cardinality(Newer) < SegmentLimit)
  BY <1>5, BootAssumption
<1>. QED
  BY <1>6 DEF Window
-----------------------------------------------------------------------------
(* What detection makes of a print that moved. *)

\* A marker in the tail of an epoch comes after each motion of it.
LEMMA TailMarker ==
  ASSUME NEW w, IsLog(w), NEW e, e \subseteq DOMAIN w, NEW kind,
         InTail(w, e, kind), NEW j \in DOMAIN w,
         (j \in e /\ w[j].kind = "motion") \/ \A x \in e : j < x
  PROVE  \E k \in e : w[k].kind = kind /\ j < k
<1> DEFINE C == Of(w, e, kind)
           M == Of(w, e, "motion")
<1>1. C \subseteq DOMAIN w /\ M \subseteq DOMAIN w
  BY DEF Of
<1>2. Latest(M) \in Nat /\ Latest(C) \in Nat /\ Latest(C) > Latest(M)
  BY <1>1, LatestIn DEF InTail
<1>3. C # {}
  BY <1>1, <1>2, LatestIn
<1>4. Latest(C) \in C
  BY <1>1, <1>3, LatestIn
<1>5. j < Latest(C)
  <2>1. CASE j \in e /\ w[j].kind = "motion"
    <3>1. j \in M
      BY <2>1 DEF Of
    <3>2. j \in Nat /\ j <= Latest(M)
      BY <1>1, <3>1, LatestIn
    <3>. QED
      BY <1>2, <3>2
  <2>2. CASE \A x \in e : j < x
    BY <1>4, <2>2 DEF Of
  <2>. QED
    BY <2>1, <2>2
<1>. QED
  BY <1>4, <1>5 DEF Of

\* The context before a motion of a print that did not end is in its epoch,
\* which is the crash epoch or one before it.
LEMMA MotionInEpoch ==
  ASSUME NEW l, IsLog(l), Ordered(l), MotionsAreNamed(l),
         NEW pr, pr \subseteq Nat, IsFiniteSet(pr), NEW p \in Nat \ {0},
         NEW j \in Moved(Window(l, pr), p)
  PROVE  \E s \in Epochs(Window(l, pr)), c \in DOMAIN Window(l, pr) :
           /\ CrashEpoch(Window(l, pr)) = Epoch(Window(l, pr), s)
           /\ \E x \in Epoch(Window(l, pr), s) : NamesFile(Window(l, pr)[x])
           /\ Names(Window(l, pr), c, p) /\ c < j
           /\ \/ {c, j} \subseteq Epoch(Window(l, pr), s)
              \/ \A x \in Epoch(Window(l, pr), s) : j < x
<1> DEFINE w == Window(l, pr)
<1>1. IsLog(w) /\ DOMAIN w \subseteq DOMAIN l /\ \A i \in DOMAIN w : w[i] = l[i]
  BY WindowIs
<1>2. j \in DOMAIN w /\ w[j].kind = "motion" /\ w[j].print = p
  BY DEF Moved
<1>3. PICK i \in DOMAIN w : i < j /\ Names(w, i, p) /\ w[i].seg = w[j].seg
  BY DEF Moved, Names
<1>4. PICK c \in DOMAIN l : i <= c /\ c < j /\ Names(l, c, p) /\ Unbroken(l, c, j)
  <2>1. Names(l, i, l[j].print) /\ l[i].seg = l[j].seg /\ l[j].kind = "motion" /\ l[j].print = p
    BY <1>1, <1>2, <1>3 DEF Names
  <2>. QED
    BY <1>1, <1>2, <1>3, <2>1 DEF MotionsAreNamed
<1>5. c \in DOMAIN w
  BY <1>3, <1>4, WindowIsASuffix
<1>6. Names(w, c, p)
  BY <1>1, <1>4, <1>5 DEF Names
<1>7. i \in Nat /\ c \in Nat /\ j \in Nat
  BY <1>1, <1>2, <1>3, <1>5, LogNumbers
<1>8. \A h \in DOMAIN w : i <= h /\ h <= j => w[h].seg = w[j].seg
  <2>1. SUFFICES ASSUME NEW h \in DOMAIN w, i <= h, h <= j PROVE w[h].seg = w[j].seg
    OBVIOUS
  <2>2. h \in Nat /\ w[h].seg \in Nat /\ w[i].seg \in Nat /\ w[j].seg \in Nat
    BY <1>1, <1>2, <1>3, LogNumbers
  <2>3. (i = h \/ w[i].seg <= w[h].seg) /\ (h = j \/ w[h].seg <= w[j].seg)
    BY <1>1, <1>2, <1>3, <1>7, <2>1, <2>2 DEF Ordered
  <2>. QED
    BY <1>3, <2>2, <2>3
<1>9. Linked(w, c, j)
  <2>1. Unbroken(w, c, j)
    BY <1>1, <1>4 DEF Unbroken
  <2>2. ASSUME NEW h \in DOMAIN w, NEW k \in DOMAIN w, c <= h, h <= k, k <= j
        PROVE  w[h].seg = w[k].seg
    <3>1. h \in Nat /\ k \in Nat
      BY <1>1, LogNumbers
    <3>2. i <= h /\ h <= j /\ i <= k /\ k <= j
      BY <1>4, <1>7, <2>2, <3>1
    <3>. QED
      BY <1>8, <3>2
  <2>. QED
    BY <2>1, <2>2 DEF Linked
<1>10. PICK s \in Epochs(w) :
          /\ CrashEpoch(w) = Epoch(w, s)
          /\ \E x \in Epoch(w, s) : NamesFile(w[x])
          /\ c \in Epoch(w, s) \/ c < s
  <2>1. NamesFile(w[c])
    BY <1>6 DEF Names
  <2>. QED
    BY <1>1, <1>5, <2>1, CrashEpochIs
<1>11. CASE c \in Epoch(w, s)
  <2>1. j \in Epoch(w, s)
    BY <1>1, <1>2, <1>4, <1>7, <1>9, <1>11, LinkedEpoch
  <2>. QED
    BY <1>4, <1>5, <1>6, <1>10, <1>11, <2>1
<1>12. CASE c < s
  <2>1. PICK r \in Epochs(w) : c \in Epoch(w, r)
    BY <1>1, <1>5, EpochOf
  <2>2. j \in Epoch(w, r)
    BY <1>1, <1>2, <1>4, <1>7, <1>9, <2>1, LinkedEpoch
  <2>3. r \in Nat /\ s \in Nat /\ r <= c
    BY <1>1, <2>1, LogNumbers DEF Epochs, Epoch
  <2>4. j < s
    BY <1>7, <1>12, <2>2, <2>3 DEF Epoch
  <2>5. \A x \in Epoch(w, s) : x \in Nat /\ s <= x
    BY <1>1, LogNumbers DEF Epoch
  <2>6. \A x \in Epoch(w, s) : j < x
    BY <1>7, <2>3, <2>4, <2>5
  <2>. QED
    BY <1>4, <1>5, <1>6, <1>10, <2>6
<1>. QED
  BY <1>10, <1>11, <1>12

\* The newest naming context of an epoch.
LEMMA NewestNamingIs ==
  ASSUME NEW w, IsLog(w), NEW e, e \subseteq DOMAIN w
  PROVE  /\ NewestNaming(w, e) \in Nat
         /\ NewestNaming(w, e) # 0 =>
              NewestNaming(w, e) \in e /\ NamesFile(w[NewestNaming(w, e)])
         /\ \A x \in e : NamesFile(w[x]) =>
              x <= NewestNaming(w, e) /\ NewestNaming(w, e) # 0
<1> DEFINE S == {i \in e : NamesFile(w[i])}
<1>1. S \subseteq DOMAIN w
  OBVIOUS
<1>2. Latest(S) \in Nat /\ (Latest(S) # 0 => Latest(S) \in S)
  BY <1>1, LatestIn
<1>3. \A x \in S : x <= Latest(S) /\ Latest(S) # 0
  BY <1>1, LatestIn
<1>. QED
  BY <1>2, <1>3 DEF NewestNaming

\* A print that moved and did not end is what detection decides upon: it is
\* offered, unless plrd was stopped later.
LEMMA MotionDecides ==
  ASSUME NEW l, IsLog(l), Ordered(l), MotionsAreNamed(l),
         NEW pr, pr \subseteq Nat, IsFiniteSet(pr), NEW p \in Nat \ {0},
         NEW f, Truthful(l, p, f), f[p] # "ended",
         NEW edge, NEW complete, p \notin complete,
         NEW j \in Moved(Window(l, pr), p)
  PROVE  \/ Verdict(Window(l, pr), edge, complete) =
              [kind |-> "pending", print |-> p,
               edge |-> Admitted(Window(l, pr), CrashEpoch(Window(l, pr)), edge)]
         \/ /\ Verdict(Window(l, pr), edge, complete) = Saying("stopped")
            /\ \E k \in DOMAIN Window(l, pr) : j < k /\ Window(l, pr)[k].kind = "stopped"
<1> DEFINE w == Window(l, pr)
           e == CrashEpoch(w)
           named == NewestNaming(w, e)
<1>1. IsLog(w) /\ DOMAIN w \subseteq DOMAIN l /\ \A i \in DOMAIN w : w[i] = l[i]
  BY WindowIs
<1>0. PICK s \in Epochs(w), c \in DOMAIN w :
        /\ CrashEpoch(w) = Epoch(w, s)
        /\ \E x \in Epoch(w, s) : NamesFile(w[x])
        /\ Names(w, c, p) /\ c < j
        /\ \/ {c, j} \subseteq Epoch(w, s)
           \/ \A x \in Epoch(w, s) : j < x
  BY MotionInEpoch
<1>2. /\ e = Epoch(w, s)
      /\ \E x \in e : NamesFile(w[x])
      /\ Names(w, c, p) /\ c < j
      /\ {c, j} \subseteq e \/ \A x \in e : j < x
  BY <1>0
<1>3. e \subseteq DOMAIN w
  BY <1>2 DEF Epoch
<1>4. j \in DOMAIN w /\ w[j].kind = "motion" /\ w[j].print = p /\ j \in Nat /\ c \in Nat
  BY <1>1, <1>2, LogNumbers DEF Moved
<1>5. \A x \in DOMAIN w : c <= x /\ w[x].print # 0 => w[x].print = p
  <2>1. SUFFICES ASSUME NEW x \in DOMAIN w, c <= x, w[x].print # 0 PROVE w[x].print = p
    OBVIOUS
  <2>2. x \in Nat /\ w[x].print \in Nat /\ w[c].print = p
    BY <1>1, <1>2, LogNumbers DEF Names
  <2>3. w[x].print <= p
    BY <1>1 DEF Truthful
  <2>4. c = x \/ p <= w[x].print
    BY <1>1, <1>4, <2>1, <2>2 DEF Ordered
  <2>. QED
    BY <2>2, <2>3, <2>4
<1>6. \A x \in DOMAIN w : w[x].ended \/ w[x].kind = "clean" => w[x].print # 0 /\ w[x].print # p
  BY <1>1 DEF Truthful
<1>7. named \in e /\ NamesFile(w[named]) /\ named # 0
  BY <1>1, <1>2, <1>3, NewestNamingIs
<1>8. c <= named
  <2>1. named \in Nat
    BY <1>1, <1>3, <1>7, LogNumbers
  <2>2. CASE {c, j} \subseteq e
    <3>1. c \in e /\ NamesFile(w[c])
      BY <1>2, <2>2 DEF Names
    <3>. QED
      BY <1>1, <1>3, <3>1, NewestNamingIs
  <2>3. CASE \A x \in e : j < x
    <3>1. j < named
      BY <1>7, <2>3
    <3>. QED
      BY <1>2, <1>4, <2>1, <3>1
  <2>. QED
    BY <1>2, <2>2, <2>3
<1>9. w[named].print = p /\ ~w[named].ended
  <2>1. named \in DOMAIN w /\ w[named].print # 0
    BY <1>3, <1>7 DEF NamesFile
  <2>. QED
    BY <1>5, <1>6, <1>8, <2>1
<1>10. (j \in e /\ w[j].kind = "motion") \/ \A x \in e : j < x
  BY <1>2, <1>4
<1>11. ~InTail(w, e, "clean")
  <2>1. SUFFICES ASSUME InTail(w, e, "clean") PROVE FALSE
    OBVIOUS
  <2>2. PICK k \in e : w[k].kind = "clean" /\ j < k
    BY <1>1, <1>3, <1>4, <1>10, <2>1, TailMarker
  <2>3. k \in DOMAIN w /\ k \in Nat /\ c <= k
    BY <1>1, <1>2, <1>3, <1>4, <2>2, LogNumbers
  <2>. QED
    BY <1>5, <1>6, <2>2, <2>3
<1>12. DOMAIN w # {}
  BY <1>4
<1>13. CASE InTail(w, e, "stopped")
  <2>1. PICK k \in e : w[k].kind = "stopped" /\ j < k
    BY <1>1, <1>3, <1>4, <1>10, <1>13, TailMarker
  <2>2. Verdict(w, edge, complete) = Saying("stopped")
    BY <1>7, <1>9, <1>11, <1>12, <1>13 DEF Verdict
  <2>. QED
    BY <1>3, <2>1, <2>2
<1>14. CASE ~InTail(w, e, "stopped")
  <2>1. Verdict(w, edge, complete) =
          [kind |-> IF w[named].print \in complete THEN "complete" ELSE "pending",
           print |-> w[named].print, edge |-> Admitted(w, e, edge)]
    BY <1>7, <1>9, <1>11, <1>12, <1>14 DEF Verdict
  <2>. QED
    BY <1>9, <2>1
<1>. QED
  BY <1>13, <1>14
-----------------------------------------------------------------------------
(* What detection makes of a print whose end was journaled. *)

LEMMA LinkedLater ==
  ASSUME NEW l, IsLog(l), NEW c \in DOMAIN l, NEW d \in DOMAIN l, NEW i \in DOMAIN l,
         c <= d, Linked(l, c, i)
  PROVE  Linked(l, d, i)
<1>1. \A k \in DOMAIN l : k \in Nat
  BY LogNumbers
<1>2. \A k \in DOMAIN l : d <= k => c <= k
  BY <1>1
<1>. QED
  BY <1>2 DEF Linked, Unbroken

\* Epochs of a window that lie after one of its records are the log's.
LEMMA LaterEpochs ==
  ASSUME NEW l, IsLog(l), Ordered(l), NEW pr, pr \subseteq Nat, IsFiniteSet(pr),
         NEW i \in DOMAIN Window(l, pr), NEW k \in Epochs(l), i < k
  PROVE  k \in Epochs(Window(l, pr))
<1> DEFINE w == Window(l, pr)
           b == Before(l, k)
<1>1. IsLog(w) /\ DOMAIN w \subseteq DOMAIN l /\ \A h \in DOMAIN w : w[h] = l[h]
  BY WindowIs
<1>2. k \in DOMAIN l /\ NewEpoch(l, k)
  BY DEF Epochs
<1>3. \A h \in DOMAIN l : h \in Nat \ {0}
  BY LogNumbers
<1>4. b \in DOMAIN l /\ i <= b /\ b < k
  BY <1>1, <1>2, BeforeIs
<1>5. k \in DOMAIN w /\ b \in DOMAIN w
  <2>1. i <= k
    BY <1>1, <1>2, <1>3
  <2>2. k \in DOMAIN w
    BY <1>2, <2>1, WindowIsASuffix
  <2>3. b \in DOMAIN w
    BY <1>4, WindowIsASuffix
  <2>. QED
    BY <2>2, <2>3
<1>6. Before(w, k) = b
  <2>1. b <= Before(w, k) /\ Before(w, k) \in DOMAIN w /\ Before(w, k) < k
    BY <1>1, <1>4, <1>5, BeforeIs
  <2>2. Before(w, k) <= b
    BY <1>1, <1>2, <2>1, BeforeIs
  <2>3. Before(w, k) \in Nat /\ b \in Nat
    BY <1>1, <1>3, <1>4, <2>1
  <2>. QED
    BY <2>1, <2>2, <2>3
<1>7. NewEpoch(w, k)
  BY <1>1, <1>2, <1>3, <1>5, <1>6 DEF NewEpoch
<1>. QED
  BY <1>5, <1>7 DEF Epochs

\* Only a motion after its end makes detection offer a print that ended.
LEMMA EndDecides ==
  ASSUME NEW l, IsLog(l), Ordered(l), EndsAreSeen(l),
         NEW pr, pr \subseteq Nat, IsFiniteSet(pr), EndsAreLinked(l, pr),
         \A k \in DOMAIN l : l[k].seg \in pr,
         NEW edge, NEW complete, Verdict(Window(l, pr), edge, complete).kind = "pending",
         NEW s \in Epochs(l), NEW i \in Epoch(l, s), l[i].kind = "clean",
         l[i].print = Verdict(Window(l, pr), edge, complete).print
  PROVE  \E j \in Epoch(l, s) : j > i /\ l[j].kind = "motion"
<1> DEFINE w == Window(l, pr)
           e == CrashEpoch(w)
           named == NewestNaming(w, e)
           p == l[i].print
<1>1. IsLog(w) /\ DOMAIN w \subseteq DOMAIN l /\ \A k \in DOMAIN w : w[k] = l[k]
  BY WindowIs
<1>2. i \in DOMAIN l /\ \A k \in DOMAIN l : k \in Nat \ {0}
  BY LogNumbers DEF Epoch
<1>3. /\ ~InTail(w, e, "clean") /\ named # 0
      /\ ~w[named].ended /\ p = w[named].print
  BY DEF Verdict, Saying, NoVerdict
<1>4. e \subseteq DOMAIN w
  BY DEF CrashEpoch, Epoch
<1>5. named \in e /\ named \in DOMAIN w /\ NamesFile(w[named])
  BY <1>1, <1>3, <1>4, NewestNamingIs
<1>6. Names(l, named, p) /\ ~l[named].ended
  BY <1>1, <1>3, <1>5 DEF Names
<1>7. named < i
  <2>1. named # i
    BY <1>6 DEF Names, NamesFile, IsContext
  <2>2. ~(i < named)
    BY <1>1, <1>2, <1>5, <1>6 DEF EndsAreSeen
  <2>. QED
    BY <1>1, <1>2, <1>5, <2>1, <2>2
<1>8. PICK r \in Epochs(w) :
        /\ e = Epoch(w, r)
        /\ \A d \in DOMAIN w : NamesFile(w[d]) => d \in Epoch(w, r) \/ d < r
  BY <1>1, <1>5, CrashEpochIs
<1>9. r \in DOMAIN w /\ r <= named
  BY <1>5, <1>8 DEF Epoch, Epochs
<1>10. i \in DOMAIN w
  <2>1. named <= i
    BY <1>1, <1>2, <1>5, <1>7
  <2>. QED
    BY <1>2, <1>5, <2>1, WindowIsASuffix
<1>11. i \in e
  <2>1. CASE \E c \in DOMAIN l : c < i /\ Names(l, c, p) /\ Linked(l, c, i)
    <3>1. PICK c \in DOMAIN l : c < i /\ Names(l, c, p) /\ Linked(l, c, i)
      BY <2>1
    <3>2. PICK d \in DOMAIN l : d \in {c, named} /\ c <= d /\ named <= d
      BY <1>1, <1>2, <1>5, <3>1
    <3>3. d < i /\ Names(l, d, p) /\ Linked(l, d, i)
      BY <1>2, <1>6, <1>7, <3>1, <3>2, LinkedLater
    <3>4. d \in DOMAIN w
      BY <1>5, <3>2, WindowIsASuffix
    <3>5. NamesFile(w[d])
      BY <1>1, <3>3, <3>4 DEF Names
    <3>6. ~(d < r)
      BY <1>1, <1>2, <1>5, <1>9, <3>2
    <3>7. d \in Epoch(w, r)
      BY <1>8, <3>4, <3>5, <3>6
    <3>8. Linked(w, d, i)
      BY <1>1, <1>10, <3>3, <3>4 DEF Linked, Unbroken
    <3>9. d <= i
      BY <1>2, <3>3
    <3>. QED
      BY <1>1, <1>8, <1>10, <3>7, <3>8, <3>9, LinkedEpoch
  <2>2. CASE /\ \E a, b \in pr : l[i].seg < a /\ a < b
             /\ \A c \in DOMAIN l : c < i /\ Names(l, c, p) => l[c].seg # l[i].seg
    <3>1. PICK a \in pr, b \in pr : l[i].seg < a /\ a < b
      BY <2>2
    <3>2. l[named].seg # l[i].seg /\ l[named].seg <= l[i].seg
      BY <1>1, <1>2, <1>5, <1>6, <1>7, <2>2 DEF Ordered
    <3>3. l[named].seg \in Nat /\ l[i].seg \in Nat /\ l[i].seg \in pr
      BY <1>1, <1>2, <1>5, LogNumbers
    <3>4. l[named].seg < l[i].seg
      BY <3>2, <3>3
    <3>5. named \notin DOMAIN w
      BY <1>1, <1>5, <3>1, <3>3, <3>4, OutOfTheWindow
    <3>. QED
      BY <1>5, <3>5
  <2>. QED
    BY <1>2, <2>1, <2>2 DEF EndsAreLinked
<1> DEFINE j == Latest(Of(w, e, "motion"))
<1>12. j \in e /\ w[j].kind = "motion" /\ i <= j
  <2>1. Of(w, e, "motion") \subseteq DOMAIN w /\ Of(w, e, "clean") \subseteq DOMAIN w
    BY <1>4 DEF Of
  <2>2. i \in Of(w, e, "clean")
    BY <1>1, <1>10, <1>11 DEF Of
  <2>3. i <= Latest(Of(w, e, "clean")) /\ Latest(Of(w, e, "clean")) \in Nat /\ j \in Nat
    BY <1>1, <2>1, <2>2, LatestIn
  <2>4. Latest(Of(w, e, "clean")) <= j
    BY <1>3, <2>3 DEF InTail
  <2>5. i <= j /\ j # 0
    BY <1>2, <2>3, <2>4
  <2>6. j \in Of(w, e, "motion")
    BY <1>1, <2>1, <2>5, LatestIn
  <2>. QED
    BY <2>5, <2>6 DEF Of
<1>13. j \in DOMAIN l /\ l[j].kind = "motion" /\ j \in DOMAIN w
  BY <1>1, <1>4, <1>12
<1> HIDE DEF j
<1>14. i < j
  <2>1. i # j
    BY <1>13
  <2>. QED
    BY <1>2, <1>12, <1>13, <2>1
<1>15. ASSUME NEW k \in Epochs(l), k > s PROVE j < k
  <2>1. k \in DOMAIN l /\ k \in Nat /\ s \in Nat /\ r \in Nat /\ named \in Nat
    BY <1>1, <1>2, <1>5, <1>9 DEF Epochs
  <2>2. i < k
    BY <1>15 DEF Epoch
  <2>3. k \in Epochs(w)
    BY <1>10, <2>2, LaterEpochs
  <2>4. k > r
    BY <1>2, <1>7, <1>9, <2>1, <2>2
  <2>. QED
    BY <1>8, <1>12, <2>3, <2>4 DEF Epoch
<1>16. s <= j
  <2>1. s \in Nat /\ s <= i
    BY <1>2 DEF Epoch, Epochs
  <2>. QED
    BY <1>2, <1>13, <1>14, <2>1
<1>17. j \in Epoch(l, s)
  BY <1>13, <1>15, <1>16 DEF Epoch
<1>. QED
  BY <1>2, <1>13, <1>14, <1>17
-----------------------------------------------------------------------------
(* What the log says stays so when a record is journaled, *)

\* m is l with the record r after it, numbered n.
Added(l, m, n, r) ==
  /\ n \in Nat \ {0} /\ DOMAIN m = DOMAIN l \cup {n} /\ m[n] = r
  /\ \A i \in DOMAIN l : i \in Nat /\ i < n /\ m[i] = l[i]

LEMMA OrderedAdded ==
  ASSUME NEW l, NEW m, NEW n, NEW r, Added(l, m, n, r), Ordered(l),
         \A i \in DOMAIN l : l[i].seg <= r.seg /\ (r.print = 0 \/ l[i].print <= r.print)
  PROVE  Ordered(m)
<1>1. SUFFICES ASSUME NEW i \in DOMAIN m, NEW k \in DOMAIN m, i < k
               PROVE  /\ m[i].seg <= m[k].seg
                      /\ m[i].print # 0 /\ m[k].print # 0 => m[i].print <= m[k].print
  BY DEF Ordered
<1>2. i \in DOMAIN l /\ m[i] = l[i]
  BY <1>1 DEF Added
<1>3. CASE k = n
  BY <1>2, <1>3 DEF Added
<1>4. CASE k \in DOMAIN l
  BY <1>1, <1>2, <1>4 DEF Added, Ordered
<1>. QED
  BY <1>3, <1>4 DEF Added

LEMMA EndsAreSeenAdded ==
  ASSUME NEW l, NEW m, NEW n, NEW r, Added(l, m, n, r), EndsAreSeen(l),
         \A i \in DOMAIN l :
           l[i].kind = "clean" /\ NamesFile(r) /\ r.print = l[i].print => r.ended
  PROVE  EndsAreSeen(m)
<1>1. SUFFICES ASSUME NEW i \in DOMAIN m, NEW k \in DOMAIN m, i < k, m[i].kind = "clean",
                      Names(m, k, m[i].print)
               PROVE  m[k].ended
  BY DEF EndsAreSeen
<1>2. i \in DOMAIN l /\ m[i] = l[i]
  BY <1>1 DEF Added
<1>3. CASE k = n
  BY <1>1, <1>2, <1>3 DEF Added, Names
<1>4. CASE k \in DOMAIN l
  BY <1>1, <1>2, <1>4 DEF Added, EndsAreSeen, Names
<1>. QED
  BY <1>3, <1>4 DEF Added

LEMMA MotionsAreNamedAdded ==
  ASSUME NEW l, NEW m, NEW n, NEW r, Added(l, m, n, r), MotionsAreNamed(l),
         r.kind = "motion" /\ r.print # 0 =>
           \E c \in DOMAIN l :
             Names(l, c, r.print) /\ \A k \in DOMAIN l : c <= k => l[k].kind # "lost"
  PROVE  MotionsAreNamed(m)
<1>1. SUFFICES ASSUME NEW i \in DOMAIN m, NEW j \in DOMAIN m, i < j, m[j].kind = "motion",
                      Names(m, i, m[j].print), m[i].seg = m[j].seg
               PROVE  \E c \in DOMAIN m :
                        i <= c /\ c < j /\ Names(m, c, m[j].print) /\ Unbroken(m, c, j)
  BY DEF MotionsAreNamed
<1>2. i \in DOMAIN l /\ m[i] = l[i] /\ i \in Nat
  BY <1>1 DEF Added
<1>3. CASE j = n
  <2>1. m[j] = r /\ r.print # 0
    BY <1>1, <1>2, <1>3 DEF Added, Names, NamesFile
  <2>2. PICK c \in DOMAIN l :
          Names(l, c, r.print) /\ \A k \in DOMAIN l : c <= k => l[k].kind # "lost"
    BY <1>1, <2>1
  <2>3. PICK d \in DOMAIN l : d \in {c, i} /\ c <= d /\ i <= d
    BY <1>2 DEF Added
  <2>4. d < j /\ Names(m, d, r.print)
    BY <1>1, <1>2, <1>3, <2>1, <2>2, <2>3 DEF Added, Names
  <2>5. Unbroken(m, d, j)
    BY <1>3, <2>2, <2>3 DEF Added, Unbroken
  <2>. QED
    BY <2>1, <2>3, <2>4, <2>5 DEF Added
<1>4. CASE j \in DOMAIN l
  <2>1. Names(l, i, l[j].print) /\ l[i].seg = l[j].seg /\ l[j].kind = "motion" /\ m[j] = l[j]
    BY <1>1, <1>2, <1>4 DEF Added, Names
  <2>2. PICK c \in DOMAIN l : i <= c /\ c < j /\ Names(l, c, l[j].print) /\ Unbroken(l, c, j)
    BY <1>1, <1>2, <1>4, <2>1 DEF MotionsAreNamed
  <2>3. Names(m, c, m[j].print)
    BY <1>4, <2>2 DEF Added, Names
  <2>4. Unbroken(m, c, j)
    BY <1>4, <2>2 DEF Added, Unbroken
  <2>. QED
    BY <2>2, <2>3, <2>4 DEF Added
<1>. QED
  BY <1>3, <1>4 DEF Added

LEMMA LinkedAdded ==
  ASSUME NEW l, NEW m, NEW n, NEW r, Added(l, m, n, r),
         NEW c \in DOMAIN l, NEW i \in DOMAIN l, Linked(l, c, i)
  PROVE  Linked(m, c, i)
<1>1. \A k \in DOMAIN m : k <= i => k \in DOMAIN l /\ m[k] = l[k]
  BY DEF Added
<1>2. \A h, k \in DOMAIN m : h <= k /\ k <= i => h <= i
  BY DEF Added
<1>3. Unbroken(m, c, i)
  BY <1>1 DEF Linked, Unbroken, Added
<1>. QED
  BY <1>1, <1>2, <1>3 DEF Linked

LEMMA EndsAreLinkedAdded ==
  ASSUME NEW l, NEW m, NEW n, NEW r, Added(l, m, n, r), NEW pr, EndsAreLinked(l, pr),
         r.kind = "clean" =>
           \E c \in DOMAIN l :
             /\ Names(l, c, r.print)
             /\ \A k \in DOMAIN l : c <= k =>
                  /\ l[k].kind # "lost" /\ l[k].t <= r.t
                  /\ \A h \in DOMAIN l : c <= h /\ h <= k => l[h].t <= l[k].t
  PROVE  EndsAreLinked(m, pr)
<1>1. SUFFICES ASSUME NEW i \in DOMAIN m, m[i].kind = "clean"
      PROVE  \/ \E c \in DOMAIN m : c < i /\ Names(m, c, m[i].print) /\ Linked(m, c, i)
             \/ /\ \E a, b \in pr : m[i].seg < a /\ a < b
                /\ \A c \in DOMAIN m : c < i /\ Names(m, c, m[i].print) => m[c].seg # m[i].seg
  BY DEF EndsAreLinked
<1>2. CASE i \in DOMAIN l
  <2>1. m[i] = l[i] /\ l[i].kind = "clean"
    BY <1>1, <1>2 DEF Added
  <2>2. CASE \E c \in DOMAIN l : c < i /\ Names(l, c, l[i].print) /\ Linked(l, c, i)
    <3>1. PICK c \in DOMAIN l : c < i /\ Names(l, c, l[i].print) /\ Linked(l, c, i)
      BY <2>2
    <3>2. Linked(m, c, i)
      BY <1>2, <3>1, LinkedAdded
    <3>3. c \in DOMAIN m /\ Names(m, c, m[i].print)
      BY <2>1, <3>1 DEF Added, Names
    <3>. QED
      BY <3>1, <3>2, <3>3
  <2>3. CASE /\ \E a, b \in pr : l[i].seg < a /\ a < b
             /\ \A c \in DOMAIN l : c < i /\ Names(l, c, l[i].print) => l[c].seg # l[i].seg
    <3>1. ASSUME NEW c \in DOMAIN m, c < i, Names(m, c, m[i].print) PROVE m[c].seg # m[i].seg
      <4>1. c \in DOMAIN l /\ m[c] = l[c]
        BY <1>2, <3>1 DEF Added
      <4>. QED
        BY <2>1, <2>3, <3>1, <4>1 DEF Names
    <3>. QED
      BY <2>1, <2>3, <3>1
  <2>. QED
    BY <1>2, <2>1, <2>2, <2>3 DEF EndsAreLinked
<1>3. CASE i = n
  <2>1. m[i] = r /\ r.kind = "clean"
    BY <1>1, <1>3 DEF Added
  <2>2. PICK c \in DOMAIN l :
          /\ Names(l, c, r.print)
          /\ \A k \in DOMAIN l : c <= k =>
               /\ l[k].kind # "lost" /\ l[k].t <= r.t
               /\ \A h \in DOMAIN l : c <= h /\ h <= k => l[h].t <= l[k].t
    BY <2>1
  <2>3. c \in DOMAIN m /\ c < i /\ Names(m, c, m[i].print)
    BY <1>3, <2>1, <2>2 DEF Added, Names
  <2>4. Unbroken(m, c, i)
    BY <1>3, <2>2 DEF Added, Unbroken
  <2>5. ASSUME NEW h \in DOMAIN m, NEW k \in DOMAIN m, c <= h, h <= k, k <= i
        PROVE  m[h].seg = m[k].seg \/ m[h].t <= m[k].t
    <3>1. CASE h = n
      <4>1. k = n
        BY <1>3, <2>5, <3>1 DEF Added
      <4>. QED
        BY <3>1, <4>1
    <3>2. CASE h \in DOMAIN l /\ k = n
      BY <2>1, <2>2, <2>5, <1>3, <3>2 DEF Added
    <3>3. CASE h \in DOMAIN l /\ k \in DOMAIN l
      <4>1. c <= k
        BY <2>3, <2>5, <3>3 DEF Added
      <4>. QED
        BY <2>2, <2>5, <3>3, <4>1 DEF Added
    <3>. QED
      BY <3>1, <3>2, <3>3 DEF Added
  <2>. QED
    BY <2>3, <2>4, <2>5 DEF Linked
<1>. QED
  BY <1>2, <1>3 DEF Added
-----------------------------------------------------------------------------
(* and when records are lost or deleted. *)

\* m is what is left of l.
Left(l, m) == DOMAIN m \subseteq DOMAIN l /\ \A i \in DOMAIN m : m[i] = l[i]

\* Of a segment's records, those between two that are left are left.
WholeSegments(l, m) ==
  \A i, j \in DOMAIN m, c \in DOMAIN l :
    i <= c /\ c < j /\ l[i].seg = l[c].seg /\ l[c].seg = l[j].seg => c \in DOMAIN m

LEMMA OrderedLeft ==
  ASSUME NEW l, NEW m, Left(l, m), Ordered(l)
  PROVE  Ordered(m)
BY DEF Left, Ordered

LEMMA EndsAreSeenLeft ==
  ASSUME NEW l, NEW m, Left(l, m), EndsAreSeen(l)
  PROVE  EndsAreSeen(m)
BY DEF Left, EndsAreSeen, Names

LEMMA TruthfulLeft ==
  ASSUME NEW l, NEW m, Left(l, m), NEW p, NEW f, Truthful(l, p, f)
  PROVE  Truthful(m, p, f)
BY DEF Left, Truthful

LEMMA LinkedLeft ==
  ASSUME NEW l, NEW m, Left(l, m), NEW c, NEW i, Linked(l, c, i)
  PROVE  Linked(m, c, i)
BY DEF Left, Linked, Unbroken

\* Records of one segment have only records of it between them.
LEMMA SegmentsAreRuns ==
  ASSUME NEW l, IsLog(l), Ordered(l), NEW i \in DOMAIN l, NEW c \in DOMAIN l,
         NEW j \in DOMAIN l, i <= c, c <= j, l[i].seg = l[j].seg
  PROVE  l[c].seg = l[i].seg
<1>1. i \in Nat /\ c \in Nat /\ j \in Nat
  BY LogNumbers
<1>2. l[i].seg \in Nat /\ l[c].seg \in Nat
  BY LogNumbers
<1>3. (i = c \/ l[i].seg <= l[c].seg) /\ (c = j \/ l[c].seg <= l[j].seg)
  BY <1>1 DEF Ordered
<1>. QED
  BY <1>2, <1>3

LEMMA MotionsAreNamedLeft ==
  ASSUME NEW l, NEW m, IsLog(l), Ordered(l), Left(l, m), WholeSegments(l, m), MotionsAreNamed(l)
  PROVE  MotionsAreNamed(m)
<1>1. SUFFICES ASSUME NEW i \in DOMAIN m, NEW j \in DOMAIN m, i < j, m[j].kind = "motion",
                      Names(m, i, m[j].print), m[i].seg = m[j].seg
               PROVE  \E c \in DOMAIN m :
                        i <= c /\ c < j /\ Names(m, c, m[j].print) /\ Unbroken(m, c, j)
  BY DEF MotionsAreNamed
<1>2. /\ i \in DOMAIN l /\ j \in DOMAIN l /\ m[j] = l[j]
      /\ Names(l, i, l[j].print) /\ l[i].seg = l[j].seg
  BY <1>1 DEF Left, Names
<1>3. PICK c \in DOMAIN l : i <= c /\ c < j /\ Names(l, c, l[j].print) /\ Unbroken(l, c, j)
  BY <1>1, <1>2 DEF MotionsAreNamed
<1>4. l[c].seg = l[i].seg
  <2>1. c <= j
    BY <1>2, <1>3, LogNumbers
  <2>. QED
    BY <1>2, <1>3, <2>1, SegmentsAreRuns
<1>5. c \in DOMAIN m
  BY <1>1, <1>2, <1>3, <1>4 DEF WholeSegments
<1>6. Names(m, c, m[j].print) /\ Unbroken(m, c, j)
  BY <1>2, <1>3, <1>5 DEF Left, Names, Unbroken
<1>. QED
  BY <1>3, <1>5, <1>6

\* A power cut loses the newest records and deletes no segment.
LEMMA EndsAreLinkedCut ==
  ASSUME NEW l, NEW m, Left(l, m), NEW pr, NEW qr, pr \subseteq qr, EndsAreLinked(l, pr),
         \A c \in DOMAIN l, i \in DOMAIN m : c < i => c \in DOMAIN m
  PROVE  EndsAreLinked(m, qr)
<1>1. SUFFICES ASSUME NEW i \in DOMAIN m, m[i].kind = "clean"
      PROVE  \/ \E c \in DOMAIN m : c < i /\ Names(m, c, m[i].print) /\ Linked(m, c, i)
             \/ /\ \E a, b \in qr : m[i].seg < a /\ a < b
                /\ \A c \in DOMAIN m : c < i /\ Names(m, c, m[i].print) => m[c].seg # m[i].seg
  BY DEF EndsAreLinked
<1>2. i \in DOMAIN l /\ m[i] = l[i]
  BY DEF Left
<1>3. CASE \E c \in DOMAIN l : c < i /\ Names(l, c, l[i].print) /\ Linked(l, c, i)
  <2>1. PICK c \in DOMAIN l : c < i /\ Names(l, c, l[i].print) /\ Linked(l, c, i)
    BY <1>3
  <2>2. c \in DOMAIN m
    BY <2>1
  <2>3. Names(m, c, m[i].print) /\ Linked(m, c, i)
    BY <1>2, <2>1, <2>2, LinkedLeft DEF Left, Names
  <2>. QED
    BY <2>1, <2>2, <2>3
<1>4. CASE /\ \E a, b \in pr : l[i].seg < a /\ a < b
           /\ \A c \in DOMAIN l : c < i /\ Names(l, c, l[i].print) => l[c].seg # l[i].seg
  <2>1. ASSUME NEW c \in DOMAIN m, c < i, Names(m, c, m[i].print) PROVE m[c].seg # m[i].seg
    BY <1>2, <1>4, <2>1 DEF Left, Names
  <2>. QED
    BY <1>2, <1>4, <2>1
<1>. QED
  BY <1>1, <1>2, <1>3, <1>4 DEF EndsAreLinked
-----------------------------------------------------------------------------
(* Retention's sessions and what it deletes. *)

LEMMA GreatestIs ==
  ASSUME NEW n \in Nat, NEW S, S \subseteq 1..n, S # {}
  PROVE  Max(S) \in S /\ \A x \in S : x <= Max(S)
<1>1. Latest(S) \in S /\ \A x \in S : x <= Latest(S)
  BY LatestIs
<1>2. \A x \in S : Latest(S) >= x
  BY <1>1
<1>3. \E x \in S : \A y \in S : x >= y
  BY <1>1, <1>2
<1>4. Max(S) \in S /\ \A y \in S : Max(S) >= y
  BY <1>3 DEF Max
<1>. QED
  BY <1>4

AreMetas(metas) == \E n \in Nat : DOMAIN metas \subseteq 1..n

LEMMA SessionNumbers ==
  ASSUME NEW metas, AreMetas(metas)
  PROVE  \E n \in Nat : \A i : SessionOf(metas, i) \in 1..n
<1> DEFINE R == Reboots(metas)
           n == 1 + Cardinality(R)
<1>1. IsFiniteSet(R)
  <2>1. PICK h \in Nat : DOMAIN metas \subseteq 1..h
    BY DEF AreMetas
  <2>2. IsFiniteSet(1..h)
    BY FS_Interval
  <2>3. R \subseteq 1..h
    BY <2>1 DEF Reboots, Readable
  <2>. QED
    BY <2>2, <2>3, FS_Subset
<1>2. Cardinality(R) \in Nat
  BY <1>1, FS_CardinalityType
<1>3. ASSUME NEW i PROVE SessionOf(metas, i) \in 1..n
  <2> DEFINE S == {s \in R : s <= i}
  <2>1. S \subseteq R
    OBVIOUS
  <2>2. IsFiniteSet(S) /\ Cardinality(S) <= Cardinality(R)
    BY <1>1, <2>1, FS_Subset
  <2>3. Cardinality(S) \in Nat
    BY <2>2, FS_CardinalityType
  <2>4. SessionOf(metas, i) = 1 + Cardinality(S)
    BY DEF SessionOf
  <2>. QED
    BY <1>2, <2>2, <2>3, <2>4
<1>4. n \in Nat
  BY <1>2
<1>. QED
  BY <1>3, <1>4

\* Segments with no reboot between them are of one session.
LEMMA SameSession ==
  ASSUME NEW metas, AreMetas(metas), NEW cr,
         \A s \in DOMAIN metas : metas[s].created = cr[s],
         NEW a \in DOMAIN metas, NEW b \in DOMAIN metas, a <= b, Straight(cr, a, b)
  PROVE  SessionOf(metas, a) = SessionOf(metas, b)
<1>1. \A s \in DOMAIN metas : s \in Nat
  BY DEF AreMetas
<1>2. a \in Readable(metas)
  <2>1. a \in a..b
    BY <1>1
  <2>2. cr[a] \in Nat
    BY <2>1 DEF Straight
  <2>. QED
    BY <2>2, BootAssumption DEF Readable
<1>3. ASSUME NEW s \in Reboots(metas), s <= b, ~(s <= a) PROVE FALSE
  <2>1. s \in DOMAIN metas /\ s \in Nat
    BY <1>1 DEF Reboots, Readable
  <2>2. PICK k \in Readable(metas) :
          /\ k < s /\ metas[s].created < metas[k].created
          /\ \A m \in Readable(metas) : m < s => m <= k
    BY DEF Reboots
  <2>3. k \in DOMAIN metas /\ k \in Nat
    BY <1>1 DEF Readable
  <2>4. a < s
    BY <1>1, <1>3, <2>1
  <2>5. a <= k
    BY <1>2, <2>2, <2>4
  <2>6. k \in a..b /\ s \in a..b /\ k <= s
    BY <1>1, <1>3, <2>1, <2>2, <2>3, <2>4, <2>5
  <2>7. cr[k] \in Nat /\ cr[s] \in Nat /\ cr[k] <= cr[s]
    BY <2>6 DEF Straight
  <2>. QED
    BY <2>1, <2>2, <2>3, <2>7
<1>4. \A s \in Reboots(metas) : s \in Nat
  BY <1>1 DEF Reboots, Readable
<1>5. \A s \in Reboots(metas) : s <= a <=> s <= b
  BY <1>1, <1>3, <1>4
<1>6. {s \in Reboots(metas) : s <= a} = {s \in Reboots(metas) : s <= b}
  BY <1>5
<1>. QED
  BY <1>6 DEF SessionOf

LEMMA LaterSession ==
  ASSUME NEW metas, AreMetas(metas), NEW a \in DOMAIN metas, NEW b \in DOMAIN metas, a <= b
  PROVE  SessionOf(metas, a) <= SessionOf(metas, b)
<1> DEFINE A == {s \in Reboots(metas) : s <= a}
           B == {s \in Reboots(metas) : s <= b}
<1>1. PICK h \in Nat : DOMAIN metas \subseteq 1..h
  BY DEF AreMetas
<1>2. IsFiniteSet(B)
  <2>1. B \subseteq 1..h /\ IsFiniteSet(1..h)
    BY <1>1, FS_Interval DEF Reboots, Readable
  <2>. QED
    BY <2>1, FS_Subset
<1>3. \A s \in Reboots(metas) : s <= a => s <= b
  BY <1>1 DEF Reboots, Readable
<1>4. A \subseteq B
  BY <1>3
<1>5. Cardinality(A) <= Cardinality(B) /\ IsFiniteSet(A)
  BY <1>2, <1>4, FS_Subset
<1>6. Cardinality(A) \in Nat /\ Cardinality(B) \in Nat
  BY <1>2, <1>5, FS_CardinalityType
<1>. QED
  BY <1>5, <1>6 DEF SessionOf

\* What is deleted is of a session before the pinned one, none of which is the
\* newest segment's.
LEMMA PrunedIs ==
  ASSUME NEW metas, AreMetas(metas), NEW kind, NEW frame, NEW naming,
         NEW s \in Pruned(metas, kind, frame, naming)
  PROVE  /\ s \in DOMAIN metas
         /\ SessionOf(metas, s) < KeepFrom(metas, kind, frame, naming)
         /\ \A x \in DOMAIN metas :
              SessionOf(metas, x) = SessionOf(metas, s) => x # Max(DOMAIN metas)
<1> DEFINE keepFrom == KeepFrom(metas, kind, frame, naming)
<1>1. s \in Planned(metas, keepFrom) /\ Planned(metas, keepFrom) \cap Protected(metas, keepFrom) = {}
  BY DEF Pruned
<1>2. s \in DOMAIN metas /\ SessionOf(metas, s) < keepFrom
  BY <1>1 DEF Planned
<1>3. ASSUME NEW x \in DOMAIN metas, SessionOf(metas, x) = SessionOf(metas, s)
      PROVE  x \in Planned(metas, keepFrom)
  BY <1>1, <1>3 DEF Planned
<1>4. \A x \in DOMAIN metas : x = Max(DOMAIN metas) => x \in Protected(metas, keepFrom)
  BY DEF Protected
<1>. QED
  BY <1>1, <1>2, <1>3, <1>4
-----------------------------------------------------------------------------
(* The inductive invariant. *)

IInv ==
  /\ TypeOK /\ LogType /\ SegType /\ LogInv
  /\ SessionInv /\ DisplayInv /\ HeadersInv /\ WatcherInv /\ VerdictInv

LEMMA LogIsLog ==
  ASSUME LogType
  PROVE  IsLog(log)
BY DEF LogType, IsLog

LEMMA SegmentsAreFinite ==
  ASSUME SegType
  PROVE  IsFiniteSet(present) /\ present \subseteq Nat
<1>1. IsFiniteSet(1..segs) /\ present \subseteq 1..segs
  BY FS_Interval DEF SegType
<1>2. IsFiniteSet(present)
  BY <1>1, FS_Subset
<1>3. present \subseteq Nat
  BY <1>1
<1>. QED
  BY <1>2, <1>3

LEMMA JournalAdds ==
  ASSUME LogType, NEW r, Journal(r)
  PROVE  Added(log, log', LastRecord + 1, r) /\ UNCHANGED segVars
<1> DEFINE L == LastRecord
<1>1. L \in Nat /\ \A i \in DOMAIN log : i \in Nat \ {0} /\ i <= L
  BY LogIsLog, LatestIn DEF LastRecord
<1>2. log' = [i \in DOMAIN log \cup {L + 1} |-> IF i <= L THEN log[i] ELSE r]
  BY DEF Journal
<1> HIDE DEF L
<1>3. DOMAIN log' = DOMAIN log \cup {L + 1}
  BY <1>2
<1>4. log'[L + 1] = r
  BY <1>1, <1>2
<1>5. \A i \in DOMAIN log : i < L + 1 /\ log'[i] = log[i]
  BY <1>1, <1>2
<1>6. L + 1 \in Nat \ {0}
  BY <1>1
<1>. QED
  BY <1>1, <1>3, <1>4, <1>5, <1>6 DEF Added, Journal, L

\* Prints that ended stay so, and print numbers go up.
PrintsGoOn ==
  /\ print' \in {print, print + 1}
  /\ \A p \in 1..print : fate[p] = "ended" => fate'[p] = "ended"

LEMMA TruthfulGoesOn ==
  ASSUME TypeOK, LogType, PrintsGoOn, Truthful(log, print, fate)
  PROVE  Truthful(log, print', fate')
<1>1. SUFFICES ASSUME NEW i \in DOMAIN log
      PROVE  /\ log[i].print <= print'
             /\ log[i].ended \/ log[i].kind = "clean" =>
                  log[i].print # 0 /\ fate'[log[i].print] = "ended"
  BY DEF Truthful
<1>2. log[i].print \in Nat /\ print \in Nat
  BY LogIsLog, LogNumbers, BootAssumption DEF TypeOK
<1>3. log[i].print <= print
  BY DEF Truthful
<1>4. log[i].print <= print'
  BY <1>2, <1>3 DEF PrintsGoOn
<1>5. ASSUME log[i].ended \/ log[i].kind = "clean"
      PROVE  log[i].print # 0 /\ fate'[log[i].print] = "ended"
  <2>1. log[i].print # 0 /\ fate[log[i].print] = "ended"
    BY <1>5 DEF Truthful
  <2>2. log[i].print \in 1..print
    BY <1>2, <1>3, <2>1
  <2>. QED
    BY <2>1, <2>2 DEF PrintsGoOn
<1>. QED
  BY <1>4, <1>5

\* What a record must be for the log to stay what it is.
Fits(r) ==
  /\ r \in Recs /\ r.seg = segs /\ r.print \in {0, print}
  /\ r.print # 0 => onDisplay = print
  /\ NamesFile(r) /\ fate[r.print] = "ended" => r.ended
  /\ r.kind \in {"motion", "clean"} /\ r.print # 0 => sawPrint
  /\ r.kind = "clean" => r.print # 0 /\ r.t = now

LEMMA JournalTypes ==
  ASSUME IInv, Recording, NEW r, Journal(r), Fits(r)
  PROVE  LogType' /\ SegType'
<1>1. Added(log, log', LastRecord + 1, r) /\ UNCHANGED segVars
  BY JournalAdds DEF IInv
<1>2. SegType'
  BY <1>1 DEF IInv, SegType, segVars
<1>3. LastRecord + 1 \in Nat /\ \A i \in DOMAIN log' : i \in 1..(LastRecord + 1)
  BY <1>1, LogIsLog, LogNumbers DEF Added, IInv
<1>4. \E n \in Nat : DOMAIN log' \subseteq 1..n
  BY <1>3
<1>5. log' \in [DOMAIN log' -> Recs]
  <2>1. \A i \in DOMAIN log' : log'[i] \in Recs
    BY <1>1 DEF Added, Fits, IInv, LogType
  <2>2. log' = [i \in DOMAIN log' |-> log'[i]]
    BY DEF Journal
  <2>. QED
    BY <2>1, <2>2
<1>6. \A i \in DOMAIN log' : log'[i].seg \in present'
  <2>1. segs \in present /\ present' = present
    BY <1>1 DEF IInv, HeadersInv, segVars
  <2>. QED
    BY <1>1, <2>1 DEF Added, Fits, IInv, LogType
<1>. QED
  BY <1>2, <1>4, <1>5, <1>6 DEF LogType

LEMMA JournalKeepsLog ==
  ASSUME IInv, Recording, NEW r, Journal(r), Fits(r), PrintsGoOn,
         r.ended \/ r.kind = "clean" => r.print # 0 /\ fate'[r.print] = "ended"
  PROVE  LogInv'
<1> DEFINE n == LastRecord + 1
<1>1. Added(log, log', n, r) /\ UNCHANGED segVars
  BY JournalAdds DEF IInv
<1>2. Ordered(log')
  <2>1. \A i \in DOMAIN log : log[i].seg <= r.seg /\ (r.print = 0 \/ log[i].print <= r.print)
    BY DEF IInv, LogInv, Truthful, Fits, LogType, SegType
  <2>. QED
    BY <1>1, <2>1, OrderedAdded DEF IInv, LogInv
<1>3. Truthful(log', print', fate')
  <2>1. Truthful(log, print', fate')
    BY TruthfulGoesOn DEF IInv, LogInv
  <2>2. r.print <= print'
    BY BootAssumption DEF Fits, PrintsGoOn, IInv, TypeOK
  <2>. QED
    BY <1>1, <2>1, <2>2 DEF Added, Truthful
<1>4. EndsAreSeen(log')
  <2>1. \A i \in DOMAIN log :
          log[i].kind = "clean" /\ NamesFile(r) /\ r.print = log[i].print => r.ended
    BY DEF IInv, LogInv, Truthful, Fits
  <2>. QED
    BY <1>1, <2>1, EndsAreSeenAdded DEF IInv, LogInv
<1>5. ASSUME sawPrint, r.print # 0
      PROVE  \E c \in DOMAIN log :
               /\ Names(log, c, r.print)
               /\ \A k \in DOMAIN log : c <= k =>
                    /\ log[k].kind # "lost" /\ log[k].t <= now
                    /\ \A h \in DOMAIN log : c <= h /\ h <= k => log[h].t <= log[k].t
  BY <1>5 DEF IInv, SessionInv, Fits
<1>6. MotionsAreNamed(log')
  <2>1. r.kind = "motion" /\ r.print # 0 =>
          \E c \in DOMAIN log :
            Names(log, c, r.print) /\ \A k \in DOMAIN log : c <= k => log[k].kind # "lost"
    BY <1>5 DEF Fits
  <2>. QED
    BY <1>1, <2>1, MotionsAreNamedAdded DEF IInv, LogInv
<1>7. EndsAreLinked(log', present')
  <2>1. r.kind = "clean" =>
          \E c \in DOMAIN log :
            /\ Names(log, c, r.print)
            /\ \A k \in DOMAIN log : c <= k =>
                 /\ log[k].kind # "lost" /\ log[k].t <= r.t
                 /\ \A h \in DOMAIN log : c <= h /\ h <= k => log[h].t <= log[k].t
    BY <1>5 DEF Fits
  <2>2. present' = present
    BY <1>1 DEF segVars
  <2>. QED
    BY <1>1, <2>1, <2>2, EndsAreLinkedAdded DEF IInv, LogInv
<1>. QED
  BY <1>2, <1>3, <1>4, <1>6, <1>7 DEF LogInv

LEMMA JournalKeepsHeaders ==
  ASSUME IInv, Recording, NEW r, Journal(r), Fits(r),
         now' = now, onDisplay' \in {0, onDisplay}
  PROVE  HeadersInv'
<1> DEFINE n == LastRecord + 1
<1>1. Added(log, log', n, r) /\ UNCHANGED segVars
  BY JournalAdds DEF IInv
<1>2. UNCHANGED <<segs, created, present>>
  BY <1>1 DEF segVars
<1>3. /\ segs \in Nat /\ segs \in present /\ created[segs] \in 0..now
      /\ \A i \in DOMAIN log : log[i].seg \in 1..segs
  BY DEF IInv, SegType, LogType, HeadersInv
<1>4. Straight(created, segs, segs)
  BY <1>3 DEF Straight
<1>5. \A i \in DOMAIN log : log[i].print = r.print /\ r.print # 0 =>
        Straight(created, log[i].seg, segs) /\ Straight(created, segs, log[i].seg)
  <2>1. SUFFICES ASSUME NEW i \in DOMAIN log, log[i].print = r.print, r.print # 0
                 PROVE  Straight(created, log[i].seg, segs) /\ Straight(created, segs, log[i].seg)
    OBVIOUS
  <2>2. Straight(created, log[i].seg, segs)
    BY <2>1 DEF Fits, IInv, HeadersInv
  <2>3. Straight(created, segs, log[i].seg)
    BY <1>3, <2>2 DEF Straight
  <2>. QED
    BY <2>2, <2>3
<1>6. ASSUME NEW i \in DOMAIN log', NEW k \in DOMAIN log',
             log'[i].print = log'[k].print, log'[k].print # 0
      PROVE  Straight(created, log'[i].seg, log'[k].seg)
  <2>1. CASE i = n /\ k = n
    BY <1>1, <1>4, <2>1 DEF Added, Fits
  <2>2. CASE i \in DOMAIN log /\ k = n
    BY <1>1, <1>5, <1>6, <2>2 DEF Added, Fits
  <2>3. CASE i = n /\ k \in DOMAIN log
    BY <1>1, <1>5, <1>6, <2>3 DEF Added, Fits
  <2>4. CASE i \in DOMAIN log /\ k \in DOMAIN log
    BY <1>1, <1>6, <2>4 DEF Added, IInv, HeadersInv
  <2>. QED
    BY <1>1, <2>1, <2>2, <2>3, <2>4 DEF Added
<1>7. ASSUME onDisplay' # 0, NEW i \in DOMAIN log', log'[i].print = onDisplay'
      PROVE  /\ Straight(created, log'[i].seg, segs)
             /\ \A x \in log'[i].seg..segs : created[x] <= now
  <2>1. onDisplay' = onDisplay /\ onDisplay # 0
    BY <1>7
  <2>2. CASE i = n
    BY <1>1, <1>3, <1>4, <2>2 DEF Added, Fits
  <2>3. CASE i \in DOMAIN log
    BY <1>1, <1>7, <2>1, <2>3 DEF Added, IInv, HeadersInv
  <2>. QED
    BY <1>1, <2>2, <2>3 DEF Added
<1>8. \A i, k \in DOMAIN log' :
        log'[i].print = log'[k].print /\ log'[k].print # 0 =>
          Straight(created', log'[i].seg, log'[k].seg)
  BY <1>2, <1>6
<1>9. onDisplay' # 0 =>
        \A i \in DOMAIN log' : log'[i].print = onDisplay' =>
          /\ Straight(created', log'[i].seg, segs')
          /\ \A x \in log'[i].seg..segs' : created'[x] <= now'
  BY <1>2, <1>7
<1>10. segs' \in present' /\ created'[segs'] \in 0..now'
  BY <1>2, <1>3
<1>. QED
  BY <1>8, <1>9, <1>10 DEF HeadersInv

LEMMA JournalKeepsSession ==
  ASSUME IInv, Recording, NEW r, Journal(r), r.kind # "lost", r.t = now,
         UNCHANGED <<phase, print, fate, sawPrint, now>>
  PROVE  SessionInv'
<1> DEFINE n == LastRecord + 1
<1>1. Added(log, log', n, r)
  BY JournalAdds DEF IInv
<1>2. SUFFICES ASSUME sawPrint PROVE SessionInv'
  BY DEF SessionInv
<1>3. PICK c \in DOMAIN log :
        /\ Names(log, c, print)
        /\ \A k \in DOMAIN log : c <= k =>
             /\ log[k].kind # "lost" /\ log[k].t <= now
             /\ \A h \in DOMAIN log : c <= h /\ h <= k => log[h].t <= log[k].t
  BY <1>2 DEF IInv, SessionInv
<1>4. c \in DOMAIN log' /\ Names(log', c, print)
  BY <1>1, <1>3 DEF Added, Names
<1>5. ASSUME NEW k \in DOMAIN log', c <= k
      PROVE  /\ log'[k].kind # "lost" /\ log'[k].t <= now
             /\ \A h \in DOMAIN log' : c <= h /\ h <= k => log'[h].t <= log'[k].t
  <2>1. CASE k = n
    <3>1. log'[k] = r /\ now \in Nat
      BY <1>1, <2>1, BootAssumption DEF Added, IInv, TypeOK
    <3>2. \A h \in DOMAIN log' : c <= h => log'[h].t <= now
      BY <1>1, <1>3, <3>1, <2>1 DEF Added
    <3>. QED
      BY <3>1, <3>2
  <2>2. CASE k \in DOMAIN log
    <3>1. \A h \in DOMAIN log' : h <= k => h \in DOMAIN log
      BY <1>1, <2>2 DEF Added
    <3>. QED
      BY <1>1, <1>3, <1>5, <2>2, <3>1 DEF Added
  <2>. QED
    BY <1>1, <2>1, <2>2 DEF Added
<1>6. Recording' /\ Running'
  BY <1>2 DEF IInv, SessionInv, Recording, Running
<1>7. \E d \in DOMAIN log' :
        /\ Names(log', d, print)
        /\ \A k \in DOMAIN log' : d <= k =>
             /\ log'[k].kind # "lost" /\ log'[k].t <= now
             /\ \A h \in DOMAIN log' : d <= h /\ h <= k => log'[h].t <= log'[k].t
  BY <1>4, <1>5
<1>. QED
  BY <1>6, <1>7 DEF SessionInv
-----------------------------------------------------------------------------
(* The parts of the invariant, under the steps that leave them alone. *)

LEMMA LogStays ==
  ASSUME IInv, UNCHANGED logVars, PrintsGoOn
  PROVE  LogType' /\ SegType' /\ LogInv'
<1>1. UNCHANGED <<log, segs, created, present>>
  BY DEF logVars, segVars
<1>2. LogType' /\ SegType'
  BY <1>1 DEF IInv, LogType, SegType
<1>3. Truthful(log, print', fate')
  BY TruthfulGoesOn DEF IInv, LogInv
<1>. QED
  BY <1>1, <1>2, <1>3 DEF IInv, LogInv

LEMMA SessionStays ==
  ASSUME IInv, UNCHANGED <<log, phase, print, fate, sawPrint>>, now <= now', now' \in Nat
  PROVE  SessionInv'
<1>1. SUFFICES ASSUME sawPrint PROVE SessionInv'
  BY DEF SessionInv
<1>2. Recording' /\ Running'
  BY <1>1 DEF IInv, SessionInv, Recording, Running
<1>3. PICK c \in DOMAIN log :
        /\ Names(log, c, print)
        /\ \A k \in DOMAIN log : c <= k =>
             /\ log[k].kind # "lost" /\ log[k].t <= now
             /\ \A h \in DOMAIN log : c <= h /\ h <= k => log[h].t <= log[k].t
  BY <1>1 DEF IInv, SessionInv
<1>4. now \in Nat /\ \A k \in DOMAIN log : log[k].t \in Nat
  BY LogIsLog, LogNumbers, BootAssumption DEF IInv, TypeOK
<1>5. \A k \in DOMAIN log : c <= k => log[k].t <= now'
  BY <1>3, <1>4
<1>. QED
  BY <1>2, <1>3, <1>5 DEF SessionInv

LEMMA HeadersStay ==
  ASSUME IInv, UNCHANGED logVars, onDisplay' \in {0, onDisplay}, now <= now', now' \in Nat,
         Recording' => Recording
  PROVE  HeadersInv'
<1>1. UNCHANGED <<log, segs, created, present>>
  BY DEF logVars, segVars
<1>2. now \in Nat
  BY BootAssumption DEF IInv, TypeOK
<1>3. Recording' => segs \in present /\ created[segs] \in 0..now'
  BY <1>2 DEF IInv, HeadersInv
<1>4. ASSUME onDisplay' # 0, NEW i \in DOMAIN log, log[i].print = onDisplay'
      PROVE  /\ Straight(created, log[i].seg, segs)
             /\ \A x \in log[i].seg..segs : created[x] <= now'
  <2>1. /\ Straight(created, log[i].seg, segs)
        /\ \A x \in log[i].seg..segs : created[x] <= now
    BY <1>4 DEF IInv, HeadersInv
  <2>2. \A x \in log[i].seg..segs : created[x] \in Nat
    BY <2>1 DEF Straight
  <2>. QED
    BY <1>2, <2>1, <2>2
<1>5. \A i, k \in DOMAIN log :
        log[i].print = log[k].print /\ log[k].print # 0 =>
          Straight(created, log[i].seg, log[k].seg)
  BY DEF IInv, HeadersInv
<1>. QED
  BY <1>1, <1>3, <1>4, <1>5 DEF HeadersInv

LEMMA VerdictStays ==
  ASSUME IInv, UNCHANGED <<log, present, phase, verdict, sidecar, pending>>,
         spent \subseteq spent'
  PROVE  VerdictInv'
<1>1. Found' = Found
  BY DEF Found
<1>2. phase \in {"decided", "applied", "failed"} =>
        \/ verdict = Saying("unread")
        \/ \E complete \in SUBSET spent' : verdict = Verdict(Found, sidecar, complete)
  BY DEF IInv, VerdictInv
<1>3. phase = "applied" /\ verdict.kind = "pending" =>
        pending = Offer(verdict.print, verdict.edge)
  BY DEF IInv, VerdictInv
<1>. QED
  BY <1>1, <1>2, <1>3 DEF VerdictInv

LEMMA VerdictIdle ==
  ASSUME phase' \in {"down", "disposed", "recording"}
  PROVE  VerdictInv'
BY DEF VerdictInv

LEMMA RecordsTyped ==
  ASSUME LogType', SegType'
  PROVE  \A i \in DOMAIN log' : log'[i].kind \in RecordKinds /\ log'[i].seg \in 1..segs'
BY DEF LogType, SegType, Recs

LEMMA RecordIs ==
  ASSUME IInv, NEW kind \in RecordKinds, NEW p \in {0, print, onDisplay}, NEW ended \in BOOLEAN
  PROVE  /\ Record(kind, p, ended) \in Recs
         /\ Record(kind, p, ended).kind = kind /\ Record(kind, p, ended).print = p
         /\ Record(kind, p, ended).ended = ended /\ Record(kind, p, ended).t = now
         /\ Record(kind, p, ended).seg = segs
<1>1. segs \in Nat /\ now \in 0..MaxTick
  BY DEF IInv, TypeOK, SegType
<1>2. p \in 0..MaxPrints
  BY BootAssumption DEF IInv, TypeOK, DisplayInv
<1>. QED
  BY <1>1, <1>2 DEF Record, Recs
-----------------------------------------------------------------------------
(* The world's steps. *)

LEMMA TickKeeps ==
  ASSUME IInv, Tick
  PROVE  IInv'
<1>1. /\ UNCHANGED <<boot, print, fate, spent, onDisplay, log, segs, created, present,
                     phase, verdict, watcher, edgeTime, edges, sidecar, sidecarDurable,
                     pending, pendingDurable, faults, sawPrint>>
      /\ now' = now + 1 /\ now < MaxTick /\ watcher \in {"armed", "journaled"}
  BY DEF Tick, worldVars, logVars, segVars, daemonVars, watcherVars, fileVars
<1>2. now \in Nat /\ now' \in Nat /\ now <= now' /\ now' \in 0..MaxTick
  BY <1>1, BootAssumption DEF IInv, TypeOK
<1>3. LogType' /\ SegType' /\ LogInv'
  BY <1>1, LogStays DEF logVars, segVars, PrintsGoOn
<1>4. SessionInv'
  BY <1>1, <1>2, SessionStays
<1>5. HeadersInv'
  BY <1>1, <1>2, HeadersStay DEF logVars, segVars, Recording
<1>6. VerdictInv'
  BY <1>1, VerdictStays
<1>7. DisplayInv' /\ WatcherInv'
  BY <1>1 DEF IInv, DisplayInv, WatcherInv, Running, Recording
<1>8. TypeOK'
  BY <1>1, <1>2 DEF IInv, TypeOK
<1>. QED
  BY <1>3, <1>4, <1>5, <1>6, <1>7, <1>8 DEF IInv

LEMMA StartPrintKeeps ==
  ASSUME IInv, StartPrint
  PROVE  IInv'
<1>1. /\ UNCHANGED <<boot, now, spent, log, segs, created, present, phase, verdict, watcher,
                     edgeTime, edges, sidecar, sidecarDurable, pending, pendingDurable, faults>>
      /\ print < MaxPrints /\ print' = print + 1 /\ onDisplay' = print + 1
      /\ fate' = [fate EXCEPT ![print + 1] = "running"] /\ sawPrint' = FALSE
  BY DEF StartPrint, worldVars, logVars, segVars, daemonVars, watcherVars, fileVars
<1>2. /\ print \in Nat /\ print + 1 \in Prints /\ now \in Nat
      /\ fate \in [Prints -> {"none", "running", "dead", "ended"}]
  BY <1>1, BootAssumption DEF IInv, TypeOK, Prints
<1>3. PrintsGoOn
  BY <1>1, <1>2 DEF PrintsGoOn, Prints
<1>4. LogType' /\ SegType' /\ LogInv'
  BY <1>1, <1>3, LogStays DEF logVars, segVars
<1>5. SessionInv'
  BY <1>1 DEF SessionInv
<1>6. \A i \in DOMAIN log : log[i].print # print + 1
  BY <1>2, LogIsLog, LogNumbers DEF IInv, LogInv, Truthful
<1>7. HeadersInv'
  BY <1>1, <1>6 DEF IInv, HeadersInv, Recording
<1>8. VerdictInv'
  BY <1>1, VerdictStays
<1>9. DisplayInv' /\ WatcherInv'
  BY <1>1 DEF IInv, DisplayInv, WatcherInv, Recording
<1>10. fate' \in [Prints -> {"none", "running", "dead", "ended"}]
  BY <1>1, <1>2
<1>11. print' \in 0..MaxPrints /\ onDisplay' \in 0..print' /\ spent' \subseteq 1..print'
  BY <1>1, <1>2, BootAssumption DEF IInv, TypeOK
<1>12. TypeOK'
  BY <1>1, <1>10, <1>11 DEF IInv, TypeOK
<1>. QED
  BY <1>4, <1>5, <1>7, <1>8, <1>9, <1>12 DEF IInv

LEMMA LastExtrusionKeeps ==
  ASSUME IInv, LastExtrusion
  PROVE  IInv'
<1>1. /\ UNCHANGED <<boot, now, print, fate, onDisplay, log, segs, created, present, phase,
                     verdict, watcher, edgeTime, edges, sidecar, sidecarDurable, pending,
                     pendingDurable, faults, sawPrint>>
      /\ spent' = spent \cup {print} /\ Running
  BY DEF LastExtrusion, logVars, segVars, daemonVars, watcherVars, fileVars
<1>2. now \in Nat /\ print \in 1..print
  BY <1>1, BootAssumption DEF IInv, TypeOK, Running
<1>3. LogType' /\ SegType' /\ LogInv'
  BY <1>1, LogStays DEF logVars, segVars, PrintsGoOn
<1>4. SessionInv'
  BY <1>1, <1>2, SessionStays
<1>5. HeadersInv'
  BY <1>1, <1>2, HeadersStay DEF logVars, segVars, Recording
<1>6. VerdictInv'
  BY <1>1, VerdictStays
<1>7. DisplayInv' /\ WatcherInv'
  BY <1>1 DEF IInv, DisplayInv, WatcherInv, Running, Recording
<1>8. TypeOK'
  BY <1>1, <1>2 DEF IInv, TypeOK
<1>. QED
  BY <1>3, <1>4, <1>5, <1>6, <1>7, <1>8 DEF IInv

LEMMA EndPrintKeeps ==
  ASSUME IInv, EndPrint
  PROVE  IInv'
<1>1. /\ UNCHANGED <<boot, now, print, spent, phase, verdict, watcher, edgeTime, edges,
                     sidecar, sidecarDurable, pending, pendingDurable, faults>>
      /\ Running /\ onDisplay' \in {0, print} /\ sawPrint' = FALSE
      /\ fate' = [fate EXCEPT ![print] = "ended"]
  BY DEF EndPrint, daemonVars, watcherVars, fileVars
<1>2. /\ print \in Nat \ {0} /\ print \in Prints /\ now \in Nat
      /\ fate \in [Prints -> {"none", "running", "dead", "ended"}]
  BY <1>1, BootAssumption DEF IInv, TypeOK, Prints, Running
<1>3. PrintsGoOn /\ fate'[print] = "ended"
  BY <1>1, <1>2 DEF PrintsGoOn, Prints
<1>4. onDisplay = print /\ onDisplay' \in {0, onDisplay}
  BY <1>1 DEF IInv, DisplayInv
<1>5. LogType' /\ SegType' /\ LogInv' /\ HeadersInv'
  <2>1. CASE Recording /\ sawPrint
    <3> DEFINE r == Record("clean", print, FALSE)
    <3>1. Journal(r)
      BY <2>1 DEF EndPrint
    <3>2. r \in Recs /\ r.kind = "clean" /\ r.print = print /\ r.ended = FALSE /\ r.t = now /\ r.seg = segs
      BY RecordIs DEF RecordKinds
    <3> HIDE DEF r
    <3>3. Fits(r)
      BY <1>2, <1>4, <2>1, <3>2 DEF Fits, NamesFile, IsContext
    <3>4. LogType' /\ SegType'
      BY <2>1, <3>1, <3>3, JournalTypes
    <3>5. LogInv'
      BY <1>2, <1>3, <2>1, <3>1, <3>2, <3>3, JournalKeepsLog
    <3>6. HeadersInv'
      BY <1>1, <1>4, <2>1, <3>1, <3>3, JournalKeepsHeaders
    <3>. QED
      BY <3>4, <3>5, <3>6
  <2>2. CASE ~(Recording /\ sawPrint)
    <3>1. UNCHANGED logVars
      BY <2>2 DEF EndPrint
    <3>. QED
      BY <1>1, <1>2, <1>3, <1>4, <3>1, LogStays, HeadersStay DEF Recording
  <2>. QED
    BY <2>1, <2>2
<1>6. SessionInv'
  BY <1>1 DEF SessionInv
<1>7. VerdictInv'
  <2>1. CASE Recording
    BY <1>1, <2>1, VerdictIdle DEF Recording
  <2>2. CASE ~Recording
    <3>1. UNCHANGED <<log, present>>
      BY <2>2 DEF EndPrint, logVars, segVars
    <3>. QED
      BY <1>1, <3>1, VerdictStays
  <2>. QED
    BY <2>1, <2>2
<1>8. DisplayInv' /\ WatcherInv'
  BY <1>1, <1>3 DEF IInv, DisplayInv, WatcherInv, Recording, Running
<1>9. fate' \in [Prints -> {"none", "running", "dead", "ended"}]
  BY <1>1, <1>2
<1>10. \A i \in DOMAIN log' : log'[i].kind \in RecordKinds /\ log'[i].seg \in 1..segs'
  BY <1>5, RecordsTyped
<1>11. TypeOK'
  BY <1>1, <1>2, <1>9, <1>10 DEF IInv, TypeOK
<1>. QED
  BY <1>5, <1>6, <1>7, <1>8, <1>11 DEF IInv

LEMMA LoseKlippyKeeps ==
  ASSUME IInv, LoseKlippy
  PROVE  IInv'
<1>1. /\ UNCHANGED <<boot, now, print, spent, phase, verdict, watcher, edgeTime, edges,
                     sidecar, sidecarDurable, pending, pendingDurable, faults>>
      /\ sawPrint' = FALSE
      /\ \/ UNCHANGED <<fate, onDisplay>>
         \/ /\ fate' = IF Running THEN [fate EXCEPT ![print] = "dead"] ELSE fate
            /\ onDisplay' = 0
  BY DEF LoseKlippy, daemonVars, watcherVars, fileVars
<1>2. /\ print \in Nat /\ now \in Nat /\ (Running => print \in Prints)
      /\ fate \in [Prints -> {"none", "running", "dead", "ended"}]
  BY BootAssumption DEF IInv, TypeOK, Prints, Running
<1>3. PrintsGoOn
  <2>1. CASE Running /\ fate' = [fate EXCEPT ![print] = "dead"]
    BY <1>1, <1>2, <2>1 DEF PrintsGoOn, Running, IInv, TypeOK, Prints
  <2>2. CASE fate' = fate
    BY <1>1, <2>2 DEF PrintsGoOn
  <2>. QED
    BY <1>1, <2>1, <2>2
<1>4. onDisplay' \in {0, onDisplay}
  BY <1>1
<1>5. LogType' /\ SegType' /\ LogInv' /\ HeadersInv'
  <2>1. CASE Recording
    <3> DEFINE r == Record("lost", 0, FALSE)
    <3>1. Journal(r)
      BY <2>1 DEF LoseKlippy
    <3>2. r \in Recs /\ r.kind = "lost" /\ r.print = 0 /\ r.ended = FALSE /\ r.t = now /\ r.seg = segs
      BY RecordIs DEF RecordKinds
    <3> HIDE DEF r
    <3>3. Fits(r)
      BY <3>2 DEF Fits, NamesFile, IsContext
    <3>4. LogType' /\ SegType'
      BY <2>1, <3>1, <3>3, JournalTypes
    <3>5. LogInv'
      BY <1>3, <2>1, <3>1, <3>2, <3>3, JournalKeepsLog
    <3>6. HeadersInv'
      BY <1>1, <1>4, <2>1, <3>1, <3>3, JournalKeepsHeaders
    <3>. QED
      BY <3>4, <3>5, <3>6
  <2>2. CASE ~Recording
    <3>1. UNCHANGED logVars
      BY <2>2 DEF LoseKlippy
    <3>. QED
      BY <1>1, <1>2, <1>3, <1>4, <3>1, LogStays, HeadersStay DEF Recording
  <2>. QED
    BY <2>1, <2>2
<1>6. SessionInv'
  BY <1>1 DEF SessionInv
<1>7. VerdictInv'
  <2>1. CASE Recording
    BY <1>1, <2>1, VerdictIdle DEF Recording
  <2>2. CASE ~Recording
    <3>1. UNCHANGED <<log, present>>
      BY <2>2 DEF LoseKlippy, logVars, segVars
    <3>. QED
      BY <1>1, <3>1, VerdictStays
  <2>. QED
    BY <2>1, <2>2
<1>8. DisplayInv' /\ WatcherInv'
  <2>1. WatcherInv'
    BY <1>1 DEF IInv, WatcherInv, Recording
  <2>2. CASE UNCHANGED <<fate, onDisplay>>
    BY <1>1, <2>1, <2>2 DEF IInv, DisplayInv, Running
  <2>3. CASE /\ fate' = IF Running THEN [fate EXCEPT ![print] = "dead"] ELSE fate
             /\ onDisplay' = 0
    <3>1. ~Running'
      BY <1>1, <1>2, <2>3 DEF Running
    <3>. QED
      BY <2>1, <2>3, <3>1 DEF DisplayInv
  <2>. QED
    BY <1>1, <2>2, <2>3
<1>9. fate' \in [Prints -> {"none", "running", "dead", "ended"}]
  BY <1>1, <1>2
<1>10. \A i \in DOMAIN log' : log'[i].kind \in RecordKinds /\ log'[i].seg \in 1..segs'
  BY <1>5, RecordsTyped
<1>11. onDisplay' \in 0..print'
  BY <1>1, <1>2 DEF IInv, TypeOK
<1>12. TypeOK'
  BY <1>1, <1>2, <1>9, <1>10, <1>11 DEF IInv, TypeOK
<1>. QED
  BY <1>5, <1>6, <1>7, <1>8, <1>12 DEF IInv
-----------------------------------------------------------------------------
(* The recorder's steps. *)

LEMMA JournalContextKeeps ==
  ASSUME IInv, JournalContext
  PROVE  IInv'
<1> DEFINE seen == onDisplay # 0 /\ fate[onDisplay] = "ended"
           r == Record("context", onDisplay, seen)
<1>1. /\ UNCHANGED <<boot, now, print, fate, spent, onDisplay, phase, verdict, watcher, edgeTime,
                     edges, sidecar, sidecarDurable, pending, pendingDurable, faults>>
      /\ Recording /\ Journal(r)
  BY DEF JournalContext, worldVars, daemonVars, watcherVars, fileVars
<1>2. sawPrint' = (Running /\ onDisplay = print)
  BY DEF JournalContext
<1>3. /\ r \in Recs /\ r.kind = "context" /\ r.print = onDisplay /\ r.t = now /\ r.seg = segs
      /\ r.ended = seen
  <2>1. seen \in BOOLEAN
    OBVIOUS
  <2> HIDE DEF seen
  <2>. QED
    BY <2>1, RecordIs DEF RecordKinds
<1>4. r.ended <=> onDisplay # 0 /\ fate[onDisplay] = "ended"
  BY <1>3
<1> HIDE DEF r, seen
<1>5. onDisplay \in {0, print} /\ now \in Nat
  BY BootAssumption DEF IInv, DisplayInv, TypeOK
<1>6. PrintsGoOn
  BY <1>1 DEF PrintsGoOn
<1>7. Fits(r)
  BY <1>3, <1>4, <1>5 DEF Fits, NamesFile
<1>8. LogType' /\ SegType'
  BY <1>1, <1>7, JournalTypes
<1>9. LogInv'
  <2>1. r.ended \/ r.kind = "clean" => r.print # 0 /\ fate'[r.print] = "ended"
    BY <1>1, <1>3, <1>4
  <2>. QED
    BY <1>1, <1>6, <1>7, <2>1, JournalKeepsLog
<1>10. HeadersInv'
  BY <1>1, <1>7, JournalKeepsHeaders
<1>11. SessionInv'
  <2>1. SUFFICES ASSUME sawPrint' PROVE SessionInv'
    BY DEF SessionInv
  <2>2. Running /\ onDisplay = print /\ Running' /\ Recording'
    BY <1>1, <1>2, <2>1 DEF Running, Recording
  <2> DEFINE n == LastRecord + 1
  <2>3. Added(log, log', n, r)
    BY <1>1, JournalAdds DEF IInv
  <2> HIDE DEF n
  <2>4. n \in DOMAIN log' /\ Names(log', n, print)
    BY <1>3, <2>2, <2>3 DEF Added, Names, NamesFile, IsContext, Running
  <2>5. \A k \in DOMAIN log' : n <= k => k = n
    BY <2>3 DEF Added
  <2>6. log'[n].kind # "lost" /\ log'[n].t <= now /\ log'[n].t <= log'[n].t
    BY <1>3, <1>5, <2>3 DEF Added
  <2>7. \A k \in DOMAIN log' : n <= k =>
          /\ log'[k].kind # "lost" /\ log'[k].t <= now
          /\ \A h \in DOMAIN log' : n <= h /\ h <= k => log'[h].t <= log'[k].t
    BY <2>5, <2>6
  <2>. QED
    BY <1>1, <2>2, <2>4, <2>7 DEF SessionInv
<1>12. VerdictInv'
  BY <1>1, VerdictIdle DEF Recording
<1>13. DisplayInv' /\ WatcherInv'
  BY <1>1 DEF IInv, DisplayInv, WatcherInv, Recording, Running
<1>14. \A i \in DOMAIN log' : log'[i].kind \in RecordKinds /\ log'[i].seg \in 1..segs'
  BY <1>8, RecordsTyped
<1>15. TypeOK'
  BY <1>1, <1>14 DEF IInv, TypeOK
<1>. QED
  BY <1>8, <1>9, <1>10, <1>11, <1>12, <1>13, <1>15 DEF IInv

LEMMA JournalMotionKeeps ==
  ASSUME IInv, JournalMotion
  PROVE  IInv'
<1> DEFINE p == IF Running /\ sawPrint THEN print ELSE 0
           r == Record("motion", p, FALSE)
<1>1. /\ UNCHANGED <<boot, now, print, fate, spent, onDisplay, phase, verdict, watcher, edgeTime,
                     edges, sidecar, sidecarDurable, pending, pendingDurable, faults, sawPrint>>
      /\ Recording /\ Journal(r)
  BY DEF JournalMotion, worldVars, daemonVars, watcherVars, fileVars
<1>2. /\ r \in Recs /\ r.kind = "motion" /\ r.print = p /\ r.t = now /\ r.seg = segs
      /\ r.ended = FALSE
  <2>1. p \in {0, print, onDisplay}
    OBVIOUS
  <2>2. "motion" \in RecordKinds /\ FALSE \in BOOLEAN
    BY DEF RecordKinds
  <2> HIDE DEF p
  <2>. QED
    BY <2>1, <2>2, RecordIs
<1> HIDE DEF r
<1>3. PrintsGoOn
  BY <1>1 DEF PrintsGoOn
<1>4. Fits(r)
  BY <1>2 DEF Fits, NamesFile, IsContext, IInv, DisplayInv
<1>5. LogType' /\ SegType'
  BY <1>1, <1>4, JournalTypes
<1>6. LogInv'
  BY <1>1, <1>2, <1>3, <1>4, JournalKeepsLog
<1>7. HeadersInv'
  BY <1>1, <1>4, JournalKeepsHeaders
<1>8. SessionInv'
  BY <1>1, <1>2, JournalKeepsSession
<1>9. VerdictInv'
  BY <1>1, VerdictIdle DEF Recording
<1>10. DisplayInv' /\ WatcherInv'
  BY <1>1 DEF IInv, DisplayInv, WatcherInv, Recording, Running
<1>11. \A i \in DOMAIN log' : log'[i].kind \in RecordKinds /\ log'[i].seg \in 1..segs'
  BY <1>5, RecordsTyped
<1>12. TypeOK'
  BY <1>1, <1>11 DEF IInv, TypeOK
<1>. QED
  BY <1>5, <1>6, <1>7, <1>8, <1>9, <1>10, <1>12 DEF IInv

\* A segment opened by a running daemon starts no session.
LEMMA HeadersOpened ==
  ASSUME IInv, Left(log, log'), segs' = segs + 1, created' = Append(created, now),
         segs + 1 \in present', UNCHANGED <<now, onDisplay>>
  PROVE  HeadersInv'
<1>1. /\ now \in Nat /\ now \in Clocks /\ segs \in Nat
      /\ created \in Seq(Clocks) /\ Len(created) = segs
  BY BootAssumption DEF IInv, TypeOK, Clocks, SegType
<1>2. \A x \in 1..segs : created'[x] = created[x]
  BY <1>1
<1>3. created'[segs + 1] = now
  BY <1>1
<1>4. \A i \in DOMAIN log : log[i].seg \in 1..segs
  BY DEF IInv, LogType, SegType
<1>5. ASSUME NEW i \in DOMAIN log, NEW k \in DOMAIN log,
             log[i].print = log[k].print, log[k].print # 0
      PROVE  Straight(created', log[i].seg, log[k].seg)
  <2>1. Straight(created, log[i].seg, log[k].seg)
    BY <1>5 DEF IInv, HeadersInv
  <2>2. log[i].seg \in 1..segs /\ log[k].seg \in 1..segs
    BY <1>4
  <2>3. \A x \in log[i].seg..log[k].seg : x \in 1..segs
    BY <1>1, <2>2
  <2>. QED
    BY <1>2, <2>1, <2>3 DEF Straight
<1>6. ASSUME onDisplay # 0, NEW i \in DOMAIN log, log[i].print = onDisplay
      PROVE  /\ Straight(created', log[i].seg, segs + 1)
             /\ \A x \in log[i].seg..(segs + 1) : created'[x] <= now
  <2>1. /\ Straight(created, log[i].seg, segs)
        /\ \A x \in log[i].seg..segs : created[x] <= now
    BY <1>6 DEF IInv, HeadersInv
  <2>2. log[i].seg \in 1..segs
    BY <1>4
  <2>3. \A x \in log[i].seg..(segs + 1) :
          (x \in 1..segs /\ x \in log[i].seg..segs) \/ x = segs + 1
    BY <1>1, <2>2
  <2>4. \A x \in log[i].seg..(segs + 1) : created'[x] \in Nat /\ created'[x] <= now
    BY <1>1, <1>2, <1>3, <2>1, <2>3 DEF Straight
  <2>5. ASSUME NEW x \in log[i].seg..(segs + 1), NEW y \in log[i].seg..(segs + 1), x <= y
        PROVE  created'[x] <= created'[y]
    <3>1. CASE y = segs + 1
      BY <1>3, <2>4, <3>1
    <3>2. CASE y # segs + 1
      <4>1. x # segs + 1
        BY <1>1, <2>2, <2>3, <2>5, <3>2
      <4>. QED
        BY <1>2, <2>1, <2>3, <2>5, <3>2, <4>1 DEF Straight
    <3>. QED
      BY <3>1, <3>2
  <2>. QED
    BY <2>4, <2>5 DEF Straight
<1>7. \A i, k \in DOMAIN log' : log'[i].print = log'[k].print /\ log'[k].print # 0 =>
        Straight(created', log'[i].seg, log'[k].seg)
  BY <1>5 DEF Left
<1>8. onDisplay' # 0 =>
        \A i \in DOMAIN log' : log'[i].print = onDisplay' =>
          /\ Straight(created', log'[i].seg, segs')
          /\ \A x \in log'[i].seg..segs' : created'[x] <= now'
  BY <1>6 DEF Left
<1>9. segs' \in present' /\ created'[segs'] \in 0..now'
  BY <1>1, <1>3
<1>. QED
  BY <1>7, <1>8, <1>9 DEF HeadersInv

LEMMA RotateKeeps ==
  ASSUME IInv, Rotate
  PROVE  IInv'
<1>1. /\ UNCHANGED <<boot, now, print, fate, spent, onDisplay, log, phase, verdict, watcher,
                     edgeTime, edges, sidecar, sidecarDurable, pending, pendingDurable,
                     faults, sawPrint>>
      /\ Recording /\ segs' = segs + 1
      /\ created' = Append(created, now) /\ present' = present \cup {segs + 1}
  BY DEF Rotate, OpenSegment, NewSegment, worldVars, daemonVars, watcherVars, fileVars
<1>2. now \in Nat /\ now \in Clocks
  BY BootAssumption DEF IInv, TypeOK, Clocks
<1>3. LogType' /\ SegType' /\ LogInv'
  <2>1. LogType'
    BY <1>1 DEF IInv, LogType
  <2>2. segs' \in Nat /\ present' \subseteq 1..segs'
    BY <1>1 DEF IInv, SegType
  <2>3. created' \in Seq(Clocks) /\ Len(created') = segs'
    BY <1>1, <1>2 DEF IInv, SegType
  <2>4. EndsAreLinked(log', present')
    <3>1. present \subseteq present' /\ Left(log, log') /\ EndsAreLinked(log, present)
      BY <1>1 DEF Left, IInv, LogInv
    <3>2. \A c \in DOMAIN log, i \in DOMAIN log' : c < i => c \in DOMAIN log'
      BY <1>1
    <3>. QED
      BY <3>1, <3>2, EndsAreLinkedCut
  <2>. QED
    BY <1>1, <2>1, <2>2, <2>3, <2>4 DEF IInv, LogInv, SegType
<1>4. SessionInv'
  BY <1>1, <1>2, SessionStays
<1>5. HeadersInv'
  BY <1>1, HeadersOpened DEF Left
<1>6. VerdictInv'
  BY <1>1, VerdictIdle DEF Recording
<1>7. DisplayInv' /\ WatcherInv'
  BY <1>1 DEF IInv, DisplayInv, WatcherInv, Recording, Running
<1>8. \A i \in DOMAIN log' : log'[i].kind \in RecordKinds /\ log'[i].seg \in 1..segs'
  BY <1>3, RecordsTyped
<1>9. TypeOK'
  BY <1>1, <1>8 DEF IInv, TypeOK
<1>. QED
  BY <1>3, <1>4, <1>5, <1>6, <1>7, <1>9 DEF IInv
-----------------------------------------------------------------------------
(* The watcher's steps, and the ends of a session. *)

LEMMA ConfirmKeeps ==
  ASSUME IInv, Confirm
  PROVE  IInv'
<1>1. /\ UNCHANGED <<boot, now, print, fate, spent, onDisplay, log, segs, created, present,
                     phase, verdict, sidecar, sidecarDurable, pending, pendingDurable,
                     faults, sawPrint>>
      /\ Recording /\ watcher' = "confirmed" /\ edgeTime' = [boot |-> boot, t |-> now]
  BY DEF Confirm, worldVars, logVars, segVars, daemonVars, fileVars
<1>2. now \in Nat /\ edgeTime' \in Edges
  BY <1>1, BootAssumption DEF IInv, TypeOK, Edges
<1>3. LogType' /\ SegType' /\ LogInv'
  BY <1>1, LogStays DEF logVars, segVars, PrintsGoOn
<1>4. SessionInv' /\ HeadersInv'
  BY <1>1, <1>2, SessionStays, HeadersStay DEF logVars, segVars, Recording
<1>5. VerdictInv'
  BY <1>1, VerdictStays
<1>6. DisplayInv' /\ WatcherInv'
  BY <1>1, <1>2 DEF IInv, DisplayInv, WatcherInv, Running, Recording
<1>7. TypeOK'
  BY <1>1, <1>2 DEF IInv, TypeOK
<1>. QED
  BY <1>3, <1>4, <1>5, <1>6, <1>7 DEF IInv

LEMMA WriteSidecarKeeps ==
  ASSUME IInv, WriteSidecar
  PROVE  IInv'
<1>1. /\ UNCHANGED <<boot, now, print, fate, spent, onDisplay, log, segs, created, present,
                     phase, verdict, edgeTime, edges, pending, pendingDurable, sawPrint>>
      /\ watcher = "confirmed" /\ watcher' = "sidecar"
      /\ sidecar' \in {sidecar, edgeTime} /\ sidecarDurable' \in {sidecarDurable, edgeTime}
  BY DEF WriteSidecar, worldVars, logVars, segVars, daemonVars
<1>2. now \in Nat /\ Recording
  BY <1>1, BootAssumption DEF IInv, TypeOK, WatcherInv
<1>3. LogType' /\ SegType' /\ LogInv'
  BY <1>1, LogStays DEF logVars, segVars, PrintsGoOn
<1>4. SessionInv' /\ HeadersInv'
  BY <1>1, <1>2, SessionStays, HeadersStay DEF logVars, segVars, Recording
<1>5. VerdictInv'
  BY <1>1, <1>2, VerdictIdle DEF Recording
<1>6. DisplayInv' /\ WatcherInv'
  BY <1>1, <1>2 DEF IInv, DisplayInv, WatcherInv, Running, Recording
<1>7. TypeOK'
  BY <1>1, <1>2 DEF IInv, TypeOK
<1>. QED
  BY <1>3, <1>4, <1>5, <1>6, <1>7 DEF IInv

LEMMA JournalEdgeKeeps ==
  ASSUME IInv, JournalEdge
  PROVE  IInv'
<1> DEFINE r == [Record("edge", 0, FALSE) EXCEPT !.t = edgeTime.t]
<1>1. /\ UNCHANGED <<boot, now, print, fate, spent, onDisplay, phase, verdict, edgeTime, edges,
                     sidecar, sidecarDurable, pending, pendingDurable, faults, sawPrint>>
      /\ watcher = "sidecar" /\ watcher' = "journaled" /\ Journal(r)
  BY DEF JournalEdge, worldVars, daemonVars, fileVars
<1>2. Recording /\ edgeTime.t = now
  BY <1>1 DEF IInv, WatcherInv
<1>3. /\ r \in Recs /\ r.kind = "edge" /\ r.print = 0 /\ r.t = now /\ r.seg = segs
      /\ r.ended = FALSE
  <2> DEFINE q == Record("edge", 0, FALSE)
  <2>1. /\ q \in Recs /\ q.kind = "edge" /\ q.print = 0 /\ q.ended = FALSE
        /\ q.t = now /\ q.seg = segs
    BY RecordIs DEF RecordKinds
  <2> HIDE DEF q
  <2>2. r = q
    BY <1>2, <2>1 DEF Recs, q
  <2>. QED
    BY <2>1, <2>2
<1> HIDE DEF r
<1>4. PrintsGoOn
  BY <1>1 DEF PrintsGoOn
<1>5. Fits(r)
  BY <1>3 DEF Fits, NamesFile, IsContext
<1>6. LogType' /\ SegType'
  BY <1>1, <1>2, <1>5, JournalTypes
<1>7. LogInv'
  BY <1>1, <1>2, <1>3, <1>4, <1>5, JournalKeepsLog
<1>8. HeadersInv'
  BY <1>1, <1>2, <1>5, JournalKeepsHeaders
<1>9. SessionInv'
  BY <1>1, <1>2, <1>3, JournalKeepsSession
<1>10. VerdictInv'
  BY <1>1, <1>2, VerdictIdle DEF Recording
<1>11. DisplayInv' /\ WatcherInv'
  BY <1>1, <1>2 DEF IInv, DisplayInv, WatcherInv, Recording, Running
<1>12. \A i \in DOMAIN log' : log'[i].kind \in RecordKinds /\ log'[i].seg \in 1..segs'
  BY <1>6, RecordsTyped
<1>13. TypeOK'
  BY <1>1, <1>12 DEF IInv, TypeOK
<1>. QED
  BY <1>6, <1>7, <1>8, <1>9, <1>10, <1>11, <1>13 DEF IInv

\* What is common to the ends of a session.
LEMMA StopsKeeps ==
  ASSUME IInv, Stops, LogType', SegType', LogInv', HeadersInv'
  PROVE  IInv'
<1>1. /\ UNCHANGED <<boot, now, print, fate, spent, onDisplay, edges, sidecar, sidecarDurable,
                     pending, pendingDurable, faults>>
      /\ phase' = "down" /\ verdict' = NoVerdict /\ watcher' = "armed"
      /\ edgeTime' = NoEdge /\ sawPrint' = FALSE
  BY DEF Stops, worldVars, fileVars
<1>2. SessionInv' /\ VerdictInv' /\ DisplayInv' /\ WatcherInv'
  BY <1>1, VerdictIdle DEF IInv, SessionInv, DisplayInv, WatcherInv, Running
<1>3. \A i \in DOMAIN log' : log'[i].kind \in RecordKinds /\ log'[i].seg \in 1..segs'
  BY RecordsTyped
<1>4. verdict'.kind \in Verdicts
  BY <1>1 DEF NoVerdict, Verdicts
<1>5. TypeOK'
  BY <1>1, <1>3, <1>4 DEF IInv, TypeOK
<1>. QED
  BY <1>2, <1>5 DEF IInv

LEMMA StopOnSignalKeeps ==
  ASSUME IInv, StopOnSignal
  PROVE  IInv'
<1> DEFINE r == Record("stopped", 0, FALSE)
<1>1. Recording /\ Journal(r) /\ Stops
  BY DEF StopOnSignal
<1>2. UNCHANGED <<print, fate, onDisplay, now>>
  BY <1>1 DEF Stops, worldVars
<1>3. r \in Recs /\ r.kind = "stopped" /\ r.print = 0 /\ r.ended = FALSE /\ r.t = now /\ r.seg = segs
  BY RecordIs DEF RecordKinds
<1> HIDE DEF r
<1>4. Fits(r) /\ PrintsGoOn
  BY <1>2, <1>3 DEF Fits, NamesFile, IsContext, PrintsGoOn
<1>5. LogType' /\ SegType'
  BY <1>1, <1>4, JournalTypes
<1>6. LogInv'
  BY <1>1, <1>3, <1>4, JournalKeepsLog
<1>7. HeadersInv'
  BY <1>1, <1>2, <1>4, JournalKeepsHeaders
<1>. QED
  BY <1>1, <1>5, <1>6, <1>7, StopsKeeps

LEMMA StopKeeps ==
  ASSUME IInv, StopOnPowerFail \/ Die
  PROVE  IInv'
<1>1. UNCHANGED logVars /\ Stops
  BY DEF StopOnPowerFail, Die
<1>2. UNCHANGED <<print, fate, onDisplay, now>> /\ ~Recording'
  BY <1>1 DEF Stops, worldVars, Recording
<1>3. LogType' /\ SegType' /\ LogInv'
  BY <1>1, <1>2, LogStays DEF PrintsGoOn
<1>4. now \in Nat
  BY BootAssumption DEF IInv, TypeOK
<1>5. HeadersInv'
  BY <1>1, <1>2, <1>4, HeadersStay
<1>. QED
  BY <1>1, <1>3, <1>5, StopsKeeps
-----------------------------------------------------------------------------
(* A power cut. *)

LEMMA LeftTypes ==
  ASSUME LogType, Left(log, log'), log' = [i \in DOMAIN log' |-> log'[i]],
         \A i \in DOMAIN log' : log[i].seg \in present'
  PROVE  LogType'
<1>1. PICK n \in Nat : DOMAIN log \subseteq 1..n
  BY DEF LogType
<1>2. DOMAIN log' \subseteq 1..n
  BY <1>1 DEF Left
<1>3. \A i \in DOMAIN log' : log'[i] \in Recs /\ log'[i].seg \in present'
  BY DEF Left, LogType
<1>4. log' \in [DOMAIN log' -> Recs]
  BY <1>3
<1>. QED
  BY <1>2, <1>3, <1>4 DEF LogType

LEMMA PowerCutKeeps ==
  ASSUME IInv, PowerCut
  PROVE  IInv'
<1>1. /\ UNCHANGED <<print, spent, edges, faults>>
      /\ boot < MaxBoots /\ boot' = boot + 1 /\ now' = 0
      /\ fate' = (IF Running THEN [fate EXCEPT ![print] = "dead"] ELSE fate)
      /\ onDisplay' = 0 /\ phase' = "down" /\ verdict' = NoVerdict
      /\ watcher' = "armed" /\ edgeTime' = NoEdge /\ sawPrint' = FALSE
      /\ sidecar' \in {sidecar, sidecarDurable} /\ sidecarDurable' = sidecar'
      /\ pendingDurable' = pending'
  BY DEF PowerCut
<1>2. PICK n \in Synced..LastRecord : log' = [i \in {k \in DOMAIN log : k <= n} |-> log[i]]
  BY DEF PowerCut
<1>3. \/ UNCHANGED segVars
      \/ /\ segs' = segs + 1 /\ created' = Append(created, Unreadable)
         /\ present' = present \cup {segs + 1}
  BY DEF PowerCut, NewSegment
<1>4. pending' \in {pending, pendingDurable, Torn}
  BY DEF PowerCut
<1>5. /\ print \in Nat /\ (Running => print \in Prints)
      /\ fate \in [Prints -> {"none", "running", "dead", "ended"}]
  BY BootAssumption DEF IInv, TypeOK, Prints, Running
<1>6. PrintsGoOn
  <2>1. CASE Running
    BY <1>1, <1>5, <2>1 DEF PrintsGoOn, Running, IInv, TypeOK, Prints
  <2>2. CASE ~Running
    BY <1>1, <2>2 DEF PrintsGoOn
  <2>. QED
    BY <2>1, <2>2
<1>7. /\ Left(log, log') /\ log' = [i \in DOMAIN log' |-> log'[i]]
      /\ DOMAIN log' = {k \in DOMAIN log : k <= n}
  BY <1>2 DEF Left
<1>8. IsLog(log) /\ n \in Int
  <2>1. Synced \in Nat /\ LastRecord \in Nat
    <3>1. IsLog(log)
      BY LogIsLog DEF IInv
    <3>2. {i \in DOMAIN log : log[i].t < now \/ log[i].seg < segs
                             \/ log[i].kind \notin {"context", "motion"}} \subseteq DOMAIN log
      OBVIOUS
    <3>. QED
      BY <3>1, <3>2, LatestIn DEF Synced, LastRecord
  <2>. QED
    BY <2>1, LogIsLog DEF IInv
<1>9. \A c \in DOMAIN log, i \in DOMAIN log' : c <= i => c \in DOMAIN log'
  <2>1. \A c \in DOMAIN log : c \in Nat
    BY <1>8, LogNumbers
  <2>. QED
    BY <1>7, <1>8, <2>1
<1>10. present \subseteq present'
  BY <1>3 DEF segVars
<1>11. LogType'
  <2>1. \A i \in DOMAIN log' : log[i].seg \in present'
    BY <1>7, <1>10 DEF IInv, LogType
  <2>. QED
    BY <1>7, <2>1, LeftTypes DEF IInv
<1>12. SegType'
  <2>1. CASE UNCHANGED segVars
    BY <2>1 DEF IInv, SegType, segVars
  <2>2. CASE /\ segs' = segs + 1 /\ created' = Append(created, Unreadable)
             /\ present' = present \cup {segs + 1}
    <3>1. Unreadable \in Clocks
      BY DEF Clocks
    <3>2. created' \in Seq(Clocks) /\ Len(created') = segs'
      BY <2>2, <3>1 DEF IInv, SegType
    <3>3. segs' \in Nat /\ present' \subseteq 1..segs'
      BY <2>2 DEF IInv, SegType
    <3>. QED
      BY <3>2, <3>3 DEF SegType
  <2>. QED
    BY <1>3, <2>1, <2>2
<1>13. LogInv'
  <2>1. Ordered(log') /\ EndsAreSeen(log')
    BY <1>7, OrderedLeft, EndsAreSeenLeft DEF IInv, LogInv
  <2>2. Truthful(log', print', fate')
    <3>1. Truthful(log, print', fate')
      BY <1>6, TruthfulGoesOn DEF IInv, LogInv
    <3>. QED
      BY <1>7, <3>1, TruthfulLeft
  <2>3. MotionsAreNamed(log')
    <3>1. WholeSegments(log, log')
      <4>1. \A c \in DOMAIN log, i \in DOMAIN log' : c < i => c <= i
        BY <1>7, <1>8, LogNumbers
      <4>. QED
        BY <1>9, <4>1 DEF WholeSegments
    <3>. QED
      BY <1>7, <1>8, <3>1, MotionsAreNamedLeft DEF IInv, LogInv
  <2>4. EndsAreLinked(log', present')
    <3>1. \A c \in DOMAIN log, i \in DOMAIN log' : c < i => c \in DOMAIN log'
      BY <1>7, <1>8, <1>9, LogNumbers
    <3>. QED
      BY <1>7, <1>10, <3>1, EndsAreLinkedCut DEF IInv, LogInv
  <2>. QED
    BY <2>1, <2>2, <2>3, <2>4 DEF LogInv
<1>14. HeadersInv'
  <2>1. \A x \in 1..segs : created'[x] = created[x]
    BY <1>3 DEF segVars, IInv, SegType
  <2>2. segs \in Nat /\ \A i \in DOMAIN log : log[i].seg \in 1..segs
    BY DEF IInv, LogType, SegType
  <2>3. ASSUME NEW i \in DOMAIN log, NEW k \in DOMAIN log,
               log[i].print = log[k].print, log[k].print # 0
        PROVE  Straight(created', log[i].seg, log[k].seg)
    <3>1. Straight(created, log[i].seg, log[k].seg)
      BY <2>3 DEF IInv, HeadersInv
    <3>2. log[i].seg \in 1..segs /\ log[k].seg \in 1..segs
      BY <2>2
    <3>3. \A x \in log[i].seg..log[k].seg : x \in 1..segs
      BY <2>2, <3>2
    <3>. QED
      BY <2>1, <3>1, <3>3 DEF Straight
  <2>4. \A i, k \in DOMAIN log' : log'[i].print = log'[k].print /\ log'[k].print # 0 =>
          Straight(created', log'[i].seg, log'[k].seg)
    BY <1>7, <2>3 DEF Left
  <2>. QED
    BY <1>1, <2>4 DEF HeadersInv, Recording
<1>15. SessionInv' /\ VerdictInv' /\ WatcherInv'
  BY <1>1, VerdictIdle DEF SessionInv, WatcherInv
<1>16. DisplayInv'
  <2>1. ~Running'
    BY <1>1, <1>5 DEF Running
  <2>. QED
    BY <1>1, <2>1 DEF DisplayInv
<1>17. TypeOK'
  <2>1. fate' \in [Prints -> {"none", "running", "dead", "ended"}]
    BY <1>1, <1>5
  <2>2. \A i \in DOMAIN log' : log'[i].kind \in RecordKinds /\ log'[i].seg \in 1..segs'
    BY <1>11, <1>12, RecordsTyped
  <2>3. boot' \in 1..MaxBoots /\ now' \in 0..MaxTick /\ print' \in 0..MaxPrints
    BY <1>1, BootAssumption DEF IInv, TypeOK
  <2>4. onDisplay' \in 0..print' /\ spent' \subseteq 1..print'
    BY <1>1, <1>5 DEF IInv, TypeOK
  <2>5. {sidecar', sidecarDurable', edgeTime'} \subseteq Edges \cup {NoEdge}
    BY <1>1 DEF IInv, TypeOK
  <2>6. pending' \in Offers /\ pendingDurable' \in Offers
    BY <1>1, <1>4 DEF IInv, TypeOK, Offers
  <2>7. /\ phase' \in {"down", "decided", "applied", "failed", "disposed", "recording"}
        /\ verdict'.kind \in Verdicts
        /\ watcher' \in {"armed", "confirmed", "sidecar", "journaled"}
    BY <1>1 DEF NoVerdict, Verdicts
  <2>. QED
    BY <2>1, <2>2, <2>3, <2>4, <2>5, <2>6, <2>7 DEF TypeOK
<1>. QED
  BY <1>11, <1>12, <1>13, <1>14, <1>15, <1>16, <1>17 DEF IInv
-----------------------------------------------------------------------------
(* A start of the daemon. *)

LEMMA VerdictKinds ==
  ASSUME NEW w, IsLog(w), NEW edge, NEW complete
  PROVE  /\ Verdict(w, edge, complete).kind \in Verdicts
         /\ Verdict(w, edge, complete).kind = "pending" =>
              /\ Verdict(w, edge, complete).print \in Prints
              /\ Verdict(w, edge, complete).edge \in {edge, NoEdge}
<1> DEFINE e == CrashEpoch(w)
           named == NewestNaming(w, e)
           v == Verdict(w, edge, complete)
<1>1. CASE \E kind \in {"unknown", "clean", "settled", "stopped"} : v = Saying(kind)
  BY <1>1 DEF Saying, NoVerdict, Verdicts
<1>2. CASE /\ named # 0
           /\ v = [kind |-> IF w[named].print \in complete THEN "complete" ELSE "pending",
                   print |-> w[named].print, edge |-> Admitted(w, e, edge)]
  <2>1. v.kind \in Verdicts /\ v.print = w[named].print /\ v.edge = Admitted(w, e, edge)
    BY <1>2 DEF Verdicts
  <2>2. v.edge \in {edge, NoEdge}
    BY <2>1 DEF Admitted
  <2>3. e \subseteq DOMAIN w
    BY DEF CrashEpoch, Epoch
  <2>4. named \in DOMAIN w /\ w[named].print # 0
    BY <1>2, <2>3, NewestNamingIs DEF NamesFile
  <2>5. w[named].print \in Prints
    BY <2>4, BootAssumption DEF IsLog, Recs, Prints
  <2>. QED
    BY <2>1, <2>2, <2>5
<1>3. v \in {Saying("unknown"), Saying("clean"), Saying("settled"), Saying("stopped")} \/
      (/\ named # 0
       /\ v = [kind |-> IF w[named].print \in complete THEN "complete" ELSE "pending",
               print |-> w[named].print, edge |-> Admitted(w, e, edge)])
  BY DEF Verdict
<1>. QED
  BY <1>1, <1>2, <1>3

\* What is offered at a start is a print, with an edge or none.
LEMMA PendingIs ==
  ASSUME IInv, phase \in {"decided", "applied", "failed"}, verdict.kind = "pending"
  PROVE  Offer(verdict.print, verdict.edge) \in Offers
<1>1. verdict # Saying("unread")
  BY DEF Saying, NoVerdict
<1>2. PICK complete \in SUBSET spent : verdict = Verdict(Found, sidecar, complete)
  BY <1>1 DEF IInv, VerdictInv
<1>3. IsLog(Found)
  BY LogIsLog, WindowIs DEF IInv, Found
<1>4. verdict.print \in Prints /\ verdict.edge \in {sidecar, NoEdge}
  BY <1>2, <1>3, VerdictKinds
<1>5. verdict.edge \in Edges \cup {NoEdge}
  BY <1>4 DEF IInv, TypeOK
<1>. QED
  BY <1>4, <1>5 DEF Offers

LEMMA DetectKeeps ==
  ASSUME IInv, Detect
  PROVE  IInv'
<1>1. /\ UNCHANGED <<boot, now, print, fate, spent, onDisplay, log, segs, created, present,
                     watcher, edgeTime, edges, sidecar, sidecarDurable, pending,
                     pendingDurable, sawPrint>>
      /\ phase = "down" /\ phase' = "decided"
  BY DEF Detect, worldVars, logVars, segVars, watcherVars, fileVars
<1>2. \/ \E complete \in SUBSET spent : verdict' = Verdict(Found, sidecar, complete)
      \/ verdict' = Saying("unread")
  BY DEF Detect, Found
<1>3. now \in Nat /\ ~sawPrint
  BY <1>1, BootAssumption DEF IInv, TypeOK, SessionInv, Recording
<1>4. LogType' /\ SegType' /\ LogInv'
  BY <1>1, LogStays DEF logVars, segVars, PrintsGoOn
<1>5. SessionInv'
  BY <1>1, <1>3 DEF SessionInv
<1>6. HeadersInv'
  BY <1>1, <1>3, HeadersStay DEF logVars, segVars, Recording
<1>7. VerdictInv'
  <2>1. Found' = Found
    BY <1>1 DEF Found
  <2>. QED
    BY <1>1, <1>2, <2>1 DEF VerdictInv
<1>8. DisplayInv' /\ WatcherInv'
  BY <1>1 DEF IInv, DisplayInv, WatcherInv, Running, Recording
<1>9. verdict'.kind \in Verdicts
  <2>1. IsLog(Found)
    BY LogIsLog, WindowIs DEF IInv, Found
  <2>2. Saying("unread").kind \in Verdicts
    BY DEF Saying, NoVerdict, Verdicts
  <2>. QED
    BY <1>2, <2>1, <2>2, VerdictKinds
<1>10. TypeOK'
  BY <1>1, <1>9 DEF IInv, TypeOK
<1>. QED
  BY <1>4, <1>5, <1>6, <1>7, <1>8, <1>10 DEF IInv

LEMMA ApplyKeeps ==
  ASSUME IInv, Apply
  PROVE  IInv'
<1>1. /\ UNCHANGED <<boot, now, print, fate, spent, onDisplay, log, segs, created, present,
                     verdict, watcher, edgeTime, edges, sidecar, sidecarDurable, sawPrint>>
      /\ phase = "decided" /\ pendingDurable' \in {pending, pendingDurable}
      /\ phase' \in {"applied", "failed"}
  BY DEF Apply, worldVars, logVars, segVars, watcherVars
<1>2. \/ /\ phase' = "applied"
         /\ pending' = (IF verdict.kind = "pending" THEN Offer(verdict.print, verdict.edge)
                        ELSE IF Settles(verdict.kind) THEN NoOffer ELSE pending)
      \/ phase' = "failed" /\ pending' \in {pending, Torn}
      \/ phase' = "applied" /\ verdict.kind # "pending" /\ pending' = pending
  BY DEF Apply, Settles
<1>3. now \in Nat /\ ~sawPrint
  BY <1>1, BootAssumption DEF IInv, TypeOK, SessionInv, Recording
<1>4. LogType' /\ SegType' /\ LogInv'
  BY <1>1, LogStays DEF logVars, segVars, PrintsGoOn
<1>5. SessionInv'
  BY <1>1, <1>3 DEF SessionInv
<1>6. HeadersInv'
  BY <1>1, <1>3, HeadersStay DEF logVars, segVars, Recording
<1>7. VerdictInv'
  <2>1. Found' = Found
    BY <1>1 DEF Found
  <2>2. \/ verdict = Saying("unread")
        \/ \E complete \in SUBSET spent : verdict = Verdict(Found, sidecar, complete)
    BY <1>1 DEF IInv, VerdictInv
  <2>3. phase' = "applied" /\ verdict.kind = "pending" =>
          pending' = Offer(verdict.print, verdict.edge)
    BY <1>2
  <2>. QED
    BY <1>1, <2>1, <2>2, <2>3 DEF VerdictInv
<1>8. DisplayInv' /\ WatcherInv'
  BY <1>1 DEF IInv, DisplayInv, WatcherInv, Running, Recording
<1>9. pending' \in Offers /\ pendingDurable' \in Offers
  <2>1. NoOffer \in Offers /\ Torn \in Offers /\ pending \in Offers /\ pendingDurable \in Offers
    BY DEF Offers, IInv, TypeOK
  <2>2. verdict.kind = "pending" => Offer(verdict.print, verdict.edge) \in Offers
    BY <1>1, PendingIs
  <2>. QED
    BY <1>1, <1>2, <2>1, <2>2
<1>10. TypeOK'
  BY <1>1, <1>9 DEF IInv, TypeOK
<1>. QED
  BY <1>4, <1>5, <1>6, <1>7, <1>8, <1>10 DEF IInv

LEMMA DisposeKeeps ==
  ASSUME IInv, Dispose
  PROVE  IInv'
<1>1. /\ UNCHANGED <<boot, now, print, fate, spent, onDisplay, log, segs, created, present,
                     watcher, edgeTime, edges, sidecarDurable, pending, pendingDurable, sawPrint>>
      /\ phase \in {"applied", "failed"} /\ phase' = "disposed" /\ verdict' = NoVerdict
      /\ sidecar' \in {sidecar, NoEdge}
  BY DEF Dispose, worldVars, logVars, segVars, watcherVars
<1>2. now \in Nat /\ ~sawPrint
  BY <1>1, BootAssumption DEF IInv, TypeOK, SessionInv, Recording
<1>3. LogType' /\ SegType' /\ LogInv'
  BY <1>1, LogStays DEF logVars, segVars, PrintsGoOn
<1>4. SessionInv' /\ VerdictInv'
  BY <1>1, <1>2, VerdictIdle DEF SessionInv
<1>5. HeadersInv'
  BY <1>1, <1>2, HeadersStay DEF logVars, segVars, Recording
<1>6. DisplayInv' /\ WatcherInv'
  BY <1>1 DEF IInv, DisplayInv, WatcherInv, Running, Recording
<1>7. verdict'.kind \in Verdicts
  BY <1>1 DEF NoVerdict, Verdicts
<1>8. TypeOK'
  BY <1>1, <1>7 DEF IInv, TypeOK
<1>. QED
  BY <1>3, <1>4, <1>5, <1>6, <1>8 DEF IInv

LEMMA MetasAre ==
  ASSUME SegType
  PROVE  /\ AreMetas(Metas) /\ DOMAIN Metas = present
         /\ \A s \in present : Metas[s].created = created[s]
BY DEF SegType, AreMetas, Metas

\* What a start deletes, against the records there are.
LEMMA PrunedRecords ==
  ASSUME IInv, NEW frame, NEW gone \in SUBSET Pruned(Metas, pending.kind, frame, Naming)
  PROVE  /\ gone \subseteq present
         /\ \A x \in present : x \notin gone \/ x < Max(present)
         /\ present # {} => Max(present) \in present \ gone
         /\ \A c, i \in DOMAIN log :
              /\ c < i /\ log[c].print = log[i].print /\ log[i].print # 0
              /\ log[c].seg \in gone
              => log[i].seg < Max(present)
<1>1. AreMetas(Metas) /\ DOMAIN Metas = present /\ \A s \in present : Metas[s].created = created[s]
  BY MetasAre DEF IInv
<1>2. \A s \in gone :
        /\ s \in present
        /\ \A x \in present : SessionOf(Metas, x) = SessionOf(Metas, s) => x # Max(present)
  BY <1>1, PrunedIs
<1>3. segs \in Nat /\ present \subseteq 1..segs
  BY DEF IInv, SegType
<1>4. present # {} => Max(present) \in present /\ \A x \in present : x <= Max(present)
  BY <1>3, GreatestIs
<1>5. ASSUME NEW x \in present, x # Max(present) PROVE x < Max(present)
  <2>1. Max(present) \in present /\ x <= Max(present)
    BY <1>4
  <2>2. x \in 1..segs /\ Max(present) \in 1..segs
    BY <1>3, <2>1
  <2>. QED
    BY <1>5, <2>1, <2>2
<1>6. \A x \in gone : x # Max(present)
  BY <1>2
<1>7. ASSUME NEW c \in DOMAIN log, NEW i \in DOMAIN log, c < i,
             log[c].print = log[i].print, log[i].print # 0, log[c].seg \in gone
      PROVE  log[i].seg < Max(present)
  <2>1. log[c].seg \in present /\ log[i].seg \in present
    BY DEF IInv, LogType
  <2>2. log[c].seg <= log[i].seg
    BY <1>7 DEF IInv, LogInv, Ordered
  <2>3. Straight(created, log[c].seg, log[i].seg)
    BY <1>7 DEF IInv, HeadersInv
  <2>4. SessionOf(Metas, log[c].seg) = SessionOf(Metas, log[i].seg)
    BY <1>1, <2>1, <2>2, <2>3, SameSession
  <2>. QED
    BY <1>2, <1>5, <1>7, <2>1, <2>4
<1>. QED
  BY <1>2, <1>4, <1>5, <1>6, <1>7

LEMMA PruneKeeps ==
  ASSUME IInv, Prune
  PROVE  IInv'
<1>1. /\ UNCHANGED <<boot, now, print, fate, spent, onDisplay, verdict, watcher, edgeTime, edges,
                     sidecar, sidecarDurable, pending, pendingDurable, faults, sawPrint>>
      /\ phase = "disposed" /\ phase' = "recording" /\ segs' = segs + 1
      /\ created' = Append(created, now)
  BY DEF Prune, NewSegment, worldVars, watcherVars, fileVars
<1>0. PICK frame \in {"absent", "present", "torn"} :
             \E gone \in SUBSET Pruned(Metas, pending.kind, frame, Naming) :
               /\ log' = [i \in {k \in DOMAIN log : log[k].seg \notin gone} |-> log[i]]
               /\ present' = (present \ gone) \cup {segs + 1}
  BY DEF Prune, NewSegment
<1>2. PICK gone \in SUBSET Pruned(Metas, pending.kind, frame, Naming) :
             /\ log' = [i \in {k \in DOMAIN log : log[k].seg \notin gone} |-> log[i]]
             /\ present' = (present \ gone) \cup {segs + 1}
  BY <1>0
<1>3. /\ gone \subseteq present
      /\ present # {} => Max(present) \in present \ gone
      /\ \A c, i \in DOMAIN log :
           /\ c < i /\ log[c].print = log[i].print /\ log[i].print # 0
           /\ log[c].seg \in gone
           => log[i].seg < Max(present)
  BY PrunedRecords
<1>4. /\ Left(log, log') /\ log' = [i \in DOMAIN log' |-> log'[i]]
      /\ DOMAIN log' = {k \in DOMAIN log : log[k].seg \notin gone}
  BY <1>2 DEF Left
<1>5. IsLog(log) /\ Ordered(log) /\ segs \in Nat /\ present \subseteq 1..segs /\ now \in Nat
  BY LogIsLog, BootAssumption DEF IInv, LogInv, SegType, TypeOK
<1>6. LogType'
  <2>1. \A i \in DOMAIN log' : log[i].seg \in present'
    BY <1>2, <1>4 DEF IInv, LogType
  <2>. QED
    BY <1>4, <2>1, LeftTypes DEF IInv
<1>7. SegType'
  <2>1. now \in Clocks
    BY DEF IInv, TypeOK, Clocks
  <2>2. created' \in Seq(Clocks) /\ Len(created') = segs'
    BY <1>1, <2>1 DEF IInv, SegType
  <2>3. segs' \in Nat /\ present' \subseteq 1..segs'
    <3>1. \A x \in 1..segs : x \in 1..(segs + 1)
      BY <1>5
    <3>2. segs + 1 \in 1..(segs + 1)
      BY <1>5
    <3>3. \A x \in present' : x \in 1..(segs + 1)
      BY <1>2, <1>5, <3>1, <3>2
    <3>4. segs' = segs + 1 /\ segs + 1 \in Nat
      BY <1>1, <1>5
    <3>. QED
      BY <3>3, <3>4
  <2>. QED
    BY <2>2, <2>3 DEF SegType
<1>8. EndsAreLinked(log', present')
  <2>1. SUFFICES ASSUME NEW i \in DOMAIN log', log'[i].kind = "clean"
        PROVE  \/ \E c \in DOMAIN log' : c < i /\ Names(log', c, log'[i].print) /\ Linked(log', c, i)
               \/ /\ \E a, b \in present' : log'[i].seg < a /\ a < b
                  /\ \A c \in DOMAIN log' : c < i /\ Names(log', c, log'[i].print) =>
                       log'[c].seg # log'[i].seg
    BY DEF EndsAreLinked
  <2>2. /\ i \in DOMAIN log /\ log'[i] = log[i] /\ log[i].seg \notin gone
        /\ log[i].seg \in present /\ log[i].seg \in Nat /\ log[i].print # 0
    BY <1>4, <1>5, <2>1, LogNumbers DEF Left, IInv, LogType, LogInv, Truthful
  <2>3. Max(present) \in present' /\ segs + 1 \in present' /\ Max(present) < segs + 1
    <3>1. Max(present) \in present \ gone
      BY <1>3, <2>2
    <3>2. Max(present) \in 1..segs
      BY <1>5, <3>1
    <3>. QED
      BY <1>2, <1>5, <3>1, <3>2
  <2>4. CASE \E c \in DOMAIN log : c < i /\ Names(log, c, log[i].print) /\ Linked(log, c, i)
    <3>1. PICK c \in DOMAIN log : c < i /\ Names(log, c, log[i].print) /\ Linked(log, c, i)
      BY <2>4
    <3>2. CASE log[c].seg \notin gone
      <4>1. c \in DOMAIN log' /\ Names(log', c, log'[i].print)
        BY <1>4, <2>2, <3>1, <3>2 DEF Left, Names
      <4>2. Linked(log', c, i)
        BY <1>4, <3>1, LinkedLeft
      <4>. QED
        BY <3>1, <4>1, <4>2
    <3>3. CASE log[c].seg \in gone
      <4>1. log[i].seg < Max(present)
        BY <1>3, <2>2, <3>1, <3>3 DEF Names
      <4>2. CASE \E d \in DOMAIN log' :
                   d < i /\ Names(log', d, log'[i].print) /\ log'[d].seg = log'[i].seg
        <5>1. PICK d \in DOMAIN log' :
                d < i /\ Names(log', d, log'[i].print) /\ log'[d].seg = log'[i].seg
          BY <4>2
        <5>2. d \in DOMAIN log /\ log'[d] = log[d]
          BY <1>4 DEF Left
        <5>3. c \in Nat /\ d \in Nat /\ i \in Nat
          BY <1>5, <2>2, <5>2, LogNumbers
        <5>4. ~(d <= c)
          <6>1. SUFFICES ASSUME d <= c PROVE FALSE
            OBVIOUS
          <6>2. c <= i
            BY <3>1, <5>3
          <6>3. log[c].seg = log[d].seg
            BY <1>5, <2>2, <5>1, <5>2, <6>1, <6>2, SegmentsAreRuns
          <6>. QED
            BY <2>2, <3>3, <5>1, <5>2, <6>3
        <5>5. Linked(log, d, i)
          <6>1. c <= d
            BY <5>3, <5>4
          <6>. QED
            BY <1>5, <2>2, <3>1, <5>2, <6>1, LinkedLater
        <5>6. Linked(log', d, i)
          BY <1>4, <5>5, LinkedLeft
        <5>. QED
          BY <5>1, <5>6
      <4>3. CASE ~\E d \in DOMAIN log' :
                    d < i /\ Names(log', d, log'[i].print) /\ log'[d].seg = log'[i].seg
        BY <2>2, <2>3, <4>1, <4>3
      <4>. QED
        BY <4>2, <4>3
    <3>. QED
      BY <3>2, <3>3
  <2>5. CASE /\ \E a, b \in present : log[i].seg < a /\ a < b
             /\ \A c \in DOMAIN log : c < i /\ Names(log, c, log[i].print) => log[c].seg # log[i].seg
    <3>1. log[i].seg < Max(present)
      <4>1. PICK a \in present : log[i].seg < a
        BY <2>5
      <4>2. a <= Max(present) /\ Max(present) \in present
        BY <1>5, GreatestIs
      <4>3. Max(present) \in 1..segs /\ a \in 1..segs
        BY <1>5, <4>2
      <4>. QED
        BY <2>2, <4>1, <4>2, <4>3
    <3>2. \A c \in DOMAIN log' : c < i /\ Names(log', c, log'[i].print) => log'[c].seg # log'[i].seg
      BY <1>4, <2>2, <2>5 DEF Left, Names
    <3>. QED
      BY <2>2, <2>3, <3>1, <3>2
  <2>. QED
    BY <2>1, <2>2, <2>4, <2>5 DEF IInv, LogInv, EndsAreLinked
<1>9. LogInv'
  <2>1. Ordered(log') /\ EndsAreSeen(log')
    BY <1>4, OrderedLeft, EndsAreSeenLeft DEF IInv, LogInv
  <2>2. Truthful(log', print', fate')
    BY <1>1, <1>4, TruthfulLeft DEF IInv, LogInv
  <2>3. MotionsAreNamed(log')
    <3>1. WholeSegments(log, log')
      BY <1>4 DEF WholeSegments
    <3>. QED
      BY <1>4, <1>5, <3>1, MotionsAreNamedLeft DEF IInv, LogInv
  <2>. QED
    BY <1>8, <2>1, <2>2, <2>3 DEF LogInv
<1>10. HeadersInv'
  BY <1>1, <1>2, <1>4, HeadersOpened
<1>11. SessionInv' /\ VerdictInv'
  BY <1>1, VerdictIdle DEF IInv, SessionInv, Recording
<1>12. DisplayInv' /\ WatcherInv'
  BY <1>1 DEF IInv, DisplayInv, WatcherInv, Running, Recording
<1>13. \A i \in DOMAIN log' : log'[i].kind \in RecordKinds /\ log'[i].seg \in 1..segs'
  BY <1>6, <1>7, RecordsTyped
<1>14. TypeOK'
  BY <1>1, <1>13 DEF IInv, TypeOK
<1>. QED
  BY <1>6, <1>7, <1>9, <1>10, <1>11, <1>12, <1>14 DEF IInv
-----------------------------------------------------------------------------
(* Every step keeps the invariant. *)

LEMMA StutterKeeps ==
  ASSUME IInv, UNCHANGED vars
  PROVE  IInv'
<1>1. UNCHANGED <<boot, now, print, fate, spent, onDisplay, log, segs, created, present, phase,
                  verdict, watcher, edgeTime, edges, sidecar, sidecarDurable, pending,
                  pendingDurable, faults, sawPrint>>
  BY DEF vars, worldVars, logVars, segVars, daemonVars, watcherVars, fileVars
<1>2. now \in Nat
  BY BootAssumption DEF IInv, TypeOK
<1>3. LogType' /\ SegType' /\ LogInv'
  BY <1>1, LogStays DEF logVars, segVars, PrintsGoOn
<1>4. SessionInv' /\ HeadersInv'
  BY <1>1, <1>2, SessionStays, HeadersStay DEF logVars, segVars, Recording
<1>5. VerdictInv'
  BY <1>1, VerdictStays
<1>6. DisplayInv' /\ WatcherInv'
  BY <1>1 DEF IInv, DisplayInv, WatcherInv, Running, Recording
<1>7. TypeOK'
  BY <1>1 DEF IInv, TypeOK
<1>. QED
  BY <1>3, <1>4, <1>5, <1>6, <1>7 DEF IInv

LEMMA StepKeeps ==
  ASSUME IInv, [Next]_vars
  PROVE  IInv'
<1>1. CASE World
  BY <1>1, TickKeeps, StartPrintKeeps, LastExtrusionKeeps, EndPrintKeeps, LoseKlippyKeeps,
     PowerCutKeeps DEF World
<1>2. CASE Recorder
  BY <1>2, JournalContextKeeps, JournalMotionKeeps, RotateKeeps DEF Recorder
<1>3. CASE Watcher
  BY <1>3, ConfirmKeeps, WriteSidecarKeeps, JournalEdgeKeeps DEF Watcher
<1>4. CASE Daemon
  BY <1>4, StopOnSignalKeeps, StopKeeps, DetectKeeps, ApplyKeeps, DisposeKeeps, PruneKeeps
     DEF Daemon
<1>5. CASE UNCHANGED vars
  BY <1>5, StutterKeeps
<1>. QED
  BY <1>1, <1>2, <1>3, <1>4, <1>5 DEF Next

LEMMA InitHolds ==
  ASSUME Init
  PROVE  IInv
<1>1. DOMAIN log = {} /\ segs = 0 /\ created = <<>> /\ present = {}
  BY DEF Init
<1>2. LogType
  <2>1. DOMAIN log \subseteq 1..0
    BY <1>1
  <2>2. log \in [DOMAIN log -> Recs]
    BY <1>1 DEF Init
  <2>. QED
    BY <1>1, <2>1, <2>2 DEF LogType
<1>3. SegType
  BY <1>1 DEF SegType
<1>4. LogInv
  BY <1>1 DEF LogInv, Ordered, Truthful, EndsAreSeen, MotionsAreNamed, EndsAreLinked
<1>5. SessionInv /\ DisplayInv /\ HeadersInv /\ WatcherInv /\ VerdictInv
  BY <1>1 DEF Init, SessionInv, DisplayInv, HeadersInv, WatcherInv, VerdictInv, Running, Recording
<1>6. TypeOK
  <2>1. boot \in 1..MaxBoots /\ now \in 0..MaxTick /\ print \in 0..MaxPrints
    BY BootAssumption DEF Init
  <2>2. fate \in [Prints -> {"none", "running", "dead", "ended"}]
    BY DEF Init
  <2>3. onDisplay \in 0..print /\ spent \subseteq 1..print
    BY DEF Init
  <2>4. pending \in Offers /\ pendingDurable \in Offers
    BY DEF Init, Offers
  <2>5. verdict.kind \in Verdicts
    BY DEF Init, NoVerdict, Verdicts
  <2>6. /\ phase \in {"down", "decided", "applied", "failed", "disposed", "recording"}
        /\ watcher \in {"armed", "confirmed", "sidecar", "journaled"}
        /\ {sidecar, sidecarDurable, edgeTime} \subseteq Edges \cup {NoEdge}
    BY DEF Init
  <2>. QED
    BY <1>1, <2>1, <2>2, <2>3, <2>4, <2>5, <2>6 DEF TypeOK
<1>. QED
  BY <1>2, <1>3, <1>4, <1>5, <1>6 DEF IInv

LEMMA Invariance == Spec => []IInv
<1>1. Init => IInv
  BY InitHolds
<1>2. IInv /\ [Next]_vars => IInv'
  BY StepKeeps
<1>. QED
  BY <1>1, <1>2, PTL DEF Spec
-----------------------------------------------------------------------------
(* What detection concludes. *)

LEMMA LogFacts ==
  ASSUME IInv
  PROVE  /\ IsLog(log) /\ IsLog(Found) /\ IsFiniteSet(present) /\ present \subseteq Nat
         /\ Ordered(log) /\ MotionsAreNamed(log) /\ EndsAreSeen(log)
         /\ EndsAreLinked(log, present) /\ Truthful(log, print, fate)
         /\ \A i \in DOMAIN log : log[i].seg \in present
BY LogIsLog, WindowIs, SegmentsAreFinite DEF IInv, LogInv, LogType, Found

\* A start that reads the log offers the print that moved, or finds plrd
\* stopped after it.
LEMMA MovedIsDecided ==
  ASSUME IInv, phase \in {"decided", "applied", "failed"}, Recoverable(print),
         NEW j \in Moved(Found, print)
  PROVE  \/ verdict.kind = "unread"
         \/ /\ verdict.kind = "pending" /\ verdict.print = print
            /\ verdict.edge = Admitted(Found, CrashEpoch(Found), sidecar)
         \/ /\ verdict.kind = "stopped"
            /\ \E k \in DOMAIN Found : j < k /\ Found[k].kind = "stopped"
<1>1. CASE verdict = Saying("unread")
  BY <1>1 DEF Saying, NoVerdict
<1>2. CASE \E complete \in SUBSET spent : verdict = Verdict(Found, sidecar, complete)
  <2>1. PICK complete \in SUBSET spent : verdict = Verdict(Found, sidecar, complete)
    BY <1>2
  <2>2. print \notin complete /\ fate[print] # "ended"
    BY DEF Recoverable
  <2>3. print \in Nat \ {0}
    BY BootAssumption DEF Recoverable, IInv, TypeOK
  <2>4. \/ verdict = [kind |-> "pending", print |-> print,
                      edge |-> Admitted(Found, CrashEpoch(Found), sidecar)]
        \/ /\ verdict = Saying("stopped")
           /\ \E k \in DOMAIN Found : j < k /\ Found[k].kind = "stopped"
    BY <2>1, <2>2, <2>3, LogFacts, MotionDecides DEF Found
  <2>5. Saying("stopped").kind = "stopped"
    BY DEF Saying, NoVerdict
  <2>. QED
    BY <2>4, <2>5
<1>. QED
  BY <1>1, <1>2 DEF IInv, VerdictInv

LEMMA CrashOffered ==
  ASSUME IInv
  PROVE  CrashIsOffered
<1>1. SUFFICES ASSUME phase = "decided", Recoverable(print), fate[print] = "dead",
                      NEW j \in Moved(Found, print),
                      \A k \in DOMAIN Found : k > j => Found[k].kind # "stopped"
               PROVE  verdict.kind = "unread" \/ (verdict.kind = "pending" /\ verdict.print = print)
  BY DEF CrashIsOffered
<1>2. ~\E k \in DOMAIN Found : j < k /\ Found[k].kind = "stopped"
  <2>1. \A k \in DOMAIN Found : k \in Nat
    BY LogFacts, LogNumbers
  <2>2. j \in Nat
    BY <2>1 DEF Moved
  <2>. QED
    BY <1>1, <2>1, <2>2
<1>. QED
  BY <1>1, <1>2, MovedIsDecided

LEMMA EndRemembered ==
  ASSUME IInv
  PROVE  EndIsRemembered
<1>1. SUFFICES ASSUME phase = "decided", verdict.kind = "pending",
                      NEW s \in Epochs(log), NEW i \in Epoch(log, s),
                      log[i].kind = "clean", log[i].print = verdict.print
               PROVE  \E j \in Epoch(log, s) : j > i /\ log[j].kind = "motion"
  BY DEF EndIsRemembered
<1>2. verdict # Saying("unread")
  BY <1>1 DEF Saying, NoVerdict
<1>3. PICK complete \in SUBSET spent : verdict = Verdict(Found, sidecar, complete)
  BY <1>1, <1>2 DEF IInv, VerdictInv
<1>. QED
  BY <1>1, <1>3, LogFacts, EndDecides DEF Found

\* The verdict on a log without contexts and markers settles nothing.
LEMMA NothingSettles ==
  ASSUME NEW w, IsLog(w), NEW edge, NEW complete,
         \A i \in DOMAIN w : w[i].kind \notin {"context", "clean"}
  PROVE  Verdict(w, edge, complete).kind = "unknown"
<1> DEFINE e == CrashEpoch(w)
<1>1. e \subseteq DOMAIN w
  BY DEF CrashEpoch, Epoch
<1>2. ~InTail(w, e, "clean")
  <2>1. Of(w, e, "clean") = {}
    BY <1>1 DEF Of
  <2>2. Of(w, e, "motion") \subseteq DOMAIN w
    BY <1>1 DEF Of
  <2>3. Latest(Of(w, e, "clean")) = 0 /\ Latest(Of(w, e, "motion")) \in Nat
    BY <2>1, <2>2, LatestIn
  <2>. QED
    BY <2>3 DEF InTail
<1>3. NewestNaming(w, e) = 0
  <2>1. {i \in e : NamesFile(w[i])} = {}
    BY <1>1 DEF NamesFile, IsContext
  <2>. QED
    BY <2>1, LatestIn DEF NewestNaming
<1>4. Verdict(w, edge, complete) = Saying("unknown")
  BY <1>2, <1>3 DEF Verdict
<1>. QED
  BY <1>4 DEF Saying, NoVerdict

\* The steps that write the pending file.
LEMMA OfferStep ==
  ASSUME IInv, [Next]_vars, boot' = boot, pending' # pending
  PROVE  Apply
<1>1. CASE World
  <2>1. CASE PowerCut
    <3>1. boot \in Nat /\ boot' = boot + 1
      BY <2>1, BootAssumption DEF PowerCut, IInv, TypeOK
    <3>. QED
      BY <3>1
  <2>2. CASE Tick \/ StartPrint \/ LastExtrusion \/ EndPrint \/ LoseKlippy
    BY <2>2 DEF Tick, StartPrint, LastExtrusion, EndPrint, LoseKlippy, fileVars
  <2>. QED
    BY <1>1, <2>1, <2>2 DEF World
<1>2. CASE Recorder
  BY <1>2 DEF Recorder, JournalContext, JournalMotion, Rotate, fileVars
<1>3. CASE Watcher
  BY <1>3 DEF Watcher, Confirm, WriteSidecar, JournalEdge, fileVars
<1>4. CASE Daemon
  BY <1>4 DEF Daemon, StopOnSignal, StopOnPowerFail, Die, Stops, Detect, Dispose, Prune, fileVars
<1>5. CASE UNCHANGED vars
  BY <1>5 DEF vars, fileVars
<1>. QED
  BY <1>1, <1>2, <1>3, <1>4, <1>5 DEF Next

LEMMA OfferKept ==
  ASSUME IInv, [Next]_vars, NEW p \in Prints, Offered(p), p = print, Recoverable(p),
         \/ Moved(Found, p) # {}
         \/ \A i \in DOMAIN Found : Found[i].kind \notin {"context", "clean"}
  PROVE  Offered(p)' \/ pending' = Torn \/ boot' # boot
<1>1. CASE pending' = pending
  BY <1>1 DEF Offered
<1>2. CASE pending' # pending /\ boot' = boot
  <2>1. Apply
    BY <1>2, OfferStep
  <2>2. phase = "decided"
    BY <2>1 DEF Apply
  <2>3. CASE verdict.kind = "pending" /\ verdict.print = p
    <3>1. pending' \in {Offer(verdict.print, verdict.edge), pending, Torn}
      BY <2>1, <2>3 DEF Apply, Settles
    <3>. QED
      BY <1>2, <2>3, <3>1 DEF Offered, Offer
  <2>4. CASE verdict.kind \in {"unread", "unknown", "stopped"}
    <3>1. pending' = pending
      BY <2>1, <2>4 DEF Apply, Settles
    <3>. QED
      BY <1>2, <3>1
  <2>5. CASE Moved(Found, p) # {}
    <3>1. PICK j \in Moved(Found, print) : TRUE
      BY <2>5
    <3>. QED
      BY <2>2, <2>3, <2>4, <3>1, MovedIsDecided
  <2>6. CASE \A i \in DOMAIN Found : Found[i].kind \notin {"context", "clean"}
    <3>1. CASE verdict = Saying("unread")
      BY <2>4, <3>1 DEF Saying, NoVerdict
    <3>2. CASE \E complete \in SUBSET spent : verdict = Verdict(Found, sidecar, complete)
      BY <2>4, <2>6, <3>2, LogFacts, NothingSettles
    <3>. QED
      BY <2>2, <3>1, <3>2 DEF IInv, VerdictInv
  <2>. QED
    BY <2>5, <2>6
<1>. QED
  BY <1>1, <1>2

\* The steps that remove the sidecar.
LEMMA SidecarStep ==
  ASSUME IInv, [Next]_vars, boot' = boot, sidecar # NoEdge, sidecar' = NoEdge
  PROVE  Dispose
<1>1. CASE World
  <2>1. CASE PowerCut
    <3>1. boot \in Nat /\ boot' = boot + 1
      BY <2>1, BootAssumption DEF PowerCut, IInv, TypeOK
    <3>. QED
      BY <3>1
  <2>2. CASE Tick \/ StartPrint \/ LastExtrusion \/ EndPrint \/ LoseKlippy
    BY <2>2 DEF Tick, StartPrint, LastExtrusion, EndPrint, LoseKlippy, fileVars
  <2>. QED
    BY <1>1, <2>1, <2>2 DEF World
<1>2. CASE Recorder
  BY <1>2 DEF Recorder, JournalContext, JournalMotion, Rotate, fileVars
<1>3. CASE Watcher
  <2>1. CASE WriteSidecar
    <3>1. watcher = "confirmed" /\ sidecar' \in {sidecar, edgeTime}
      BY <2>1 DEF WriteSidecar
    <3>2. edgeTime \in Edges
      BY <3>1 DEF IInv, WatcherInv
    <3>3. \A x \in Edges : x \in [boot : Nat, t : Nat]
      BY BootAssumption DEF Edges
    <3>. QED
      BY <3>1, <3>2, <3>3, BootAssumption
  <2>2. CASE Confirm \/ JournalEdge
    BY <2>2 DEF Confirm, JournalEdge, fileVars
  <2>. QED
    BY <1>3, <2>1, <2>2 DEF Watcher
<1>4. CASE Daemon
  BY <1>4 DEF Daemon, StopOnSignal, StopOnPowerFail, Die, Stops, Detect, Apply, Prune, fileVars
<1>5. CASE UNCHANGED vars
  BY <1>5 DEF vars, fileVars
<1>. QED
  BY <1>1, <1>2, <1>3, <1>4, <1>5 DEF Next

LEMMA EdgeConsumedFirst ==
  ASSUME IInv, [Next]_vars, sidecar # NoEdge, sidecar' = NoEdge, boot' = boot,
         Recoverable(print), Moved(Found, print) # {},
         Admits(Found, CrashEpoch(Found), sidecar)
  PROVE  pending.kind = "offer" /\ pending.edge = sidecar
<1>1. Dispose
  BY SidecarStep
<1>2. phase \in {"applied", "failed"} /\ EdgeConsumed
  BY <1>1 DEF Dispose
<1>3. PICK j \in Moved(Found, print) : TRUE
  OBVIOUS
<1>4. verdict.kind # "unread" /\ verdict.kind # "stopped"
  BY <1>2 DEF EdgeConsumed, Settles
<1>5. verdict.kind = "pending" /\ verdict.edge = Admitted(Found, CrashEpoch(Found), sidecar)
  BY <1>2, <1>3, <1>4, MovedIsDecided
<1>6. verdict.edge = sidecar
  BY <1>5 DEF Admitted
<1>7. pending = Offer(verdict.print, verdict.edge)
  BY <1>2, <1>5 DEF EdgeConsumed, Settles, IInv, VerdictInv
<1>. QED
  BY <1>6, <1>7 DEF Offer
-----------------------------------------------------------------------------
(* What retention deletes. *)

\* While the offer is torn nothing is deleted, and while it names a print no
\* segment with a record of it.
LEMMA PinnedIsKept ==
  ASSUME IInv, NEW frame, NEW s \in Pruned(Metas, pending.kind, frame, Naming)
  PROVE  pending # Torn /\ \A i \in DOMAIN log : Offered(log[i].print) => log[i].seg # s
<1> DEFINE keepFrom == KeepFrom(Metas, pending.kind, frame, Naming)
           T == {SessionOf(Metas, x) : x \in Naming}
<1>1. AreMetas(Metas) /\ DOMAIN Metas = present /\ \A x \in present : Metas[x].created = created[x]
  BY MetasAre DEF IInv
<1>2. s \in present /\ SessionOf(Metas, s) < keepFrom
  BY <1>1, PrunedIs
<1>3. PICK n \in Nat : \A x : SessionOf(Metas, x) \in 1..n
  BY <1>1, SessionNumbers
<1>4. keepFrom # 1
  <2>1. SessionOf(Metas, s) \in Nat /\ SessionOf(Metas, s) >= 1
    BY <1>3
  <2>. QED
    BY <1>2, <2>1
<1>5. pending # Torn
  <2>1. SUFFICES ASSUME pending = Torn PROVE FALSE
    OBVIOUS
  <2>2. pending.kind = "torn"
    BY <2>1 DEF Torn
  <2>3. keepFrom = 1
    BY <2>2 DEF KeepFrom
  <2>. QED
    BY <1>4, <2>3
<1>6. ASSUME NEW i \in DOMAIN log, Offered(log[i].print), log[i].seg = s PROVE FALSE
  <2>1. pending.kind = "offer" /\ pending.print = log[i].print
    BY <1>6 DEF Offered
  <2>2. Naming # {} /\ keepFrom = Max(T)
    BY <1>4, <2>1 DEF KeepFrom
  <2>3. T \subseteq 1..n /\ T # {}
    BY <1>3, <2>2
  <2>4. PICK x \in Naming : SessionOf(Metas, x) = keepFrom
    <3>1. Max(T) \in T
      <4> HIDE DEF T
      <4>. QED
        BY <2>3, GreatestIs
    <3>2. PICK y \in Naming : Max(T) = SessionOf(Metas, y)
      BY <3>1
    <3>. QED
      BY <2>2, <3>2
  <2>5. PICK k \in DOMAIN log : log[k].seg = x /\ NamesFile(log[k]) /\ log[k].print = pending.print
    BY <2>4 DEF Naming
  <2>6. x \in present /\ s \in Nat /\ x \in Nat
    BY <1>2, <2>4, LogFacts DEF Naming
  <2>7. CASE x <= s
    <3>1. SessionOf(Metas, x) <= SessionOf(Metas, s)
      BY <1>1, <1>2, <2>6, <2>7, LaterSession
    <3>2. SessionOf(Metas, x) \in Nat /\ SessionOf(Metas, s) \in Nat
      BY <1>3
    <3>. QED
      BY <1>2, <2>4, <3>1, <3>2
  <2>8. CASE s <= x
    <3>1. Straight(created, s, x)
      BY <1>6, <2>1, <2>5 DEF IInv, HeadersInv, NamesFile
    <3>2. SessionOf(Metas, s) = SessionOf(Metas, x)
      BY <1>1, <1>2, <2>6, <2>8, <3>1, SameSession
    <3>3. SessionOf(Metas, x) \in Nat
      BY <1>3
    <3>. QED
      BY <1>2, <2>4, <3>2, <3>3
  <2>. QED
    BY <2>6, <2>7, <2>8
<1>. QED
  BY <1>5, <1>6

\* The steps that delete segments.
LEMMA DeletingStep ==
  ASSUME IInv, [Next]_vars, ~Prune
  PROVE  present \subseteq present'
<1>1. CASE World
  BY <1>1 DEF World, Tick, StartPrint, LastExtrusion, EndPrint, LoseKlippy, PowerCut, Journal,
     logVars, segVars
<1>2. CASE Recorder
  BY <1>2 DEF Recorder, JournalContext, JournalMotion, Rotate, OpenSegment, Journal, segVars
<1>3. CASE Watcher
  BY <1>3 DEF Watcher, Confirm, WriteSidecar, JournalEdge, Journal, logVars, segVars
<1>4. CASE Daemon
  BY <1>4 DEF Daemon, StopOnSignal, StopOnPowerFail, Die, Detect, Apply, Dispose, Journal,
     logVars, segVars
<1>5. CASE UNCHANGED vars
  BY <1>5 DEF vars, logVars, segVars
<1>. QED
  BY <1>1, <1>2, <1>3, <1>4, <1>5 DEF Next

LEMMA EvidenceKept ==
  ASSUME IInv, [Next]_vars
  PROVE  /\ pending = Torn => present \subseteq present'
         /\ \A i \in DOMAIN log : Offered(log[i].print) => log[i].seg \in present'
<1>1. CASE ~Prune
  BY <1>1, DeletingStep, LogFacts
<1>2. CASE Prune
  <2>1. PICK frame \in {"absent", "present", "torn"} :
          \E gone \in SUBSET Pruned(Metas, pending.kind, frame, Naming) :
            present' = (present \ gone) \cup {NewSegment}
    BY <1>2 DEF Prune
  <2>2. PICK gone \in SUBSET Pruned(Metas, pending.kind, frame, Naming) :
          present' = (present \ gone) \cup {NewSegment}
    BY <2>1
  <2>3. \A s \in gone :
          pending # Torn /\ \A i \in DOMAIN log : Offered(log[i].print) => log[i].seg # s
    BY PinnedIsKept
  <2>. QED
    BY <2>2, <2>3, LogFacts
<1>. QED
  BY <1>1, <1>2
-----------------------------------------------------------------------------
(* Boot's variables have their types. *)
THEOREM BootTypeCorrect == Spec => []TypeOK
<1>1. IInv => TypeOK
  BY DEF IInv
<1>. QED
  BY <1>1, Invariance, PTL

(* A print that died after it moved is offered at every start that reads   *)
(* the log, however many klippy sessions, idle sessions and restarts came  *)
(* after it (detect.rs detect), unless plrd was stopped since.             *)
THEOREM CrashesAreOffered == Spec => []CrashIsOffered
<1>1. IInv => CrashIsOffered
  BY CrashOffered
<1>. QED
  BY <1>1, Invariance, PTL

(* A print whose end was journaled is offered again only if it moved since *)
(* in that session, whatever retention left of the log (detect.rs).        *)
THEOREM EndsAreRemembered == Spec => []EndIsRemembered
<1>1. IInv => EndIsRemembered
  BY EndRemembered
<1>. QED
  BY <1>1, Invariance, PTL

(* No start gives up the offer of a print that moved and can still be      *)
(* recovered (detect.rs NoOffer::preserve_pending).                        *)
THEOREM OffersAreKept == Spec => OfferIsNotRetracted
<1>1. IInv /\ [Next]_vars =>
        [\A p \in Prints :
           (/\ Offered(p) /\ p = print /\ Recoverable(p)
            /\ \/ Moved(Found, p) # {}
               \/ \A i \in DOMAIN Found : Found[i].kind \notin {"context", "clean"})
           => Offered(p)' \/ pending' = Torn \/ boot' # boot]_vars
  BY OfferKept
<1>. QED
  BY <1>1, Invariance, PTL DEF Spec, OfferIsNotRetracted

(* The sidecar of a print that moved goes only once the pending file has   *)
(* its edge (daemon.rs dispose_power_fail_sidecar).                        *)
THEOREM EdgesAreConsumedFirst == Spec => EdgeIsConsumedFirst
<1>1. IInv /\ [Next]_vars =>
        [(/\ sidecar # NoEdge /\ sidecar' = NoEdge /\ boot' = boot
          /\ Recoverable(print) /\ Moved(Found, print) # {}
          /\ Admits(Found, CrashEpoch(Found), sidecar))
         => pending.kind = "offer" /\ pending.edge = sidecar]_vars
  BY EdgeConsumedFirst
<1>. QED
  BY <1>1, Invariance, PTL DEF Spec, EdgeIsConsumedFirst

(* No start deletes a record of a print that is offered, nor anything      *)
(* while the offer is torn (retention.rs resolve_pins, plan_pruning).      *)
THEOREM EvidenceIsNotDeleted == Spec => EvidenceIsKept
<1>1. IInv /\ [Next]_vars =>
        [boot' = boot =>
           /\ pending = Torn => present \subseteq present'
           /\ \A i \in DOMAIN log : Offered(log[i].print) => log[i].seg \in present']_vars
  BY EvidenceKept
<1>. QED
  BY <1>1, Invariance, PTL DEF Spec, EvidenceIsKept
=============================================================================
