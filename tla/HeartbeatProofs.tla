-------------------------- MODULE HeartbeatProofs --------------------------
(***************************************************************************)
(* Proofs about Heartbeat for any number of workers, any interval, timeout *)
(* and window, and supersteps of any length.                               *)
(***************************************************************************)
EXTENDS Heartbeat, SequenceTheorems, WellFoundedInduction, TLAPS

(* Induction over the natural numbers, for a set instead of a predicate *)

\* A nonempty set of natural numbers has a least element.
LEMMA LeastNat ==
  ASSUME NEW T \in SUBSET Nat, T # {}
  PROVE  \E x \in T : \A y \in T : x <= y
<1> DEFINE R == OpToRel(<, Nat)
<1>1. IsWellFoundedOn(R, Nat)
  BY NatLessThanWellFounded
<1>2. \A x, y \in Nat : <<y, x>> \in R <=> y < x
  BY DEF OpToRel
<1> HIDE DEF R
<1>3. PICK x \in T : \A y \in T : ~(<<y, x>> \in R)
  BY <1>1, WFMin
<1>4. x \in Nat /\ T \subseteq Nat
  OBVIOUS
<1>5. \A y \in T : ~(y < x)
  BY <1>2, <1>3, <1>4
<1>6. \A y \in T : x <= y
  BY <1>4, <1>5
<1> QED
  BY <1>6

\* A set that holds 0 and the successor of each of its members holds them all.
LEMMA SetInduction ==
  ASSUME NEW T, 0 \in T, \A n \in Nat : n \in T => n + 1 \in T
  PROVE  \A n \in Nat : n \in T
<1> DEFINE F == {n \in Nat : n \notin T}
<1> SUFFICES ASSUME F # {} PROVE FALSE
  OBVIOUS
<1>1. PICK x \in F : \A y \in F : x <= y
  BY LeastNat
<1>2. x \in Nat /\ x # 0 /\ x - 1 \in Nat /\ x - 1 \notin F
  BY <1>1
<1>3. x - 1 + 1 \in T
  BY <1>2
<1> QED
  BY <1>2, <1>3

----------------------------------------------------------------------------
(* The sum and the spread of a window *)

\* g is the table of the sums of the first 0 to n entries of s.
PartialSums(s, n, g) ==
  /\ g \in [0 .. n -> Int]
  /\ g = [i \in 0 .. n |-> IF i = 0 THEN 0 ELSE g[i - 1] + s[i]]

\* There is such a table: the recursion in SumOf defines a function.
LEMMA SumsExist ==
  ASSUME NEW s \in Seq(Int), NEW n \in Nat, n <= Len(s)
  PROVE  \E g : PartialSums(s, n, g)
<1> DEFINE T == {k \in Nat : k <= Len(s) => \E g : PartialSums(s, k, g)}
<1>1. 0 \in T
  <2>1. PartialSums(s, 0, [i \in 0 .. 0 |-> 0])
    BY DEF PartialSums
  <2> QED
    BY <2>1
<1>2. \A k \in Nat : k \in T => k + 1 \in T
  <2> SUFFICES ASSUME NEW k \in Nat, k \in T, k + 1 <= Len(s)
               PROVE  \E g : PartialSums(s, k + 1, g)
    OBVIOUS
  <2>1. PICK g : PartialSums(s, k, g)
    OBVIOUS
  <2> DEFINE h == [i \in 0 .. k + 1 |-> IF i = k + 1 THEN g[k] + s[k + 1] ELSE g[i]]
  <2>2. s[k + 1] \in Int
    OBVIOUS
  <2>3. h \in [0 .. k + 1 -> Int]
    BY <2>1, <2>2 DEF PartialSums
  <2>4. ASSUME NEW i \in 0 .. k + 1
        PROVE  h[i] = IF i = 0 THEN 0 ELSE h[i - 1] + s[i]
    <3>1. CASE i = k + 1
      BY <3>1
    <3>2. CASE i \in 0 .. k
      <4>1. g[i] = IF i = 0 THEN 0 ELSE g[i - 1] + s[i]
        BY <2>1, <3>2 DEF PartialSums
      <4>2. h[i] = g[i] /\ (i # 0 => i - 1 \in 0 .. k /\ h[i - 1] = g[i - 1])
        BY <3>2
      <4> QED
        BY <4>1, <4>2
    <3> QED
      BY <3>1, <3>2
  <2> HIDE DEF h
  <2>5. PartialSums(s, k + 1, h)
    BY <2>3, <2>4 DEF PartialSums
  <2> QED
    BY <2>5
<1> HIDE DEF T
<1>3. n \in T
  BY <1>1, <1>2, SetInduction
<1> QED
  BY <1>3 DEF T

\* The sum of a sequence of integers is an integer.
LEMMA SumOfType ==
  ASSUME NEW s \in Seq(Int)
  PROVE  SumOf(s) \in Int
<1> DEFINE Table(g) == g = [i \in 0 .. Len(s) |-> IF i = 0 THEN 0 ELSE g[i - 1] + s[i]]
<1>1. \E g : Table(g)
  BY SumsExist DEF PartialSums
<1>2. Table(CHOOSE g : Table(g))
  BY <1>1, Zenon
<1>3. SumOf(s) = (CHOOSE g : Table(g))[Len(s)]
  BY Zenon DEF SumOf
<1>4. PICK f : Table(f) /\ SumOf(s) = f[Len(s)]
  BY <1>2, <1>3, Zenon
<1> DEFINE T == {k \in Nat : k <= Len(s) => f[k] \in Int}
<1>5. 0 \in T
  BY <1>4
<1>6. \A k \in Nat : k \in T => k + 1 \in T
  <2> SUFFICES ASSUME NEW k \in Nat, k \in T, k + 1 <= Len(s)
               PROVE  f[k + 1] \in Int
    OBVIOUS
  <2>1. f[k + 1] = f[k + 1 - 1] + s[k + 1] /\ f[k] \in Int
    BY <1>4
  <2> QED
    BY <2>1
<1> HIDE DEF T
<1>7. Len(s) \in T
  BY <1>5, <1>6, SetInduction
<1> QED
  BY <1>4, <1>7 DEF T

\* The statistics of a window are integers.
LEMMA WindowTypes ==
  ASSUME NEW s \in Seq(Nat), NEW e \in Nat
  PROVE  Len(s) \in Nat /\ Excess(s, e) \in Int /\ Spread(s) \in Int
<1>1. s \in Seq(Int) /\ Len(s) \in Nat
  BY SeqMonotonic, LenProperties
<1>2. Squares(s) \in Seq(Int)
  <2>1. \A i \in 1 .. Len(s) : Square(s[i]) \in Int
    BY <1>1 DEF Square
  <2>2. Squares(s) \in [1 .. Len(s) -> Int]
    BY <2>1 DEF Squares
  <2> QED
    BY <1>1, <2>2, SeqDef
<1>3. SumOf(s) \in Int /\ SumOf(Squares(s)) \in Int
  BY <1>1, <1>2, SumOfType
<1> HIDE DEF SumOf, Squares
<1> QED
  BY <1>1, <1>3 DEF Excess, Spread

\* Silence only makes a worker more overdue, and hence more suspect.
LEMMA SilenceGrows ==
  ASSUME NEW s \in Seq(Nat), NEW e \in Nat, NEW d \in Nat
  PROVE  /\ Excess(s, e + d) >= Excess(s, e)
         /\ PhiSuspected(s, e) => PhiSuspected(s, e + d)
<1>1. Len(s) \in Nat /\ SumOf(s) \in Int
  <2>1. s \in Seq(Int)
    BY SeqMonotonic
  <2> QED
    BY <2>1, LenProperties, SumOfType
<1>2. Excess(s, e) \in Int /\ Excess(s, e + d) \in Int /\ Spread(s) \in Int
  BY WindowTypes
<1>3. Excess(s, e + d) >= Excess(s, e)
  <2> DEFINE n == Len(s)
             t == SumOf(s)
  <2>1. n \in Nat /\ t \in Int
    BY <1>1
  <2>2. Excess(s, e + d) = n * (e + d) - t /\ Excess(s, e) = n * e - t
    BY DEF Excess
  <2> HIDE DEF n, t
  <2>3. n * (e + d) = n * e + n * d /\ n * d \in Nat /\ n * e \in Nat
    BY <2>1
  <2> QED
    BY <2>1, <2>2, <2>3
<1>4. ASSUME PhiSuspected(s, e) PROVE PhiSuspected(s, e + d)
  <2> DEFINE x == Excess(s, e)
             y == Excess(s, e + d)
             z == Spread(s)
  <2>1. x \in Int /\ y \in Int /\ z \in Int /\ y >= x
    BY <1>2, <1>3
  <2>2. x > 0 /\ 10000 * Square(x) >= 138311 * z
    BY <1>4 DEF PhiSuspected
  <2> HIDE DEF x, y, z
  <2>3. Square(y) >= Square(x) /\ Square(x) \in Int /\ Square(y) \in Int
    BY <2>1, <2>2 DEF Square
  <2>4. y > 0 /\ 10000 * Square(y) >= 138311 * z
    BY <2>1, <2>2, <2>3
  <2> QED
    BY <2>4 DEF y, z, PhiSuspected
<1> QED
  BY <1>3, <1>4
----------------------------------------------------------------------------
(* The rolling window *)

WindowLen(n) == IF n < Window THEN n ELSE Window
Latest(all)  == SubSeq(all, Len(all) - WindowLen(Len(all)) + 1, Len(all))
SeedSeq      == [i \in 1 .. Seeds |-> Interval]

\* The latest entries of a sequence, one by one.
LEMMA LatestProperties ==
  ASSUME NEW all \in Seq(Nat)
  PROVE  /\ Latest(all) \in Seq(Nat)
         /\ Len(all) \in Nat
         /\ WindowLen(Len(all)) \in 0 .. Len(all)
         /\ Len(Latest(all)) = WindowLen(Len(all))
         /\ \A i \in 1 .. WindowLen(Len(all)) :
              Latest(all)[i] = all[Len(all) - WindowLen(Len(all)) + i]
<1>1. Len(all) \in Nat /\ \A i \in 1 .. Len(all) : all[i] \in Nat
  BY LenProperties, ElementOfSeq
<1> DEFINE n == WindowLen(Len(all))
           m == Len(all) - n + 1
<1>2. n \in 0 .. Len(all) /\ n \in Nat
  BY <1>1, WindowAssumption DEF WindowLen
<1> HIDE DEF n
<1>3. m \in Int /\ Len(all) \in Int /\ \A i \in m .. Len(all) : all[i] \in Nat
  BY <1>1, <1>2
<1>4. /\ SubSeq(all, m, Len(all)) \in Seq(Nat)
      /\ Len(SubSeq(all, m, Len(all))) = IF m <= Len(all) THEN Len(all) - m + 1 ELSE 0
      /\ \A i \in 1 .. Len(all) - m + 1 : SubSeq(all, m, Len(all))[i] = all[m + i - 1]
  BY <1>3, SubSeqProperties
<1>5. Latest(all) = SubSeq(all, m, Len(all))
  BY DEF Latest, n
<1>6. Len(Latest(all)) = n
  BY <1>1, <1>2, <1>4, <1>5
<1>7. ASSUME NEW i \in 1 .. n PROVE Latest(all)[i] = all[Len(all) - n + i]
  <2>1. i \in 1 .. Len(all) - m + 1 /\ m + i - 1 = Len(all) - n + i
    BY <1>1, <1>2
  <2> QED
    BY <1>4, <1>5, <2>1
<1> QED
  BY <1>1, <1>2, <1>4, <1>5, <1>6, <1>7 DEF n

\* Pushing back and erasing the front keeps the latest entries.
LEMMA RolledLatest ==
  ASSUME NEW all \in Seq(Nat), NEW x \in Nat
  PROVE  Rolled(Append(Latest(all), x)) = Latest(Append(all, x))
<1> DEFINE L == Len(all)
           n == WindowLen(L)
           s == Append(Latest(all), x)
           after == Append(all, x)
           k == WindowLen(Len(after))
<1>0. Window \in Nat \ {0}
  BY WindowAssumption
<1>1. /\ Latest(all) \in Seq(Nat) /\ L \in Nat /\ n \in 0 .. L
      /\ Len(Latest(all)) = n
      /\ \A i \in 1 .. n : Latest(all)[i] = all[L - n + i]
  BY LatestProperties
<1>2. /\ after \in Seq(Nat) /\ Len(after) = L + 1
      /\ \A i \in 1 .. L : after[i] = all[i]
      /\ after[L + 1] = x
  BY AppendProperties
<1>3. /\ s \in Seq(Nat) /\ s # <<>> /\ Len(s) = n + 1
      /\ \A i \in 1 .. n : s[i] = Latest(all)[i]
      /\ s[n + 1] = x
  BY <1>1, AppendProperties
<1>4. /\ Latest(after) \in Seq(Nat) /\ k \in 0 .. Len(after) /\ Len(Latest(after)) = k
      /\ \A i \in 1 .. k : Latest(after)[i] = after[Len(after) - k + i]
  <2>1. after \in Seq(Nat)
    BY <1>2
  <2> HIDE DEF after
  <2> QED
    BY <2>1, LatestProperties
<1>5. n = (IF L < Window THEN L ELSE Window) /\ k = (IF L + 1 < Window THEN L + 1 ELSE Window)
  BY <1>2 DEF WindowLen
<1> HIDE DEF L, n, s, after, k
<1>6. \A i \in 1 .. n + 1 : s[i] = after[L - n + i]
  <2> SUFFICES ASSUME NEW i \in 1 .. n + 1 PROVE s[i] = after[L - n + i]
    OBVIOUS
  <2>1. CASE i = n + 1
    BY <1>1, <1>2, <1>3, <2>1
  <2>2. CASE i \in 1 .. n
    <3>1. L - n + i \in 1 .. L
      BY <1>1, <2>2
    <3> QED
      BY <1>1, <1>2, <1>3, <2>2, <3>1
  <2> QED
    BY <1>1, <2>1, <2>2
<1>7. CASE n + 1 > Window
  <2>1. n = Window /\ k = Window /\ n + 1 - 1 = n
    BY <1>0, <1>1, <1>5, <1>7
  <2>2. /\ Tail(s) \in Seq(Nat) /\ Len(Tail(s)) = n
        /\ \A i \in 1 .. n : Tail(s)[i] = s[i + 1]
    <3>1. /\ Tail(s) \in Seq(Nat) /\ Len(Tail(s)) = Len(s) - 1
          /\ \A i \in 1 .. Len(Tail(s)) : Tail(s)[i] = s[i + 1]
      BY <1>3, HeadTailProperties
    <3>2. Len(s) - 1 = n
      <4>1. Len(s) = n + 1 /\ n \in Nat
        BY <1>1, <1>3
      <4> QED
        BY <4>1
    <3> QED
      BY <3>1, <3>2
  <2>3. ASSUME NEW i \in 1 .. n PROVE Tail(s)[i] = Latest(after)[i]
    <3>1. i + 1 \in 1 .. n + 1 /\ L - n + (i + 1) = Len(after) - k + i /\ i \in 1 .. k
      BY <1>0, <1>1, <1>2, <2>1
    <3>2. s[i + 1] = after[L - n + (i + 1)]
      BY <1>6, <3>1
    <3> QED
      BY <1>4, <2>2, <3>1, <3>2
  <2>4. Tail(s) = Latest(after)
    BY <1>4, <2>1, <2>2, <2>3, SeqEqual
  <2> QED
    BY <1>3, <1>7, <2>4 DEF Rolled, s, after
<1>8. CASE ~(n + 1 > Window)
  <2>1. n = L /\ k = n + 1
    BY <1>0, <1>1, <1>5, <1>8
  <2>2. ASSUME NEW i \in 1 .. n + 1 PROVE s[i] = Latest(after)[i]
    <3>1. L - n + i = Len(after) - k + i /\ i \in 1 .. k
      BY <1>1, <1>2, <2>1
    <3> QED
      BY <1>4, <1>6, <3>1
  <2>3. s = Latest(after)
    BY <1>3, <1>4, <2>1, <2>2, SeqEqual
  <2> QED
    BY <1>3, <1>8, <2>3 DEF Rolled, s, after
<1> QED
  BY <1>7, <1>8

----------------------------------------------------------------------------
(* The inductive invariant *)

\* A suspicion stays justified while the silence lasts.
SuspicionInv ==
  \A w \in Tracked : state[w] = "SUSPECTED" => PhiSuspected(intervals[w], since[w])

IInv == TypeOK /\ RollingWindow /\ NoEarlySuspicion /\ SuspicionInv

\* RollingWindow in terms of Latest.
LEMMA RollingWindowLatest ==
  RollingWindow <=> \A w \in Tracked : intervals[w] = Latest(SeedSeq \o gaps[w])
  BY DEF RollingWindow, Latest, WindowLen, SeedSeq

\* The seeds are a sequence that fits the window.
LEMMA SeedsFit ==
  /\ SeedSeq \in Seq(Nat) /\ Len(SeedSeq) = Seeds
  /\ Seeds \in Nat \ {0} /\ Window \in Nat \ {0} /\ Seeds <= Window
<1>1. Seeds \in Nat \ {0} /\ Window \in Nat \ {0} /\ Seeds <= Window /\ Interval \in Nat
  BY WindowAssumption, TimesAssumption
<1>2. SeedSeq \in [1 .. Seeds -> Nat]
  BY <1>1 DEF SeedSeq
<1>3. SeedSeq \in Seq(Nat)
  BY <1>1, <1>2, SeqDef
<1>4. Len(SeedSeq) = Seeds
  BY <1>1, <1>2, <1>3
<1> QED
  BY <1>1, <1>3, <1>4

\* Fresh records satisfy the inductive invariant.
LEMMA InitIInv == Init => IInv
<1> SUFFICES ASSUME Init PROVE IInv
  OBVIOUS
<1>1. intervals = [w \in Tracked |-> SeedSeq] /\ gaps = [w \in Tracked |-> <<>>]
  BY DEF Init, SeedSeq
<1>2. TypeOK
  <2>1. intervals \in [Tracked -> Seq(Nat)] /\ gaps \in [Tracked -> Seq(Nat)]
    BY <1>1, SeedsFit
  <2>2. \A w \in Tracked : Len(intervals[w]) \in Seeds .. Window
    BY <1>1, SeedsFit
  <2>3. /\ since \in [Tracked -> Nat] /\ state \in [Tracked -> NodeState]
        /\ beats \in [Tracked -> Nat]
    BY DEF Init, NodeState
  <2>4. /\ monitor \in {"test", "sleep", "check", "exited"}
        /\ running \in BOOLEAN /\ done \in BOOLEAN /\ injected \in {"no", "unseen", "seen"}
        /\ step \in 0 .. MaxSupersteps /\ to_beat \in 0 .. WorkerCount /\ gap \in 0 .. MaxGap
        /\ inject_in \in -1 .. Interval
    <3>1. MaxSupersteps \in Nat /\ MaxGap \in Nat /\ WorkerCount \in Nat /\ Interval \in Nat
      BY CountAssumption, RunAssumption, TimesAssumption
    <3>2. inject_in \in -1 .. Interval
      <4>1. inject_in = Interval \/ inject_in = -1
        BY DEF Init
      <4> QED
        BY <3>1, <4>1
    <3>3. /\ monitor = "test" /\ running = TRUE /\ done = FALSE /\ injected = "no"
          /\ step = 0 /\ to_beat = 0 /\ gap = 0
      BY DEF Init
    <3>4. /\ monitor \in {"test", "sleep", "check", "exited"}
          /\ running \in BOOLEAN /\ done \in BOOLEAN /\ injected \in {"no", "unseen", "seen"}
      BY <3>3, Zenon
    <3>5. step \in 0 .. MaxSupersteps /\ to_beat \in 0 .. WorkerCount /\ gap \in 0 .. MaxGap
      BY <3>1, <3>3
    <3> QED
      BY <3>2, <3>4, <3>5
  <2> QED
    BY <2>1, <2>2, <2>3, <2>4 DEF TypeOK
<1>3. RollingWindow
  <2>1. SeedSeq \o <<>> = SeedSeq
    BY SeedsFit, ConcatEmptySeq
  <2>2. Latest(SeedSeq) = SeedSeq
    <3>1. WindowLen(Seeds) = Seeds
      BY SeedsFit DEF WindowLen
    <3>2. Latest(SeedSeq) = SubSeq(SeedSeq, 1, Len(SeedSeq))
      BY <3>1, SeedsFit DEF Latest
    <3> QED
      BY <3>2, SeedsFit, SubSeqFull
  <2> QED
    BY <1>1, <2>1, <2>2, RollingWindowLatest
<1>4. NoEarlySuspicion /\ SuspicionInv
  BY DEF Init, NoEarlySuspicion, SuspicionInv
<1> QED
  BY <1>2, <1>3, <1>4 DEF IInv

----------------------------------------------------------------------------
(* The steps *)

\* A round of the monitor marks the silent and keeps what it has marked.
LEMMA CheckIInv ==
  ASSUME IInv, Check
  PROVE  IInv'
<1>0. TypeOK /\ RollingWindow /\ NoEarlySuspicion /\ SuspicionInv
  BY DEF IInv
<1>1. /\ state' = [w \in Tracked |-> Checked(w)] /\ monitor' = "test"
      /\ UNCHANGED <<running, step, to_beat, gap, done, since, intervals, beats, gaps, inject_in>>
      /\ injected' = IF injected = "unseen" THEN "seen" ELSE injected
  BY DEF Check, coordVars
<1>2. \A w \in Tracked : Checked(w) \in NodeState
  BY DEF Checked, Verdict, NodeState
<1>3. TypeOK'
  <2>1. state' \in [Tracked -> NodeState]
    BY <1>1, <1>2
  <2>2. injected' \in {"no", "unseen", "seen"} /\ monitor' \in {"test", "sleep", "check", "exited"}
    BY <1>0, <1>1, Zenon DEF TypeOK
  <2> QED
    BY <1>0, <1>1, <2>1, <2>2 DEF TypeOK
<1>4. RollingWindow'
  BY <1>0, <1>1 DEF RollingWindow
<1>5. NoEarlySuspicion'
  <2>1. ASSUME NEW w \in Tracked, Checked(w) # "ALIVE"
        PROVE  Excess(intervals[w], since[w]) > 0 \/ since[w] > Timeout
    BY <1>0, <2>1 DEF Checked, Verdict, PhiFailed, PhiSuspected, NoEarlySuspicion
  <2> QED
    BY <1>1, <2>1 DEF NoEarlySuspicion
<1>6. SuspicionInv'
  BY <1>1 DEF SuspicionInv, Checked, Verdict
<1> QED
  BY <1>3, <1>4, <1>5, <1>6 DEF IInv

\* A heartbeat rolls the window of its worker and clears its suspicion.
LEMMA BeatIInv ==
  ASSUME IInv, Beat
  PROVE  IInv'
<1>0. TypeOK /\ RollingWindow /\ NoEarlySuspicion /\ SuspicionInv
  BY DEF IInv
<1>1. /\ to_beat' \in 0 .. WorkerCount
      /\ UNCHANGED <<monitor, running, step, gap, done, inject_in, injected>>
  <2>1. to_beat \in 0 .. WorkerCount - 1
    BY DEF Beat, Workers
  <2> QED
    BY <2>1, CountAssumption DEF Beat, monitorVars, injectVars
<1>2. /\ since \in [Tracked -> Nat] /\ state \in [Tracked -> NodeState]
      /\ intervals \in [Tracked -> Seq(Nat)] /\ beats \in [Tracked -> Nat]
      /\ gaps \in [Tracked -> Seq(Nat)]
  BY <1>0 DEF TypeOK
<1>3. CASE to_beat \notin Tracked
  <2>1. UNCHANGED records
    BY <1>3 DEF Beat
  <2>2. TypeOK'
    BY <1>0, <1>1, <2>1 DEF TypeOK, records
  <2>3. RollingWindow' /\ NoEarlySuspicion' /\ SuspicionInv'
    BY <1>0, <1>1, <2>1 DEF records, RollingWindow, NoEarlySuspicion, SuspicionInv
  <2> QED
    BY <2>2, <2>3 DEF IInv
<1>4. CASE to_beat \in Tracked
  <2> DEFINE w == to_beat
             x == since[w]
             all == SeedSeq \o gaps[w]
  <2>1. /\ intervals' = [intervals EXCEPT ![w] =
                           IF beats[w] > 0 THEN Rolled(Append(@, x)) ELSE @]
        /\ gaps' = [gaps EXCEPT ![w] = IF beats[w] > 0 THEN Append(@, x) ELSE @]
        /\ since' = [since EXCEPT ![w] = 0]
        /\ beats' = [beats EXCEPT ![w] = @ + 1]
        /\ state' = [state EXCEPT ![w] = "ALIVE"]
    BY <1>4 DEF Beat, StateAfterBeat
  <2>2. w \in Tracked /\ x \in Nat /\ gaps[w] \in Seq(Nat)
    BY <1>2, <1>4
  <2>3. all \in Seq(Nat) /\ intervals[w] = Latest(all)
    <3>1. intervals[w] = Latest(SeedSeq \o gaps[w])
      BY <1>0, <2>2, RollingWindowLatest
    <3> QED
      BY <2>2, <3>1, SeedsFit, ConcatProperties
  <2>4. Append(gaps[w], x) \in Seq(Nat) /\ SeedSeq \o Append(gaps[w], x) = Append(all, x)
    <3> DEFINE g == gaps[w]
    <3>1. g \in Seq(Nat) /\ x \in Nat /\ SeedSeq \in Seq(Nat) /\ <<x>> \in Seq(Nat)
      BY <2>2, SeedsFit
    <3> HIDE DEF g, x
    <3>2. Append(g, x) = g \o <<x>> /\ Append(g, x) \in Seq(Nat)
      BY <3>1, AppendIsConcat, AppendProperties
    <3>3. Append(SeedSeq \o g, x) = (SeedSeq \o g) \o <<x>>
      <4>1. SeedSeq \o g \in Seq(Nat)
        BY <3>1, ConcatProperties
      <4> QED
        BY <3>1, <4>1, AppendIsConcat
    <3>4. (SeedSeq \o g) \o <<x>> = SeedSeq \o (g \o <<x>>)
      BY <3>1, ConcatAssociative
    <3> QED
      BY <3>2, <3>3, <3>4 DEF g
  <2> HIDE DEF w, x, all
  <2>5. Rolled(Append(intervals[w], x)) = Latest(Append(all, x))
    BY <2>2, <2>3, RolledLatest
  <2>6. Append(all, x) \in Seq(Nat) /\ Latest(Append(all, x)) \in Seq(Nat)
    <3>1. Append(all, x) \in Seq(Nat)
      BY <2>2, <2>3, AppendProperties
    <3> QED
      BY <3>1, LatestProperties
  <2>7. /\ intervals' \in [Tracked -> Seq(Nat)] /\ gaps' \in [Tracked -> Seq(Nat)]
        /\ since' \in [Tracked -> Nat] /\ beats' \in [Tracked -> Nat]
        /\ state' \in [Tracked -> NodeState]
        /\ state'[w] = "ALIVE" /\ since'[w] = 0
        /\ \A v \in Tracked \ {w} :
             UNCHANGED <<intervals[v], gaps[v], since[v], state[v]>>
    BY <1>2, <2>1, <2>2, <2>4, <2>5, <2>6 DEF NodeState
  <2>8. intervals'[w] = Latest(SeedSeq \o gaps'[w])
    <3>1. CASE beats[w] > 0
      <4>1. intervals'[w] = Latest(Append(all, x)) /\ gaps'[w] = Append(gaps[w], x)
        BY <1>2, <2>1, <2>2, <2>5, <3>1
      <4> QED
        BY <2>4, <4>1
    <3>2. CASE ~(beats[w] > 0)
      <4>1. intervals'[w] = intervals[w] /\ gaps'[w] = gaps[w]
        BY <1>2, <2>1, <2>2, <3>2
      <4> QED
        BY <2>3, <4>1 DEF all
    <3> QED
      BY <3>1, <3>2
  <2>9. \A v \in Tracked : intervals'[v] = Latest(SeedSeq \o gaps'[v])
    <3>1. \A v \in Tracked : intervals[v] = Latest(SeedSeq \o gaps[v])
      BY <1>0, RollingWindowLatest
    <3> QED
      BY <2>7, <2>8, <3>1
  <2>10. RollingWindow'
    BY <2>9 DEF RollingWindow, Latest, WindowLen, SeedSeq
  <2>11. \A v \in Tracked : Len(intervals'[v]) \in Seeds .. Window
    <3>1. ASSUME NEW v \in Tracked PROVE Len(intervals'[v]) \in Seeds .. Window
      <4> DEFINE h == SeedSeq \o gaps'[v]
      <4>1. gaps'[v] \in Seq(Nat)
        BY <2>7
      <4>2. Len(h) = Seeds + Len(gaps'[v]) /\ h \in Seq(Nat) /\ Len(gaps'[v]) \in Nat
        BY <4>1, SeedsFit, ConcatProperties, LenProperties
      <4> HIDE DEF h
      <4>3. Len(Latest(h)) = WindowLen(Len(h)) /\ Len(h) \in Nat
        BY <4>2, LatestProperties
      <4>4. Len(h) >= Seeds
        BY <2>7, <4>2, SeedsFit
      <4>5. WindowLen(Len(h)) \in Seeds .. Window
        BY <4>3, <4>4, SeedsFit DEF WindowLen
      <4> QED
        BY <2>9, <4>3, <4>5 DEF h
    <3> QED
      BY <3>1
  <2>12. TypeOK'
    BY <1>0, <1>1, <2>7, <2>11 DEF TypeOK
  <2>13. NoEarlySuspicion' /\ SuspicionInv'
    BY <1>0, <2>2, <2>7 DEF NoEarlySuspicion, SuspicionInv
  <2> QED
    BY <2>10, <2>12, <2>13 DEF IInv
<1> QED
  BY <1>3, <1>4

\* Time passes, or the injection moves last_seen into the past: the silence
\* of some workers grows, and the verdicts stay what they are until a check.
LEMMA SilenceIInv ==
  ASSUME IInv, Tick \/ Inject
  PROVE  IInv'
<1>0. TypeOK /\ RollingWindow /\ NoEarlySuspicion /\ SuspicionInv
  BY DEF IInv
<1>1. /\ since \in [Tracked -> Nat] /\ intervals \in [Tracked -> Seq(Nat)]
      /\ Timeout \in Nat /\ Interval \in Nat /\ gap \in 0 .. MaxGap
      /\ inject_in \in -1 .. Interval /\ MaxGap \in Nat
  BY <1>0, TimesAssumption, RunAssumption DEF TypeOK
<1>2. UNCHANGED <<running, step, to_beat, done, state, intervals, beats, gaps>>
  BY DEF Tick, Inject, monitorVars, coordVars
<1>3. /\ since' \in [Tracked -> Nat]
      /\ \A w \in Tracked : \E d \in Nat : since'[w] = since[w] + d
  <2>1. CASE Tick
    <3>1. since' = [w \in Tracked |-> since[w] + 1]
      BY <2>1 DEF Tick
    <3> QED
      BY <1>1, <3>1
  <2>2. CASE Inject
    <3>1. since' = [since EXCEPT ![Target] = @ + 10 * Timeout] /\ 10 * Timeout \in Nat
      BY <1>1, <2>2 DEF Inject
    <3>2. since' \in [Tracked -> Nat]
      <4> DEFINE d == 10 * Timeout
      <4>1. since' = [since EXCEPT ![Target] = @ + d] /\ d \in Nat
        BY <3>1
      <4> HIDE DEF d
      <4>2. Target \in Tracked => since[Target] + d \in Nat
        BY <1>1, <4>1
      <4> QED
        BY <1>1, <4>1, <4>2
    <3>3. ASSUME NEW w \in Tracked PROVE \E d \in Nat : since'[w] = since[w] + d
      <4>1. CASE w = Target
        BY <1>1, <3>1, <4>1
      <4>2. CASE w # Target
        <5>1. since'[w] = since[w] + 0
          BY <1>1, <3>1, <4>2
        <5> QED
          BY <5>1
      <4> QED
        BY <4>1, <4>2
    <3> QED
      BY <3>2, <3>3
  <2> QED
    BY <2>1, <2>2
<1>4. TypeOK'
  <2>1. inject_in' \in -1 .. Interval /\ gap' \in 0 .. MaxGap
    BY <1>1 DEF Tick, Inject, coordVars
  <2>2. monitor' \in {"test", "sleep", "check", "exited"} /\ injected' \in {"no", "unseen", "seen"}
    BY <1>0, Zenon DEF Tick, Inject, monitorVars, TypeOK
  <2> QED
    BY <1>0, <1>2, <1>3, <2>1, <2>2 DEF TypeOK
<1>5. RollingWindow'
  BY <1>0, <1>2 DEF RollingWindow
<1>6. ASSUME NEW w \in Tracked
      PROVE  /\ since'[w] >= since[w]
             /\ Excess(intervals[w], since'[w]) >= Excess(intervals[w], since[w])
             /\ PhiSuspected(intervals[w], since[w]) => PhiSuspected(intervals[w], since'[w])
             /\ Excess(intervals[w], since'[w]) \in Int
             /\ Excess(intervals[w], since[w]) \in Int
  <2>1. since[w] \in Nat /\ since'[w] \in Nat /\ intervals[w] \in Seq(Nat)
    BY <1>1, <1>3
  <2>2. PICK d \in Nat : since'[w] = since[w] + d
    BY <1>3
  <2>3. since'[w] >= since[w]
    BY <1>1, <2>1, <2>2
  <2>4. /\ Excess(intervals[w], since[w] + d) >= Excess(intervals[w], since[w])
        /\ PhiSuspected(intervals[w], since[w]) => PhiSuspected(intervals[w], since[w] + d)
    BY <2>1, SilenceGrows
  <2> QED
    BY <2>1, <2>2, <2>3, <2>4, WindowTypes
<1>7. NoEarlySuspicion'
  <2> SUFFICES ASSUME NEW w \in Tracked, state[w] # "ALIVE"
               PROVE  Excess(intervals[w], since'[w]) > 0 \/ since'[w] > Timeout
    BY <1>2 DEF NoEarlySuspicion
  <2>1. CASE Excess(intervals[w], since[w]) > 0
    BY <1>6, <2>1
  <2>2. CASE since[w] > Timeout
    BY <1>1, <1>3, <1>6, <2>2
  <2> QED
    BY <1>0, <2>1, <2>2 DEF NoEarlySuspicion
<1>8. SuspicionInv'
  BY <1>0, <1>2, <1>6 DEF SuspicionInv
<1> QED
  BY <1>4, <1>5, <1>7, <1>8 DEF IInv

\* Every step preserves the inductive invariant.
LEMMA NextIInv == IInv /\ [Next]_vars => IInv'
<1> SUFFICES ASSUME IInv, [Next]_vars PROVE IInv'
  OBVIOUS
<1>0. TypeOK /\ RollingWindow /\ NoEarlySuspicion /\ SuspicionInv
  BY DEF IInv
<1>1. CASE Check
  BY <1>1, CheckIInv
<1>2. CASE Beat
  BY <1>2, BeatIInv
<1>3. CASE Tick \/ Inject
  BY <1>3, SilenceIInv
<1>4. ASSUME UNCHANGED records, TypeOK' PROVE IInv'
  BY <1>0, <1>4 DEF IInv, records, RollingWindow, NoEarlySuspicion, SuspicionInv
<1>5. CASE NextSuperstep
  <2>1. step' \in 0 .. MaxSupersteps /\ to_beat' \in 0 .. WorkerCount /\ gap' \in 0 .. MaxGap
    <3>1. MaxSupersteps \in Nat /\ MaxGap \in Nat /\ WorkerCount \in Nat
      BY RunAssumption, CountAssumption
    <3>2. step \in 0 .. MaxSupersteps
      BY <1>0 DEF TypeOK
    <3> QED
      BY <1>5, <3>1, <3>2 DEF NextSuperstep
  <2>2. UNCHANGED <<monitorVars, done, records, injectVars>>
    BY <1>5 DEF NextSuperstep
  <2>3. TypeOK'
    BY <1>0, <2>1, <2>2 DEF TypeOK, monitorVars, records, injectVars
  <2> QED
    BY <1>4, <2>2, <2>3
<1>6. CASE LoopTest \/ Stop \/ Finish
  <2>1. /\ UNCHANGED <<step, to_beat, gap, records, injectVars>>
        /\ running' \in BOOLEAN /\ done' \in BOOLEAN
        /\ monitor' \in {"test", "sleep", "check", "exited"}
    BY <1>0, <1>6, Zenon DEF LoopTest, Stop, Finish, TypeOK, monitorVars, coordVars
  <2>2. TypeOK'
    BY <1>0, <2>1 DEF TypeOK, records, injectVars
  <2> QED
    BY <1>4, <2>1, <2>2
<1>7. CASE UNCHANGED vars
  <2>1. TypeOK'
    BY <1>0, <1>7 DEF TypeOK, vars, monitorVars, coordVars, records, injectVars
  <2> QED
    BY <1>4, <1>7, <2>1 DEF vars, monitorVars
<1> QED
  BY <1>1, <1>2, <1>3, <1>5, <1>6, <1>7 DEF Next, MonitorStep, CoordStep, Done

----------------------------------------------------------------------------
(* Theorems *)

\* The inductive invariant holds in every reachable state.
THEOREM Invariance == Spec => []IInv
  BY InitIInv, NextIInv, PTL DEF Spec

\* Every record keeps its type, and a window never has fewer entries than
\* the seeds nor more than WINDOW.
THEOREM TypeCorrect == Spec => []TypeOK
<1>1. IInv => TypeOK
  BY DEF IInv
<1> QED
  BY <1>1, Invariance, PTL

\* The window is always the latest inter-arrival times, for any window size.
THEOREM WindowContents == Spec => []RollingWindow
<1>1. IInv => RollingWindow
  BY DEF IInv
<1> QED
  BY <1>1, Invariance, PTL

\* A worker no later than its own mean is neither suspected nor failed,
\* unless it is past the timeout.
THEOREM SuspicionJustified == Spec => []NoEarlySuspicion
<1>1. IInv => NoEarlySuspicion
  BY DEF IInv
<1> QED
  BY <1>1, Invariance, PTL

\* No check makes a verdict milder: only a heartbeat does, which restarts
\* the silence.
THEOREM VerdictsMonotone == Spec => SuspicionMonotone
<1>1. ASSUME IInv, [Next]_vars, NEW w \in Tracked,
             Severity[state'[w]] < Severity[state[w]]
      PROVE  since'[w] = 0
  <2>0. /\ state \in [Tracked -> NodeState] /\ since \in [Tracked -> Nat] /\ SuspicionInv
    BY <1>1 DEF IInv, TypeOK
  <2>1. state'[w] # state[w]
    <3>1. Severity[state[w]] \in Nat
      BY <2>0 DEF NodeState, Severity
    <3> QED
      BY <1>1, <3>1
  <2>2. CASE Check
    <3>1. state'[w] = Checked(w)
      BY <2>2 DEF Check
    <3>2. CASE state[w] = "FAILED"
      BY <2>1, <3>1, <3>2 DEF Checked
    <3>3. CASE state[w] = "SUSPECTED"
      <4>1. PhiSuspected(intervals[w], since[w])
        BY <2>0, <3>3 DEF SuspicionInv
      <4>2. Checked(w) = "SUSPECTED" \/ Checked(w) = "FAILED"
        BY <3>3, <4>1 DEF Checked, Verdict
      <4>3. state'[w] = "FAILED"
        BY <2>1, <3>1, <3>3, <4>2
      <4> QED
        BY <1>1, <3>3, <4>3 DEF Severity
    <3>4. CASE state[w] = "ALIVE"
      <4>1. Checked(w) \in NodeState
        BY DEF Checked, Verdict, NodeState
      <4> QED
        BY <1>1, <3>1, <3>4, <4>1 DEF Severity, NodeState
    <3> QED
      BY <2>0, <3>2, <3>3, <3>4 DEF NodeState
  <2>3. CASE Beat
    <3>1. to_beat = w /\ w \in Tracked
      BY <2>0, <2>1, <2>3 DEF Beat, records
    <3> QED
      BY <2>0, <2>3, <3>1 DEF Beat
  <2>4. CASE LoopTest \/ NextSuperstep \/ Stop \/ Finish \/ Tick \/ Inject \/ UNCHANGED vars
    BY <2>1, <2>4 DEF LoopTest, NextSuperstep, Stop, Finish, Tick, Inject, vars, records
  <2> QED
    BY <1>1, <2>2, <2>3, <2>4 DEF Next, MonitorStep, CoordStep, Done
<1>2. IInv /\ [Next]_vars =>
        [\A w \in Tracked : Severity[state'[w]] < Severity[state[w]] => since'[w] = 0]_vars
  BY <1>1
<1> QED
  BY <1>2, Invariance, PTL DEF Spec, SuspicionMonotone
============================================================================
