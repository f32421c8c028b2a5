---------------------------- MODULE InterpNkProofs -----------------------------
(***************************************************************************)
(* Theorems about InterpNk, for tables of any length.                      *)
(***************************************************************************)
EXTENDS InterpNk, WellFoundedInduction, TLAPS

\* A set of natural numbers has a least element.
LEMMA LeastElement ==
  ASSUME NEW S \in SUBSET Nat, S # {}
  PROVE  \E i \in Nat : IsFirst(i, S)
<1>1. PICK i \in S : \A j \in S : ~ (<<j, i>> \in OpToRel(<, Nat))
  BY NatLessThanWellFounded, WFMin
<1>2. ASSUME NEW j \in S PROVE i <= j
  <2>1. ~ (j < i)
    BY <1>1 DEF OpToRel
  <2>2. QED
    BY <2>1
<1>3. QED
  BY <1>1, <1>2 DEF IsFirst

\* The loop's first window is one.
LEMMA FirstIsMember ==
  ASSUME NEW S \in SUBSET Nat, S # {}
  PROVE  First(S) \in S
BY LeastElement DEF First, IsFirst

\* In a sorted table some window encloses a value between the ends: the one
\* around the first sample that is not below it.
LEMMA SortedTableHasWindow ==
  ASSUME NEW wl \in Seq(Int), NEW x \in Int, Inside(wl, x), Sorted(wl)
  PROVE  Window(wl, x) # {}
<1> DEFINE n == Len(wl)
           S == {j \in 1 .. n : x <= wl[j]}
<1>1. /\ n \in Nat /\ n >= 3 /\ wl[1] < x /\ x < wl[n]
      /\ \A j \in 1 .. n : wl[j] \in Int
  BY DEF Inside
<1>2. PICK j \in Nat : IsFirst(j, S)
  <2>1. n \in S /\ S \in SUBSET Nat
    BY <1>1
  <2> HIDE DEF S
  <2>2. QED
    BY <2>1, LeastElement
<1>3. j \in 1 .. n /\ x <= wl[j] /\ j # 1
  BY <1>1, <1>2 DEF IsFirst
<1>4. wl[j - 1] < x
  <2>1. j - 1 \in 1 .. n /\ j - 1 \notin S
    BY <1>1, <1>2, <1>3 DEF IsFirst
  <2>2. QED
    BY <1>1, <2>1
<1>5. CASE j = n
  <2>1. n - 1 \in 2 .. n - 1 /\ n - 2 \in 1 .. n /\ n - 2 <= n - 1 /\ n - 1 \in 1 .. n
    BY <1>1
  <2>2. wl[n - 2] <= wl[n - 1]
    BY <2>1 DEF Sorted
  <2>3. wl[(n - 1) - 1] <= x /\ x <= wl[(n - 1) + 1]
    <3>1. (n - 1) - 1 = n - 2 /\ (n - 1) + 1 = n
      BY <1>1
    <3>2. wl[n - 2] <= x
      BY <1>1, <1>4, <1>5, <2>1, <2>2
    <3>3. QED
      BY <1>1, <3>1, <3>2
  <2>4. QED
    BY <2>1, <2>3 DEF Window
<1>6. CASE j # n
  <2>1. j \in 2 .. n - 1 /\ j + 1 \in 1 .. n /\ j - 1 \in 1 .. n /\ j <= j + 1
    BY <1>1, <1>3, <1>6
  <2>2. wl[j] <= wl[j + 1]
    BY <1>3, <2>1 DEF Sorted
  <2>3. wl[j - 1] <= x /\ x <= wl[j + 1]
    BY <1>1, <1>3, <1>4, <2>1, <2>2
  <2>4. QED
    BY <2>1, <2>3 DEF Window
<1>7. QED
  BY <1>5, <1>6

\* In a table with an odd number of samples, sorted or not, going through every
\* other sample some pair of them encloses a value between the ends.
LEMMA OddTableHasWindow ==
  ASSUME NEW wl \in Seq(Int), NEW x \in Int, Inside(wl, x), NEW m \in Nat,
         Len(wl) = 2 * m + 1
  PROVE  Window(wl, x) # {}
<1> DEFINE S == {k \in 0 .. m : x <= wl[2 * k + 1]}
<1>1. /\ wl[1] < x /\ x < wl[2 * m + 1]
      /\ \A j \in 1 .. 2 * m + 1 : wl[j] \in Int
  BY DEF Inside
<1>2. PICK k \in Nat : IsFirst(k, S)
  <2>1. m \in S /\ S \in SUBSET Nat
    BY <1>1
  <2> HIDE DEF S
  <2>2. QED
    BY <2>1, LeastElement
<1>3. k \in 0 .. m /\ x <= wl[2 * k + 1]
  BY <1>2 DEF IsFirst
<1>4. k # 0
  <2>1. ~ (x <= wl[2 * 0 + 1])
    BY <1>1
  <2>2. QED
    BY <1>3, <2>1
<1>5. wl[2 * k - 1] < x
  <2>1. k - 1 \in 0 .. m /\ k - 1 \notin S
    <3>1. k - 1 \in 0 .. m /\ ~ (k <= k - 1)
      BY <1>3, <1>4
    <3>2. \A j \in S : k <= j
      BY <1>2 DEF IsFirst
    <3>3. QED
      BY <3>1, <3>2
  <2>2. 2 * (k - 1) + 1 = 2 * k - 1 /\ 2 * k - 1 \in 1 .. 2 * m + 1
    BY <1>3, <1>4
  <2>3. QED
    BY <1>1, <2>1, <2>2
<1>6. 2 * k \in 2 .. Len(wl) - 1
  BY <1>3, <1>4
<1>7. wl[2 * k - 1] <= x
  <2>1. 2 * k - 1 \in 1 .. 2 * m + 1
    BY <1>3, <1>4
  <2>2. QED
    BY <1>1, <1>5, <2>1
<1>8. 2 * k \in Window(wl, x)
  BY <1>3, <1>6, <1>7 DEF Window
<1>9. QED
  BY <1>8

\* Where there is a window, every language takes the same three samples, and they
\* enclose the value.
LEMMA WindowDecides ==
  ASSUME NEW wl \in Seq(Int), NEW x \in Int, Inside(wl, x), Window(wl, x) # {}, NEW lang
  PROVE  /\ Interp(lang, wl, x) = LET i == First(Window(wl, x)) IN {i - 1, i, i + 1}
         /\ Encloses(Interp(lang, wl, x), wl, x)
<1> DEFINE i == First(Window(wl, x))
<1>1. i \in Window(wl, x)
  <2>1. Window(wl, x) \in SUBSET Nat
    BY DEF Window
  <2>2. QED
    BY <2>1, FirstIsMember
<1>2. ~ (Len(wl) < 3 \/ x <= wl[1]) /\ ~ (x >= wl[Len(wl)])
  BY DEF Inside
<1>3. Interp(lang, wl, x) = {i - 1, i, i + 1}
  BY <1>2 DEF Interp
<1>4. QED
  BY <1>1, <1>3 DEF Window, Encloses
--------------------------------------------------------------------------------
\* A value between the ends of a sorted table, or of any table with an odd number
\* of samples, is interpolated from three neighbouring samples around it, the same
\* ones in every language.
THEOREM InterpolationCorrect ==
  ASSUME NEW wl \in Seq(Int), NEW x \in Int, Inside(wl, x),
         Sorted(wl) \/ \E m \in Nat : Len(wl) = 2 * m + 1
  PROVE  \A l, k : /\ Encloses(Interp(l, wl, x), wl, x)
                   /\ Interp(l, wl, x) = Interp(k, wl, x)
<1>1. Window(wl, x) # {}
  BY SortedTableHasWindow, OddTableHasWindow
<1>2. QED
  BY <1>1, WindowDecides

\* An even number of unsorted samples is enough to tell the languages apart: no
\* window encloses 3, and MATLAB's middle sample is another than that of the others.
THEOREM FallbackDiffers ==
  \E wl \in Seq(Int) :
    Inside(wl, 3) /\ Interp("matlab", wl, 3) # Interp("c", wl, 3)
<1> DEFINE wl == <<1, 5, 2, 6>>
<1>1. /\ wl \in Seq(Int) /\ Len(wl) = 4
      /\ wl[1] = 1 /\ wl[2] = 5 /\ wl[3] = 2 /\ wl[4] = 6
  OBVIOUS
<1> HIDE DEF wl
<1>2. Inside(wl, 3)
  BY <1>1 DEF Inside
<1>3. Window(wl, 3) = {}
  <2>1. ASSUME NEW i \in 2 .. 3 PROVE ~ (wl[i - 1] <= 3 /\ 3 <= wl[i + 1])
    <3>1. i = 2 \/ i = 3
      OBVIOUS
    <3>2. QED
      BY <1>1, <3>1
  <2>2. QED
    BY <1>1, <2>1 DEF Window
<1>4. Interp("matlab", wl, 3) = {2} /\ Interp("c", wl, 3) = {3}
  BY <1>1, <1>3 DEF Interp, Middle
<1>5. Interp("matlab", wl, 3) # Interp("c", wl, 3)
  <2>1. 2 \in {2} /\ 2 \notin {3}
    OBVIOUS
  <2>2. QED
    BY <1>4, <2>1
<1>6. QED
  BY <1>1, <1>2, <1>5
================================================================================
