------------------------------ MODULE Recursion ------------------------------
(***************************************************************************)
(* Induction over the natural numbers with a set for the property, and     *)
(* that a function defined by recursion on its argument exists.            *)
(***************************************************************************)
EXTENDS Integers, WellFoundedInduction, TLAPS

(* A set of natural numbers has a least one. *)
LEMMA NatMin ==
    ASSUME NEW T, T \subseteq Nat, T # {}
    PROVE  \E x \in T : \A y \in T : x <= y
<1>1. IsWellFoundedOn({ss \in Nat \X Nat : ss[1] < ss[2]}, Nat)
    BY NatLessThanWellFounded DEF OpToRel
<1>2. PICK x \in T : \A y \in T : <<y, x>> \notin {ss \in Nat \X Nat : ss[1] < ss[2]}
    BY <1>1, WFMin
<1>3. \A y \in T : ~(y < x)
    BY <1>2
<1>. QED
    BY <1>3

(* S is the set of numbers that have the property. *)
THEOREM UpFromZero ==
    ASSUME NEW S, 0 \in S, \A n \in Nat : n \in S => n + 1 \in S
    PROVE  Nat \subseteq S
<1>. SUFFICES ASSUME ~(Nat \subseteq S) PROVE FALSE
    OBVIOUS
<1>1. PICK x \in Nat \ S : \A y \in Nat \ S : x <= y
    BY NatMin
<1>2. x # 0 /\ x - 1 \in Nat /\ x - 1 \in S
    BY <1>1
<1>. QED
    BY <1>1, <1>2

(* The property passes on, upwards or downwards. *)
PassesUp(S, m, n) == \A i \in m..(n - 1) : i \in S => i + 1 \in S
PassesDown(S, m, n) == \A i \in (m + 1)..n : i \in S => i - 1 \in S

(* What holds at the first number of an interval and goes on from each to  *)
(* the next holds at all of them.                                          *)
THEOREM UpThrough ==
    ASSUME NEW m \in Int, NEW n \in Int, NEW S, m \in S, PassesUp(S, m, n)
    PROVE  m..n \subseteq S
<1>. DEFINE R == {k \in Nat : m + k \in m..n => m + k \in S}
<1>1. 0 \in R
    OBVIOUS
<1>2. ASSUME NEW k \in Nat, k \in R PROVE k + 1 \in R
    <2>. SUFFICES ASSUME m + (k + 1) \in m..n PROVE m + (k + 1) \in S
        OBVIOUS
    <2>1. m + k \in m..(n - 1) /\ m + k \in S
        BY <1>2
    <2>2. (m + k) + 1 \in S
        BY <2>1 DEF PassesUp
    <2>. QED
        BY <2>2
<1>3. Nat \subseteq R
    <2>. HIDE DEF R
    <2>. QED
        BY <1>1, <1>2, UpFromZero
<1>4. ASSUME NEW i \in m..n PROVE i \in S
    <2>1. i - m \in R /\ m + (i - m) = i
        BY <1>3
    <2>. QED
        BY <2>1
<1>. QED
    BY <1>4

(* The same downwards. *)
THEOREM DownThrough ==
    ASSUME NEW m \in Int, NEW n \in Int, NEW S, n \in S, PassesDown(S, m, n)
    PROVE  m..n \subseteq S
<1>. DEFINE R == {k \in Nat : n - k \in m..n => n - k \in S}
<1>1. 0 \in R
    OBVIOUS
<1>2. ASSUME NEW k \in Nat, k \in R PROVE k + 1 \in R
    <2>. SUFFICES ASSUME n - (k + 1) \in m..n PROVE n - (k + 1) \in S
        OBVIOUS
    <2>1. n - k \in (m + 1)..n /\ n - k \in S
        BY <1>2
    <2>2. (n - k) - 1 \in S
        BY <2>1 DEF PassesDown
    <2>. QED
        BY <2>2
<1>3. Nat \subseteq R
    <2>. HIDE DEF R
    <2>. QED
        BY <1>1, <1>2, UpFromZero
<1>4. ASSUME NEW i \in m..n PROVE i \in S
    <2>1. n - i \in Nat /\ n - (n - i) = i
        OBVIOUS
    <2>2. n - i \in R
      <3>. HIDE DEF R
      <3>. QED
          BY <1>3, <2>1
    <2>. QED
        BY <2>1, <2>2
<1>. QED
    BY <1>4

(* Recursions on the numbers of an interval, upwards and downwards.  The   *)
(* steps are given as a function: step[i][x] is what x becomes at i.       *)
Climbs(f, S, first, n, step) ==
    f \in [0..n -> S] /\ f[0] = first /\ \A i \in 1..n : f[i] = step[i][f[i - 1]]
Descends(f, S, last, n, step) ==
    f \in [0..n -> S] /\ f[n] = last /\ \A i \in 0..(n - 1) : f[i] = step[i][f[i + 1]]

(* As much as is known of a function so defined before its values are. *)
ClimbsIfTyped(g, S, n, step) == g[0] \in S /\ \A i \in 1..n : g[i - 1] \in S => g[i] = step[i][g[i - 1]]
DescendsIfTyped(g, S, n, step) == g[n] \in S /\ \A i \in 0..(n - 1) : g[i + 1] \in S => g[i] = step[i][g[i + 1]]

(* There is a function for every recursion. *)
THEOREM Climbing ==
    ASSUME NEW S, NEW first, NEW n, NEW step, first \in S, n \in Nat, step \in [1..n -> [S -> S]]
    PROVE  \E f : Climbs(f, S, first, n, step)
<1>. DEFINE Good(k, f) == f[0] = first /\ \A i \in 1..k : f[i] = step[i][f[i - 1]]
            R == {k \in 0..n : \E f \in [0..k -> S] : Good(k, f)}
<1>1. 0 \in R
    <2>. DEFINE f == [i \in 0..0 |-> first]
    <2>1. f \in [0..0 -> S] /\ f[0] = first
        OBVIOUS
    <2>2. \A i \in 1..0 : f[i] = step[i][f[i - 1]]
        OBVIOUS
    <2>. HIDE DEF f
    <2>. QED
        BY <2>1, <2>2
<1>2. ASSUME NEW k \in 0..(n - 1), k \in R PROVE k + 1 \in R
    <2>1. PICK f \in [0..k -> S] : Good(k, f)
        BY <1>2
    <2>. DEFINE g == [i \in 0..(k + 1) |-> IF i = k + 1 THEN step[k + 1][f[k]] ELSE f[i]]
    <2>2. g \in [0..(k + 1) -> S]
        OBVIOUS
    <2>3. Good(k + 1, g)
        <3>1. g[0] = first
            BY <2>1
        <3>2. ASSUME NEW i \in 1..(k + 1) PROVE g[i] = step[i][g[i - 1]]
            <4>1. CASE i = k + 1
                <5>1. g[i] = step[k + 1][f[k]] /\ i - 1 = k
                    BY <4>1
                <5>2. k # k + 1 /\ k \in 0..(k + 1)
                    OBVIOUS
                <5>3. g[k] = f[k]
                    BY <5>2
                <5>. QED
                    BY <4>1, <5>1, <5>3
            <4>2. CASE i \in 1..k
                <5>1. g[i] = f[i] /\ g[i - 1] = f[i - 1]
                    BY <4>2
                <5>. QED
                    BY <2>1, <4>2, <5>1
            <4>. QED
                BY <4>1, <4>2
        <3>. QED
            BY <3>1, <3>2
    <2>. HIDE DEF g
    <2>. QED
        BY <2>2, <2>3
<1>3. 0..n \subseteq R
    <2>. HIDE DEF R
    <2>. QED
        BY <1>1, <1>2, UpThrough DEF PassesUp
<1>4. n \in R
    BY <1>3
<1>. QED
    BY <1>4 DEF Climbs

(* The same downwards. *)
THEOREM Descending ==
    ASSUME NEW S, NEW last, NEW n, NEW step, last \in S, n \in Nat, step \in [0..(n - 1) -> [S -> S]]
    PROVE  \E f : Descends(f, S, last, n, step)
<1>1. PICK up \in [1..n -> [S -> S]] : \A k \in 1..n : up[k] = step[n - k]
  <2>1. [k \in 1..n |-> step[n - k]] \in [1..n -> [S -> S]]
      OBVIOUS
  <2>. QED
      BY <2>1
<1>2. PICK g : Climbs(g, S, last, n, up)
    BY Climbing
<1>. DEFINE f == [i \in 0..n |-> g[n - i]]
<1>3. f \in [0..n -> S] /\ f[n] = last
    BY <1>2 DEF Climbs
<1>4. ASSUME NEW i \in 0..(n - 1) PROVE f[i] = step[i][f[i + 1]]
  <2>1. n - i \in 1..n /\ n - (n - i) = i /\ (n - i) - 1 = n - (i + 1)
      OBVIOUS
  <2>2. g[n - i] = step[i][g[n - (i + 1)]]
      BY <1>1, <1>2, <2>1 DEF Climbs
  <2>3. f[i] = g[n - i] /\ f[i + 1] = g[n - (i + 1)]
      OBVIOUS
  <2>. QED
      BY <2>2, <2>3
<1>. HIDE DEF f
<1>. QED
    BY <1>3, <1>4 DEF Descends

(* And it takes only values of S. *)
THEOREM ClimbingTyped ==
    ASSUME NEW S, NEW n, NEW step, NEW g, n \in Nat, step \in [1..n -> [S -> S]], ClimbsIfTyped(g, S, n, step)
    PROVE  \A i \in 0..n : g[i] \in S
<1>. DEFINE Typed == {i \in 0..n : g[i] \in S}
<1>1. ASSUME NEW i \in 0..(n - 1), i \in Typed PROVE i + 1 \in Typed
  <2>1. i + 1 \in 1..n /\ (i + 1) - 1 = i
      OBVIOUS
  <2>. QED
      BY <1>1, <2>1 DEF ClimbsIfTyped
<1>2. 0 \in Typed
    BY DEF ClimbsIfTyped
<1>3. 0..n \subseteq Typed
  <2>. HIDE DEF Typed
  <2>1. PassesUp(Typed, 0, n)
      BY <1>1 DEF PassesUp
  <2>. QED
      BY <1>2, <2>1, UpThrough
<1>. QED
    BY <1>3

(* The same downwards. *)
THEOREM DescendingTyped ==
    ASSUME NEW S, NEW n, NEW step, NEW g, n \in Nat, step \in [0..(n - 1) -> [S -> S]], DescendsIfTyped(g, S, n, step)
    PROVE  \A i \in 0..n : g[i] \in S
<1>. DEFINE Typed == {i \in 0..n : g[i] \in S}
<1>1. ASSUME NEW i \in (0 + 1)..n, i \in Typed PROVE i - 1 \in Typed
  <2>1. i - 1 \in 0..(n - 1) /\ (i - 1) + 1 = i
      OBVIOUS
  <2>. QED
      BY <1>1, <2>1 DEF DescendsIfTyped
<1>2. n \in Typed
    BY DEF DescendsIfTyped
<1>3. 0..n \subseteq Typed
  <2>. HIDE DEF Typed
  <2>1. PassesDown(Typed, 0, n)
      BY <1>1 DEF PassesDown
  <2>. QED
      BY <1>2, <2>1, DownThrough
<1>. QED
    BY <1>3
==============================================================================
