------------------------------ MODULE Induction ------------------------------
(***************************************************************************)
(* Induction over the natural numbers in a form that needs no operator as  *)
(* a parameter: predicates are sets. What recursive functions compute is   *)
(* proved with it.                                                         *)
(***************************************************************************)
EXTENDS Integers, WellFoundedInduction, TLAPS

\* A nonempty set of natural numbers has a least element.
LEMMA Least == ASSUME NEW T, T \subseteq Nat, T # {} PROVE \E x \in T : \A y \in T : x <= y
<1> DEFINE R == {ss \in Nat \X Nat : ss[1] < ss[2]}
<1>1. IsWellFoundedOn(R, Nat)
  BY NatLessThanWellFounded DEF OpToRel
<1>2. \E x \in T : \A y \in T : ~(<<y, x>> \in R)
  <2> HIDE DEF R
  <2> QED BY <1>1, WFMin
<1>3. PICK x \in T : \A y \in T : ~(<<y, x>> \in R)
  BY <1>2
<1>4. \A y \in T : x <= y
  <2> TAKE y \in T
  <2>1. ~(<<y, x>> \in R) /\ x \in Nat /\ y \in Nat
    <3> HIDE DEF R
    <3> QED BY <1>3
  <2> QED BY <2>1
<1> QED BY <1>4

\* One with an upper bound has a greatest element.
LEMMA Greatest ==
    ASSUME NEW T, T \subseteq Nat, T # {}, NEW n \in Nat, \A y \in T : y <= n
    PROVE  \E x \in T : \A y \in T : y <= x
<1> DEFINE U == {n - y : y \in T}
<1>1. U \subseteq Nat /\ U # {}
  <2>1. \A y \in T : n - y \in Nat
    OBVIOUS
  <2> QED BY <2>1
<1>2. PICK u \in U : \A v \in U : u <= v
  <2> HIDE DEF U
  <2> QED BY <1>1, Least
<1>3. PICK x \in T : u = n - x
  BY <1>2
<1>4. ASSUME NEW y \in T PROVE y <= x
  <2>1. u <= n - y
    BY <1>2
  <2> QED BY <1>3, <2>1
<1> QED BY <1>4

\* A set with 0 and the successors of its members has all natural numbers.
LEMMA Successors ==
    ASSUME NEW T, 0 \in T, \A n \in Nat : n \in T => n + 1 \in T
    PROVE  Nat \subseteq T
<1> SUFFICES ASSUME Nat \ T # {} PROVE FALSE
  OBVIOUS
<1>1. PICK x \in Nat \ T : \A y \in Nat \ T : x <= y
  BY Least
<1>2. x - 1 \in Nat
  BY <1>1
<1>3. x - 1 \notin Nat \ T
  BY <1>1, <1>2
<1> QED BY <1>1, <1>2, <1>3

\* Induction by a measure: a set that has every member of S all of whose
\* predecessors it has.
LEMMA MeasureInduction ==
    ASSUME NEW S, NEW m \in [S -> Nat], NEW T,
           \A x \in S : (\A y \in S : m[y] < m[x] => y \in T) => x \in T
    PROVE  S \subseteq T
<1> SUFFICES ASSUME NEW z \in S \ T PROVE FALSE
  OBVIOUS
<1> DEFINE M == {m[x] : x \in S \ T}
<1>1. M \subseteq Nat /\ M # {}
  OBVIOUS
<1>2. PICK k \in M : \A j \in M : k <= j
  <2> HIDE DEF M
  <2> QED BY <1>1, Least
<1>3. PICK x \in S \ T : k = m[x]
  BY <1>2
<1>4. ASSUME NEW y \in S, m[y] < m[x] PROVE y \in T
  <2> SUFFICES ASSUME y \notin T PROVE FALSE
    OBVIOUS
  <2>1. m[y] \in M
    OBVIOUS
  <2>2. k <= m[y] /\ m[y] \in Nat /\ m[x] \in Nat
    BY <1>2, <2>1
  <2> HIDE DEF M
  <2> QED BY <1>3, <1>4, <2>2
<1> QED BY <1>3, <1>4

\* A loop: S are its states, Stop those in which it stops with the result of
\* base, m goes down with every step. f gives its results.
Descends(S, Stop, step, m, N) ==
    /\ N \in Nat /\ m \in [S -> 0..N]
    /\ \A x \in S \ Stop : step[x] \in S /\ m[step[x]] < m[x]
Results(f, S, Stop, base, step) == f = [x \in S |-> IF x \in Stop THEN base[x] ELSE f[step[x]]]

\* A loop that descends has a result from every state.
LEMMA LoopDefined ==
    ASSUME NEW S, NEW Stop, NEW base, NEW step, NEW m, NEW N, Descends(S, Stop, step, m, N)
    PROVE  \E f : Results(f, S, Stop, base, step)
<1>0. /\ N \in Nat /\ m \in [S -> 0..N]
      /\ \A x \in S \ Stop : step[x] \in S /\ m[step[x]] < m[x]
  BY DEF Descends
<1> USE <1>0
<1> DEFINE Low(n) == {x \in S : m[x] <= n}
           Ok(g, n) == /\ g = [x \in Low(n) |-> g[x]]
                       /\ \A x \in Low(n) : g[x] = IF x \in Stop THEN base[x] ELSE g[step[x]]
           T == {n \in Nat : \E g : Ok(g, n)}
<1> HIDE DEF Ok
<1>1. 0 \in T
  <2> DEFINE g == [x \in Low(0) |-> base[x]]
  <2>1. \A x \in Low(0) : x \in Stop
    OBVIOUS
  <2>2. Ok(g, 0)
    BY <2>1 DEF Ok
  <2> QED BY <2>2
<1>2. ASSUME NEW n \in Nat, n \in T PROVE n + 1 \in T
  <2>1. PICK g : Ok(g, n)
    BY <1>2
  <2> DEFINE h == [x \in Low(n + 1) |-> IF x \in Stop THEN base[x] ELSE g[step[x]]]
  <2>2. ASSUME NEW x \in Low(n + 1), x \notin Stop PROVE step[x] \in Low(n)
    <3>1. m[x] \in 0..N /\ m[step[x]] \in 0..N /\ m[step[x]] < m[x] /\ m[x] <= n + 1 /\ step[x] \in S
      BY <2>2
    <3> QED BY <3>1
  <2>3. ASSUME NEW x \in Low(n) PROVE h[x] = g[x]
    <3>1. x \in Low(n + 1)
      OBVIOUS
    <3> QED BY <2>1, <3>1 DEF Ok
  <2>4. \A x \in Low(n + 1) : h[x] = IF x \in Stop THEN base[x] ELSE h[step[x]]
    <3> HIDE DEF Low
    <3>1. \A x \in Low(n + 1) : h[x] = IF x \in Stop THEN base[x] ELSE g[step[x]]
      OBVIOUS
    <3> HIDE DEF h
    <3> QED BY <2>2, <2>3, <3>1
  <2>5. h = [x \in Low(n + 1) |-> h[x]]
    OBVIOUS
  <2>6. Ok(h, n + 1)
    BY <2>4, <2>5 DEF Ok
  <2> QED BY <2>6
<1>3. N \in T
  <2> HIDE DEF T
  <2> QED BY <1>1, <1>2, Successors
<1>4. PICK g : Ok(g, N)
  BY <1>3
<1>5. Low(N) = S
  OBVIOUS
<1>6. Results(g, S, Stop, base, step)
  <2> HIDE DEF Low
  <2> QED BY <1>4, <1>5 DEF Ok, Results
<1> QED BY <1>6
=============================================================================
