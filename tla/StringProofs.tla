---------------------------- MODULE StringProofs ----------------------------
(***************************************************************************)
(* Strings of any length and alphabet: what the functions of string_util.c *)
(* make of them.                                                           *)
(***************************************************************************)
EXTENDS StringUtil, FiniteSetTheorems, SequenceTheorems, TLAPS

\* A set of numbers of 1 .. n that is not empty has a least element, and Min
\* is one.  The numbers below all of S would otherwise be closed under
\* adding 1, and x |-> x + 1 would map that finite set into itself without 0.
LEMMA MinOfSet ==
  ASSUME NEW n \in Nat, NEW S \in SUBSET (1 .. n), S # {}
  PROVE  Min(S) \in S /\ \A y \in S : Min(S) <= y
<1> SUFFICES \E x \in S : \A y \in S : x <= y
    BY DEF Min
<1> SUFFICES ASSUME \A x \in S : \E y \in S : y < x
             PROVE  FALSE
    OBVIOUS
<1> DEFINE Below == {x \in 0 .. n : \A s \in S : x < s}
           up    == [x \in Below |-> x + 1]
<1>1. IsFiniteSet(0 .. n)
    BY FS_Interval
<1>2. IsFiniteSet(Below)
    BY <1>1, FS_Subset
<1>3. 0 \in Below
    OBVIOUS
<1>4. ASSUME NEW x \in Below PROVE x + 1 \in Below \ {0}
  <2>1. x \in 0 .. n /\ \A s \in S : x + 1 <= s
      OBVIOUS
  <2>2. x + 1 \notin S
      BY <2>1
  <2>3. \A s \in S : s \in 1 .. n /\ x + 1 < s
      BY <2>1, <2>2
  <2>4. PICK s \in S : TRUE
      OBVIOUS
  <2>5. x + 1 \in 0 .. n
      BY <2>1, <2>3, <2>4
  <2> QED BY <2>1, <2>3, <2>5
<1>5. up \in [Below -> Below \ {0}]
    BY <1>4
<1>6. /\ IsFiniteSet(Below \ {0})
      /\ Cardinality(Below \ {0}) = Cardinality(Below) - 1
      /\ Cardinality(Below) \in Nat
  <2> HIDE DEF Below
  <2> QED BY <1>2, <1>3, FS_RemoveElement, FS_CardinalityType
<1>7. \E x, y \in Below : x # y /\ up[x] = up[y]
  <2> HIDE DEF Below, up
  <2>1. Cardinality(Below \ {0}) < Cardinality(Below)
      BY <1>6
  <2> QED BY <1>2, <1>5, <1>6, <2>1, FS_PigeonHole
<1> QED BY <1>7

\* A set of numbers of 1 .. n that is not empty has a greatest element, and
\* Max is one.  The numbers above all of S would otherwise be closed under
\* subtracting 1, and x |-> x - 1 would map that finite set into itself
\* without n + 1.
LEMMA MaxOfSet ==
  ASSUME NEW n \in Nat, NEW S \in SUBSET (1 .. n), S # {}
  PROVE  Max(S) \in S /\ \A y \in S : Max(S) >= y
<1> SUFFICES \E x \in S : \A y \in S : x >= y
    BY DEF Max
<1> SUFFICES ASSUME \A x \in S : \E y \in S : y > x
             PROVE  FALSE
    OBVIOUS
<1> DEFINE Above == {x \in 0 .. n + 1 : \A s \in S : x > s}
           down  == [x \in Above |-> x - 1]
<1>1. IsFiniteSet(0 .. n + 1)
    BY FS_Interval
<1>2. IsFiniteSet(Above)
    BY <1>1, FS_Subset
<1>3. n + 1 \in Above
    OBVIOUS
<1>4. ASSUME NEW x \in Above PROVE x - 1 \in Above \ {n + 1}
  <2>1. x \in 0 .. n + 1 /\ \A s \in S : s \in 1 .. n /\ x - 1 >= s
      OBVIOUS
  <2>2. x - 1 \notin S
      BY <2>1
  <2>3. \A s \in S : x - 1 > s
      BY <2>1, <2>2
  <2>4. PICK s \in S : TRUE
      OBVIOUS
  <2>5. x - 1 \in 0 .. n
      BY <2>1, <2>3, <2>4
  <2> QED BY <2>3, <2>5
<1>5. down \in [Above -> Above \ {n + 1}]
    BY <1>4
<1>6. /\ IsFiniteSet(Above \ {n + 1})
      /\ Cardinality(Above \ {n + 1}) = Cardinality(Above) - 1
      /\ Cardinality(Above) \in Nat
  <2> HIDE DEF Above
  <2> QED BY <1>2, <1>3, FS_RemoveElement, FS_CardinalityType
<1>7. \E x, y \in Above : x # y /\ down[x] = down[y]
  <2> HIDE DEF Above, down
  <2>1. Cardinality(Above \ {n + 1}) < Cardinality(Above)
      BY <1>6
  <2> QED BY <1>2, <1>5, <1>6, <2>1, FS_PigeonHole
<1> QED BY <1>7

\* The least element is the one that no other is below.
LEMMA LeastIs ==
  ASSUME NEW n \in Nat, NEW S \in SUBSET (1 .. n), NEW m \in S, \A y \in S : m <= y
  PROVE  Min(S) = m
<1>1. S # {} /\ m \in Int /\ \A y \in S : y \in Int
    OBVIOUS
<1>2. Min(S) \in S /\ \A y \in S : Min(S) <= y
    BY <1>1, MinOfSet
<1>3. PICK x : x = Min(S)
    OBVIOUS
<1>4. x \in Int /\ x <= m /\ m <= x
    BY <1>1, <1>2, <1>3
<1> QED BY <1>1, <1>3, <1>4

\* Whatever holds of 0 and of the number after each of which it holds, holds
\* of every number up to a bound: the least exception would follow a number
\* that is none.
LEMMA BoundedInduction ==
  ASSUME NEW N \in Nat, NEW K, 0 \in K,
         \A n \in 0 .. N - 1 : n \in K => n + 1 \in K
  PROVE  \A n \in 0 .. N : n \in K
<1> DEFINE missing == {n \in 0 .. N : n \notin K}
<1>1. missing \in SUBSET (1 .. N)
    OBVIOUS
<1>2. SUFFICES ASSUME missing # {} PROVE FALSE
    OBVIOUS
<1>3. PICK m \in missing : \A n \in missing : m <= n
  <2> HIDE DEF missing
  <2> QED BY <1>1, <1>2, MinOfSet
<1>4. m \in 1 .. N /\ m - 1 \in 0 .. N - 1 /\ m - 1 \notin missing /\ (m - 1) + 1 = m
    BY <1>1, <1>3
<1> QED BY <1>3, <1>4

\* Strong induction over Nat.
LEMMA StrongInduction ==
  ASSUME NEW K, \A n \in Nat : (\A m \in 0 .. n - 1 : m \in K) => n \in K
  PROVE  \A n \in Nat : n \in K
<1> SUFFICES ASSUME NEW n \in Nat PROVE n \in K
    OBVIOUS
<1> DEFINE L == {k \in Nat : \A m \in 0 .. k : m \in K}
<1>1. 0 \in L
  <2>1. 0 \in K
      OBVIOUS
  <2> QED BY <2>1
<1>2. \A k \in 0 .. n - 1 : k \in L => k + 1 \in L
  <2> SUFFICES ASSUME NEW k \in 0 .. n - 1, \A m \in 0 .. k : m \in K
               PROVE  k + 1 \in L
      OBVIOUS
  <2>1. k + 1 \in Nat /\ (k + 1) - 1 = k
      OBVIOUS
  <2>2. k + 1 \in K
      BY <2>1
  <2>3. \A m \in 0 .. k + 1 : m \in 0 .. k \/ m = k + 1
      OBVIOUS
  <2> QED BY <2>1, <2>2, <2>3
<1>3. n \in L
  <2> HIDE DEF L
  <2> QED BY <1>1, <1>2, BoundedInduction
<1> QED BY <1>3

\* f[k] is what k steps make of b.
IsRun(f, N, b, G) == f[0] = b /\ \A k \in 1 .. N : f[k] = G[k][f[k - 1]]

\* A step that is given as a function can be repeated N times.
LEMMA RunExists ==
  ASSUME NEW N \in Nat, NEW St, NEW b \in St, NEW G \in [1 .. N -> [St -> St]]
  PROVE  \E f \in [0 .. N -> St] : IsRun(f, N, b, G)
<1> DEFINE Runs(n) == {f \in [0 .. n -> St] : IsRun(f, n, b, G)}
           K == {n \in 0 .. N : Runs(n) # {}}
<1>1. 0 \in K
  <2>1. [n \in 0 .. 0 |-> b] \in Runs(0)
      BY DEF IsRun
  <2> QED BY <2>1
<1>2. \A n \in 0 .. N - 1 : n \in K => n + 1 \in K
  <2> SUFFICES ASSUME NEW n \in 0 .. N - 1, n \in K PROVE Runs(n + 1) # {}
      OBVIOUS
  <2>1. PICK f \in Runs(n) : TRUE
      OBVIOUS
  <2>2. /\ f \in [0 .. n -> St] /\ f[0] = b
        /\ \A k \in 1 .. n : f[k] = G[k][f[k - 1]]
      BY <2>1 DEF IsRun
  <2>3. PICK next : next = G[n + 1][f[n]]
      OBVIOUS
  <2>4. next \in St
    <3>1. f[n] \in St /\ n + 1 \in 1 .. N
        BY <2>2
    <3> QED BY <2>3, <3>1
  <2>5. PICK g : g = [k \in 0 .. n + 1 |-> IF k <= n THEN f[k] ELSE next]
      OBVIOUS
  <2>6. g \in [0 .. n + 1 -> St] /\ g[0] = b /\ g[n + 1] = next
    <3>1. \A k \in 0 .. n + 1 : k <= n => f[k] \in St
        BY <2>2
    <3> QED BY <2>2, <2>4, <2>5, <3>1
  <2>7. \A k \in 0 .. n : g[k] = f[k]
      BY <2>5
  <2>8. ASSUME NEW k \in 1 .. n + 1 PROVE g[k] = G[k][g[k - 1]]
    <3>1. k - 1 \in 0 .. n /\ g[k - 1] = f[k - 1]
        BY <2>7
    <3>2. CASE k \in 1 .. n
      <4>1. g[k] = f[k] /\ f[k] = G[k][f[k - 1]]
          BY <2>2, <2>7, <3>2
      <4> QED BY <3>1, <4>1
    <3>3. CASE k = n + 1
      <4>1. g[k] = next /\ g[k - 1] = f[n]
          BY <2>6, <3>1, <3>3
      <4> QED BY <2>3, <3>3, <4>1
    <3> QED BY <3>2, <3>3
  <2> QED BY <2>6, <2>8 DEF IsRun
<1>3. N \in K
  <2> HIDE DEF K
  <2>1. \A n \in 0 .. N : n \in K
      BY <1>1, <1>2, BoundedInduction
  <2> QED BY <2>1
<1> QED BY <1>3

\* A string over an alphabet is one over every larger alphabet.
LEMMA StringsOver ==
  ASSUME NEW A, NEW B, A \subseteq B, NEW s \in Seq(A)
  PROVE  s \in Seq(B)
OBVIOUS

\* The characters of a concatenation.
LEMMA Concatenated ==
  ASSUME NEW S, NEW s1 \in Seq(S), NEW s2 \in Seq(S), NEW u, u = s1 \o s2
  PROVE  /\ u \in Seq(S) /\ Len(u) = Len(s1) + Len(s2)
         /\ \A i \in 1 .. Len(s1) + Len(s2) :
              u[i] = IF i <= Len(s1) THEN s1[i] ELSE s2[i - Len(s1)]
BY ConcatProperties, Zenon

-----------------------------------------------------------------------------
(***************************************************************************)
(* join_paths.                                                             *)
(***************************************************************************)

\* join_paths has one result: it cuts slashes at the end of the first path,
\* though never its first character, and adds one slash and the name.
LEMMA JoinPathsRight ==
  ASSUME NEW S, NEW path1 \in Seq(S), path1 # << >>,
         NEW name \in Seq(S), name # << >>, name[1] \notin Slashes, NEW garbage
  PROVE  \E dir \in 1 .. Len(path1) :
           /\ JoinPaths(path1, name, garbage) = {SubSeq(path1, 1, dir) \o <<"/">> \o name}
           /\ \A k \in dir + 1 .. Len(path1) : path1[k] \in Slashes
<1> DEFINE ends   == {i \in 1 .. Len(path1) : i = 1 \/ path1[i] \notin Slashes}
           starts == {i \in 1 .. Len(name) : name[i] \notin Slashes}
           dir    == Max(ends)
           start  == IF starts = {} THEN Len(name) ELSE Min(starts) - 1
           right  == SubSeq(path1, 1, IF ends = {} THEN 0 ELSE dir) \o <<"/">>
                       \o SubSeq(name, start + 1, Len(name))
<1>0. /\ Len(path1) \in Nat /\ 1 \in 1 .. Len(path1)
      /\ Len(name) \in Nat /\ 1 \in 1 .. Len(name)
  <2>1. Len(path1) \in Nat /\ Len(path1) # 0 /\ Len(name) \in Nat /\ Len(name) # 0
      BY EmptySeq, LenProperties
  <2> QED BY <2>1
<1>1. 1 \in ends /\ ends \in SUBSET (1 .. Len(path1)) /\ ends # {}
    BY <1>0
<1>2. dir \in ends /\ \A k \in ends : dir >= k
  <2> HIDE DEF ends
  <2> QED BY <1>0, <1>1, MaxOfSet
<1>3. dir \in 1 .. Len(path1)
    BY <1>1, <1>2
<1>4. \A k \in dir + 1 .. Len(path1) : path1[k] \in Slashes
    BY <1>0, <1>2, <1>3
<1>5. 1 \in starts /\ \A k \in starts : k \in Int /\ 1 <= k
    BY <1>0
<1>6. Min(starts) = 1
  <2> HIDE DEF starts
  <2>1. \E m \in starts : \A y \in starts : m <= y
      BY <1>5
  <2>2. Min(starts) \in starts /\ \A y \in starts : Min(starts) <= y
      BY <2>1 DEF Min
  <2> QED BY <1>5, <2>2
<1>7. start = 0
    BY <1>5, <1>6
<1>8. SubSeq(name, start + 1, Len(name)) = name
  <2>1. SubSeq(name, 1, Len(name)) = name
      BY SubSeqFull
  <2> HIDE DEF start
  <2> QED BY <1>7, <2>1
<1>9. right = SubSeq(path1, 1, dir) \o <<"/">> \o name
  <2> HIDE DEF start, ends, dir
  <2> QED BY <1>1, <1>8
<1>10. {right \o g : g \in UNION {[1 .. n -> garbage] : n \in 0 .. start}} = {right \o << >>}
  <2> HIDE DEF start, right
  <2>1. 0 .. start = {0}
      BY <1>7
  <2>2. [1 .. 0 -> garbage] = {<< >>}
    <3>1. << >> \in [1 .. 0 -> garbage]
        OBVIOUS
    <3>2. ASSUME NEW f \in [1 .. 0 -> garbage] PROVE f = << >>
      <4>1. f \in Seq(garbage) /\ Len(f) = 0
          OBVIOUS
      <4> QED BY <4>1, EmptySeq
    <3> QED BY <3>1, <3>2
  <2>3. {[1 .. n -> garbage] : n \in 0 .. start} = {{<< >>}}
      BY <2>1, <2>2
  <2>4. UNION {[1 .. n -> garbage] : n \in 0 .. start} = {<< >>}
      BY <2>3
  <2> QED BY <2>4
<1>11. right \in Seq(S \cup {"/"})
  <2> DEFINE T == S \cup {"/"}
  <2>1. SubSeq(path1, 1, dir) \in Seq(T)
    <3>1. \A i \in 1 .. dir : path1[i] \in T
        BY <1>0, <1>3, ElementOfSeq
    <3>2. 1 \in Int /\ dir \in Int
        BY <1>3
    <3> HIDE DEF dir, T
    <3> QED BY <3>1, <3>2, SubSeqProperties
  <2>2. <<"/">> \in Seq(T) /\ name \in Seq(T)
      OBVIOUS
  <2> HIDE DEF dir, T, right
  <2>3. SubSeq(path1, 1, dir) \o <<"/">> \in Seq(T)
      BY <2>1, <2>2, ConcatProperties
  <2>4. SubSeq(path1, 1, dir) \o <<"/">> \o name \in Seq(T)
      BY <2>2, <2>3, ConcatProperties
  <2> QED BY <1>9, <2>4 DEF T
<1>12. right \o << >> = right
  <2> HIDE DEF right
  <2> QED BY <1>11, ConcatEmptySeq
<1>13. JoinPaths(path1, name, garbage) = {right}
  <2>1. JoinPaths(path1, name, garbage)
          = {right \o g : g \in UNION {[1 .. n -> garbage] : n \in 0 .. start}}
      BY DEF JoinPaths
  <2> HIDE DEF right, start
  <2> QED BY <1>10, <1>12, <2>1
<1> HIDE DEF right, dir
<1> QED BY <1>3, <1>4, <1>9, <1>13

-----------------------------------------------------------------------------
(***************************************************************************)
(* What get_chirp_string makes of a value between quotes.                  *)
(***************************************************************************)

\* The loop of remove_quotes: where the character of a turn is taken from,
\* the turns from a position on, and the result of all of them.
Skipped(s, i) == IF s[i] \in Quotes THEN i + 1 ELSE i

IsTurn(s, f) ==
  f = [i \in 1 .. Len(s) + 2 |->
         IF i > Len(s) THEN << >> ELSE <<Skipped(s, i)>> \o f[Skipped(s, i) + 1]]

Copied(s, from) ==
  IF Len(from) = Len(s) THEN s ELSE [k \in 1 .. Len(from) - 1 |-> s[from[k]]]

\* remove_quotes copies what its turns have found.
LEMMA RemoveQuotesTurns ==
  ASSUME NEW s
  PROVE  RemoveQuotes(s) = Copied(s, (CHOOSE f : IsTurn(s, f))[1])
BY DEF RemoveQuotes, Copied, IsTurn, Skipped

\* What a turn does.
LEMMA TurnAt ==
  ASSUME NEW s, NEW f, IsTurn(s, f), NEW i \in 1 .. Len(s) + 2
  PROVE  f[i] = IF i > Len(s) THEN << >> ELSE <<Skipped(s, i)>> \o f[Skipped(s, i) + 1]
<1> DEFINE Turn(k) == IF k > Len(s) THEN << >> ELSE <<Skipped(s, k)>> \o f[Skipped(s, k) + 1]
<1>1. f = [k \in 1 .. Len(s) + 2 |-> Turn(k)]
    BY DEF IsTurn
<1> HIDE DEF Turn
<1>2. f[i] = Turn(i)
    BY <1>1, Zenon
<1> QED BY <1>2 DEF Turn

\* The turns are determined by the string: the last position at which two
\* accounts of them differed would be followed by one at which they agree.
LEMMA TurnsUnique ==
  ASSUME NEW s, Len(s) \in Nat, NEW f, NEW g, IsTurn(s, f), IsTurn(s, g)
  PROVE  f = g
<1> DEFINE all == 1 .. Len(s) + 2
           bad == {i \in all : f[i] # g[i]}
<1>1. /\ \A i \in all : i > Len(s) => f[i] = << >> /\ g[i] = << >>
      /\ \A i \in all : i <= Len(s) =>
           /\ f[i] = <<Skipped(s, i)>> \o f[Skipped(s, i) + 1]
           /\ g[i] = <<Skipped(s, i)>> \o g[Skipped(s, i) + 1]
  <2>1. \A i \in all : i <= Len(s) => ~ i > Len(s)
      OBVIOUS
  <2> QED BY <2>1, TurnAt, Zenon
<1>2. bad = {}
  <2> SUFFICES ASSUME bad # {} PROVE FALSE
      OBVIOUS
  <2>1. Len(s) + 2 \in Nat /\ bad \in SUBSET (1 .. Len(s) + 2)
      OBVIOUS
  <2>2. PICK m \in bad : \A i \in bad : m >= i
    <3> HIDE DEF bad
    <3> QED BY <2>1, MaxOfSet
  <2>3. m \in all /\ m <= Len(s)
      BY <1>1
  <2>4. Skipped(s, m) + 1 \in all /\ Skipped(s, m) + 1 > m
      BY <2>3 DEF Skipped
  <2>5. f[Skipped(s, m) + 1] = g[Skipped(s, m) + 1]
      BY <2>2, <2>3, <2>4
  <2>6. f[m] = g[m]
      BY <1>1, <2>3, <2>5
  <2> QED BY <2>6
<1>3. DOMAIN f = all /\ DOMAIN g = all
    BY DEF IsTurn
<1>4. f = [i \in all |-> f[i]] /\ g = [i \in all |-> g[i]]
    BY DEF IsTurn
<1> QED BY <1>2, <1>4

\* The turns in a string of length L with quotes at both ends only: the turn
\* at the last position finds nothing after the quote.
Place(L, n) == IF n = L THEN L + 1 ELSE n

From(L, i) == [k \in 1 .. L - i + 1 |-> Place(L, i + k - 1)]

\* The turns from a position on are a sequence.
LEMMA FromIsSeq ==
  ASSUME NEW L \in Nat, NEW i \in 1 .. L + 2
  PROVE  /\ From(L, i) \in Seq(Nat)
         /\ Len(From(L, i)) = IF i <= L THEN L - i + 1 ELSE 0
         /\ \A k \in 1 .. L - i + 1 : From(L, i)[k] = Place(L, i + k - 1)
<1> DEFINE n == IF i <= L THEN L - i + 1 ELSE 0
<1>1. n \in Nat /\ 1 .. L - i + 1 = 1 .. n
    OBVIOUS
<1>2. \A k \in 1 .. n : Place(L, i + k - 1) \in Nat
    BY DEF Place
<1>3. From(L, i) = [k \in 1 .. n |-> Place(L, i + k - 1)]
    BY <1>1 DEF From
<1> HIDE DEF n
<1>4. From(L, i) \in [1 .. n -> Nat]
    BY <1>2, <1>3
<1>5. From(L, i) \in Seq(Nat) /\ Len(From(L, i)) = n
    BY <1>1, <1>4
<1>6. \A k \in 1 .. L - i + 1 : From(L, i)[k] = Place(L, i + k - 1)
    BY DEF From
<1> QED BY <1>5, <1>6 DEF n

\* The first of them, and the others.
LEMMA FromUnfolds ==
  ASSUME NEW L \in Nat, NEW i \in 1 .. L
  PROVE  From(L, i) = <<Place(L, i)>> \o From(L, Place(L, i) + 1)
<1>1. PICK a : a = Place(L, i)
    OBVIOUS
<1>2. PICK t : t = From(L, a + 1)
    OBVIOUS
<1>3. a \in Nat /\ a + 1 \in 1 .. L + 2
    BY <1>1 DEF Place
<1>4. /\ t \in Seq(Nat) /\ Len(t) = L - i
      /\ \A k \in 1 .. L - i : t[k] = Place(L, i + k)
  <2>1. CASE i = L
      BY <1>1, <1>2, <1>3, <2>1, FromIsSeq DEF Place
  <2>2. CASE i # L
    <3>1. a = i /\ i + 1 <= L
        BY <1>1, <2>2 DEF Place
    <3>2. /\ t \in Seq(Nat) /\ Len(t) = L - (i + 1) + 1
          /\ \A k \in 1 .. L - (i + 1) + 1 : t[k] = Place(L, (i + 1) + k - 1)
        BY <1>2, <1>3, <3>1, FromIsSeq
    <3>3. L - (i + 1) + 1 = L - i /\ \A k \in 1 .. L - i : (i + 1) + k - 1 = i + k
        OBVIOUS
    <3> QED BY <3>2, <3>3
  <2> QED BY <2>1, <2>2
<1>5. <<a>> \in Seq(Nat) /\ Len(<<a>>) = 1 /\ <<a>>[1] = a
    BY <1>3
<1>6. PICK u : u = <<a>> \o t
    OBVIOUS
<1>7. /\ u \in Seq(Nat) /\ Len(u) = Len(<<a>>) + Len(t)
      /\ \A k \in 1 .. Len(<<a>>) + Len(t) :
           u[k] = IF k <= Len(<<a>>) THEN <<a>>[k] ELSE t[k - Len(<<a>>)]
    BY <1>4, <1>5, <1>6, Concatenated
<1>8. /\ Len(u) = L - i + 1
      /\ \A k \in 1 .. L - i + 1 : u[k] = IF k = 1 THEN a ELSE t[k - 1]
    BY <1>4, <1>5, <1>7
<1>9. \A k \in 1 .. L - i + 1 : u[k] = Place(L, i + k - 1)
  <2> TAKE k \in 1 .. L - i + 1
  <2>1. CASE k = 1
      BY <1>1, <1>8, <2>1
  <2>2. CASE k # 1
    <3>1. k - 1 \in 1 .. L - i /\ i + (k - 1) = i + k - 1
        BY <2>2
    <3> QED BY <1>4, <1>8, <2>2, <3>1
  <2> QED BY <2>1, <2>2
<1>10. /\ From(L, i) \in Seq(Nat) /\ Len(From(L, i)) = L - i + 1
       /\ \A k \in 1 .. L - i + 1 : From(L, i)[k] = Place(L, i + k - 1)
    BY FromIsSeq
<1>11. \A k \in 1 .. Len(From(L, i)) : From(L, i)[k] = u[k]
    BY <1>9, <1>10
<1>12. From(L, i) = u
  <2>1. From(L, i) \in Seq(Nat) /\ u \in Seq(Nat) /\ Len(From(L, i)) = Len(u)
      BY <1>7, <1>8, <1>10
  <2> QED BY <1>11, <2>1, SeqEqual
<1> QED BY <1>1, <1>2, <1>6, <1>12

\* All the turns of such a string: the first one skips a quote and copies
\* the character after it.
LEMMA TurnsOfQuoted ==
  ASSUME NEW s, NEW L \in Nat, L >= 2, Len(s) = L,
         \A i \in 1 .. L : s[i] \in Quotes <=> i = 1 \/ i = L,
         NEW f, f = [i \in 1 .. L + 2 |-> IF i = 1 THEN << 2 >> \o From(L, 3) ELSE From(L, i)]
  PROVE  IsTurn(s, f)
<1> DEFINE Turn(i) == IF i > L THEN << >> ELSE <<Skipped(s, i)>> \o f[Skipped(s, i) + 1]
<1>1. ASSUME NEW i \in 1 .. L + 2 PROVE f[i] = Turn(i)
  <2>1. CASE i > L
    <3>1. From(L, i) \in Seq(Nat) /\ Len(From(L, i)) = 0
      <4>1. /\ From(L, i) \in Seq(Nat)
            /\ Len(From(L, i)) = IF i <= L THEN L - i + 1 ELSE 0
          BY FromIsSeq, Zenon
      <4> QED BY <2>1, <4>1
    <3>2. From(L, i) = << >>
        BY <3>1, EmptySeq
    <3> QED BY <2>1, <3>2
  <2>2. CASE i = 1
    <3>1. Skipped(s, 1) = 2 /\ 3 \in 1 .. L + 2
        BY DEF Skipped
    <3>2. f[3] = From(L, 3)
        BY <3>1
    <3> QED BY <2>2, <3>1, <3>2
  <2>3. CASE i \in 2 .. L
    <3>1. Skipped(s, i) = Place(L, i)
        BY <2>3 DEF Skipped, Place
    <3>2. Place(L, i) + 1 \in 3 .. L + 2
        BY <2>3 DEF Place
    <3>3. f[Skipped(s, i) + 1] = From(L, Place(L, i) + 1) /\ f[i] = From(L, i)
        BY <2>3, <3>1, <3>2
    <3>4. From(L, i) = <<Place(L, i)>> \o From(L, Place(L, i) + 1)
      <4>1. i \in 1 .. L
          BY <2>3
      <4> QED BY <4>1, FromUnfolds, Zenon
    <3>5. ~ i > L
        BY <2>3
    <3> QED BY <3>1, <3>3, <3>4, <3>5, Zenon
  <2> QED BY <2>1, <2>2, <2>3
<1>2. f = [i \in 1 .. L + 2 |-> f[i]]
    OBVIOUS
<1>3. [i \in 1 .. L + 2 |-> f[i]] = [i \in 1 .. L + 2 |-> Turn(i)]
  <2> HIDE DEF Turn
  <2> QED BY <1>1
<1> QED BY <1>2, <1>3, Zenon DEF IsTurn

\* Quotes around a string without any are removed, and nothing else is.
LEMMA RemoveQuotesRight ==
  ASSUME NEW S, NEW p \in Seq(S), NEW s, NEW L \in Nat, L = Len(p) + 2, Len(s) = L,
         \A i \in 1 .. L : s[i] \in Quotes <=> i = 1 \/ i = L,
         \A k \in 1 .. Len(p) : s[k + 1] = p[k]
  PROVE  RemoveQuotes(s) = p
<1>1. Len(p) \in Nat /\ L >= 2 /\ L - 2 = Len(p)
    BY LenProperties
<1>2. PICK f : f = [i \in 1 .. L + 2 |-> IF i = 1 THEN << 2 >> \o From(L, 3) ELSE From(L, i)]
    OBVIOUS
<1>3. IsTurn(s, f)
    BY <1>1, <1>2, TurnsOfQuoted
<1>4. RemoveQuotes(s) = Copied(s, f[1])
  <2>1. IsTurn(s, CHOOSE g : IsTurn(s, g))
      BY <1>3
  <2>2. PICK h : h = CHOOSE g : IsTurn(s, g)
      OBVIOUS
  <2>3. h = f
      BY <1>3, <2>1, <2>2, TurnsUnique
  <2> QED BY <2>2, <2>3, RemoveQuotesTurns
<1>5. PICK t : t = From(L, 3)
    OBVIOUS
<1>6. f[1] = << 2 >> \o t
    BY <1>2, <1>5
<1>7. /\ t \in Seq(Nat) /\ Len(t) = L - 2
      /\ \A k \in 1 .. L - 2 : t[k] = Place(L, k + 2)
  <2>1. 3 \in 1 .. L + 2 /\ L - 3 + 1 = L - 2 /\ \A k \in 1 .. L - 2 : 3 + k - 1 = k + 2
      BY <1>1
  <2>2. /\ t \in Seq(Nat) /\ Len(t) = IF 3 <= L THEN L - 3 + 1 ELSE 0
        /\ \A k \in 1 .. L - 3 + 1 : t[k] = Place(L, 3 + k - 1)
      BY <1>5, <2>1, FromIsSeq
  <2> QED BY <1>1, <2>1, <2>2
<1>8. Len(f[1]) = L - 1 /\ \A k \in 1 .. L - 1 : f[1][k] = IF k = 1 THEN 2 ELSE t[k - 1]
  <2>1. << 2 >> \in Seq(Nat) /\ Len(<< 2 >>) = 1 /\ << 2 >>[1] = 2
      OBVIOUS
  <2>2. /\ Len(f[1]) = Len(<< 2 >>) + Len(t)
        /\ \A k \in 1 .. Len(<< 2 >>) + Len(t) :
             f[1][k] = IF k <= Len(<< 2 >>) THEN << 2 >>[k] ELSE t[k - Len(<< 2 >>)]
      BY <1>6, <1>7, <2>1, Concatenated
  <2> QED BY <1>1, <1>7, <2>1, <2>2
<1>9. ASSUME NEW k \in 1 .. Len(p) PROVE f[1][k] = k + 1
  <2>1. k \in 1 .. L - 2 /\ k \in 1 .. L - 1
      BY <1>1
  <2>2. CASE k = 1
      BY <1>8, <2>1, <2>2
  <2>3. CASE k # 1
    <3>1. k - 1 \in 1 .. L - 2 /\ k - 1 + 2 = k + 1 /\ k + 1 # L
        BY <1>1, <2>1, <2>3
    <3> QED BY <1>7, <1>8, <2>1, <2>3, <3>1 DEF Place
  <2> QED BY <2>2, <2>3
<1>10. Copied(s, f[1]) = [k \in 1 .. Len(p) |-> s[f[1][k]]]
  <2>1. Len(f[1]) # Len(s) /\ Len(f[1]) - 1 = Len(p)
      BY <1>1, <1>8
  <2> QED BY <2>1 DEF Copied
<1>11. \A k \in 1 .. Len(p) : s[f[1][k]] = p[k]
    BY <1>9
<1>12. [k \in 1 .. Len(p) |-> s[f[1][k]]] = [k \in 1 .. Len(p) |-> p[k]]
    BY <1>11
<1>13. [k \in 1 .. Len(p) |-> p[k]] = p
    BY LenProperties
<1> QED BY <1>4, <1>10, <1>12, <1>13

\* The characters of a string that was put between two others.
LEMMA Between ==
  ASSUME NEW S, NEW p \in Seq(S), NEW c, NEW b, b = <<c>>, NEW q, q = b \o p,
         NEW s, s = q \o b
  PROVE  /\ Len(s) = Len(p) + 2
         /\ s[1] = c /\ s[Len(p) + 2] = c
         /\ \A k \in 1 .. Len(p) : s[k + 1] = p[k]
<1>0. Len(p) \in Nat
    BY LenProperties
<1>1. PICK T : T = S \cup {c}
    OBVIOUS
<1>2. p \in Seq(T)
    BY <1>1, StringsOver
<1>3. b \in Seq(T) /\ Len(b) = 1 /\ b[1] = c
    BY <1>1
<1>4. /\ q \in Seq(T) /\ Len(q) = Len(b) + Len(p)
      /\ \A i \in 1 .. Len(b) + Len(p) : q[i] = IF i <= Len(b) THEN b[i] ELSE p[i - Len(b)]
  <2>1. b \in Seq(T)
      BY <1>3
  <2> QED BY <1>2, <2>1, Concatenated
<1>5. /\ s \in Seq(T) /\ Len(s) = Len(q) + Len(b)
      /\ \A i \in 1 .. Len(q) + Len(b) : s[i] = IF i <= Len(q) THEN q[i] ELSE b[i - Len(q)]
  <2>1. q \in Seq(T) /\ b \in Seq(T)
      BY <1>3, <1>4
  <2> QED BY <2>1, Concatenated
<1>6. Len(q) = Len(p) + 1 /\ Len(s) = Len(p) + 2
    BY <1>0, <1>3, <1>4, <1>5
<1>7. s[1] = c
  <2>1. s[1] = q[1] /\ q[1] = b[1]
      BY <1>0, <1>3, <1>4, <1>5, <1>6
  <2> QED BY <1>3, <2>1
<1>8. s[Len(p) + 2] = c
  <2>1. s[Len(p) + 2] = b[1]
      BY <1>0, <1>3, <1>5, <1>6
  <2> QED BY <1>3, <2>1
<1>9. ASSUME NEW k \in 1 .. Len(p) PROVE s[k + 1] = p[k]
  <2>1. s[k + 1] = q[k + 1]
      BY <1>0, <1>3, <1>5, <1>6
  <2>2. q[k + 1] = p[k]
      BY <1>0, <1>3, <1>4, <1>6
  <2> QED BY <2>1, <2>2
<1> QED BY <1>6, <1>7, <1>8, <1>9

\* A string without blanks is not trimmed.
LEMMA TrimRight ==
  ASSUME NEW S, NEW p \in Seq(S), \A k \in 1 .. Len(p) : p[k] \notin Blanks
  PROVE  Trim(p) = p
<1> DEFINE kept == {i \in 1 .. Len(p) : p[i] \notin Blanks}
<1>1. Len(p) \in Nat /\ kept = 1 .. Len(p)
    BY LenProperties
<1>2. CASE p = << >>
  <2>1. kept = {}
      BY <1>1, <1>2
  <2> QED BY <1>2, <2>1 DEF Trim
<1>3. CASE p # << >>
  <2>1. Len(p) # 0
      BY <1>3, EmptySeq
  <2>2. 1 \in 1 .. Len(p) /\ Len(p) \in 1 .. Len(p)
      BY <1>1, <2>1
  <2>3. kept # {}
      BY <1>1, <2>2
  <2> HIDE DEF kept
  <2>4. Min(kept) = 1
    <3>1. \A m \in kept : (\A y \in kept : m <= y) <=> m = 1
        BY <1>1, <2>2
    <3> QED BY <1>1, <2>2, <3>1 DEF Min
  <2>5. Max(kept) = Len(p)
    <3>1. \A m \in kept : (\A y \in kept : m >= y) <=> m = Len(p)
        BY <1>1, <2>2
    <3> QED BY <1>1, <2>2, <3>1 DEF Max
  <2>6. SubSeq(p, Min(kept), Max(kept)) = p
      BY <2>4, <2>5, SubSeqFull
  <2> QED BY <2>3, <2>6 DEF Trim, kept
<1> QED BY <1>2, <1>3

\* The same for a string given by its characters.
LEMMA QuotedRead ==
  ASSUME NEW S, NEW p \in Seq(S), \A k \in 1 .. Len(p) : p[k] \notin Quotes,
         NEW c \in Quotes, NEW s, Len(s) = Len(p) + 2, s[1] = c, s[Len(p) + 2] = c,
         \A k \in 1 .. Len(p) : s[k + 1] = p[k]
  PROVE  RemoveQuotes(s) = p
<1>1. Len(p) \in Nat
    BY LenProperties
<1>2. PICK L \in Nat : L = Len(p) + 2
    BY <1>1
<1>3. ASSUME NEW i \in 1 .. L PROVE s[i] \in Quotes <=> i = 1 \/ i = L
  <2>1. CASE i = 1 \/ i = L
      BY <1>2, <2>1
  <2>2. CASE i # 1 /\ i # L
    <3>1. i - 1 \in 1 .. Len(p) /\ (i - 1) + 1 = i
        BY <1>1, <1>2, <2>2
    <3>2. s[i] = p[i - 1]
        BY <3>1
    <3> QED BY <2>2, <3>1, <3>2
  <2> QED BY <2>1, <2>2
<1> QED BY <1>2, <1>3, RemoveQuotesRight
\* The turns in a string without quotes copy every character.
AllFrom(L, i) == [k \in 1 .. L - i + 1 |-> i + k - 1]

\* They are a sequence.
LEMMA AllFromIsSeq ==
  ASSUME NEW L \in Nat, NEW i \in 1 .. L + 2
  PROVE  /\ AllFrom(L, i) \in Seq(Nat)
         /\ Len(AllFrom(L, i)) = IF i <= L THEN L - i + 1 ELSE 0
         /\ \A k \in 1 .. L - i + 1 : AllFrom(L, i)[k] = i + k - 1
<1> DEFINE n == IF i <= L THEN L - i + 1 ELSE 0
<1>1. n \in Nat /\ 1 .. L - i + 1 = 1 .. n
    OBVIOUS
<1>2. \A k \in 1 .. n : i + k - 1 \in Nat
    OBVIOUS
<1>3. AllFrom(L, i) = [k \in 1 .. n |-> i + k - 1]
    BY <1>1 DEF AllFrom
<1> HIDE DEF n
<1>4. AllFrom(L, i) \in [1 .. n -> Nat]
    BY <1>2, <1>3
<1>5. AllFrom(L, i) \in Seq(Nat) /\ Len(AllFrom(L, i)) = n
    BY <1>1, <1>4
<1>6. \A k \in 1 .. L - i + 1 : AllFrom(L, i)[k] = i + k - 1
    BY DEF AllFrom
<1> QED BY <1>5, <1>6 DEF n

\* The first of them, and the others.
LEMMA AllFromUnfolds ==
  ASSUME NEW L \in Nat, NEW i \in 1 .. L
  PROVE  AllFrom(L, i) = <<i>> \o AllFrom(L, i + 1)
<1>1. PICK t : t = AllFrom(L, i + 1)
    OBVIOUS
<1>2. t \in Seq(Nat) /\ Len(t) = L - i /\ \A k \in 1 .. L - i : t[k] = i + k
  <2>1. PICK m \in 1 .. L + 2 : m = i + 1
      OBVIOUS
  <2>2. /\ t \in Seq(Nat) /\ Len(t) = IF m <= L THEN L - m + 1 ELSE 0
        /\ \A k \in 1 .. L - m + 1 : t[k] = m + k - 1
      BY <1>1, <2>1, AllFromIsSeq
  <2>3. L - m + 1 = L - i /\ (m <= L \/ L - i = 0) /\ \A k \in 1 .. L - i : m + k - 1 = i + k
      BY <2>1
  <2> QED BY <2>2, <2>3
<1>3. PICK o : o = <<i>>
    OBVIOUS
<1>4. PICK u : u = o \o t
    OBVIOUS
<1>5. /\ u \in Seq(Nat) /\ Len(u) = Len(o) + Len(t) /\ Len(o) = 1 /\ o[1] = i
      /\ \A k \in 1 .. Len(o) + Len(t) :
           u[k] = IF k <= Len(o) THEN o[k] ELSE t[k - Len(o)]
  <2>1. o \in Seq(Nat) /\ Len(o) = 1 /\ o[1] = i
      BY <1>3
  <2>2. t \in Seq(Nat)
      BY <1>2
  <2>3. /\ u \in Seq(Nat) /\ Len(u) = Len(o) + Len(t)
        /\ \A k \in 1 .. Len(o) + Len(t) :
             u[k] = IF k <= Len(o) THEN o[k] ELSE t[k - Len(o)]
    <3>1. PICK S : S = Nat
        OBVIOUS
    <3>2. o \in Seq(S) /\ t \in Seq(S)
        BY <2>1, <2>2, <3>1, Zenon
    <3> QED BY <1>4, <3>1, <3>2, Concatenated
  <2> QED BY <2>1, <2>3, Zenon
<1>6. Len(u) = L - i + 1 /\ \A k \in 1 .. L - i + 1 : u[k] = i + k - 1
  <2>1. ASSUME NEW k \in 1 .. L - i + 1 PROVE u[k] = IF k = 1 THEN i ELSE t[k - 1]
    <3>1. Len(o) + Len(t) = L - i + 1 /\ Len(o) = 1 /\ o[1] = i
        BY <1>2, <1>5
    <3>2. u[k] = IF k <= 1 THEN o[k] ELSE t[k - 1]
        BY <1>5, <3>1
    <3> QED BY <3>1, <3>2
  <2>2. ASSUME NEW k \in 1 .. L - i + 1, k # 1 PROVE u[k] = i + k - 1
    <3>1. PICK m \in 1 .. L - i : m = k - 1
        BY <2>2
    <3>2. u[k] = t[m]
        BY <2>1, <2>2, <3>1
    <3>3. t[m] = i + m
        BY <1>2
    <3> QED BY <3>1, <3>2, <3>3
  <2>3. ASSUME NEW k \in 1 .. L - i + 1, k = 1 PROVE u[k] = i + k - 1
      BY <2>1, <2>3
  <2>4. Len(u) = L - i + 1
      BY <1>2, <1>5
  <2> QED BY <2>2, <2>3, <2>4
<1>7. /\ AllFrom(L, i) \in Seq(Nat) /\ Len(AllFrom(L, i)) = L - i + 1
      /\ \A k \in 1 .. L - i + 1 : AllFrom(L, i)[k] = i + k - 1
    BY AllFromIsSeq
<1>8. AllFrom(L, i) = u
  <2>1. AllFrom(L, i) \in Seq(Nat) /\ u \in Seq(Nat) /\ Len(AllFrom(L, i)) = Len(u)
      BY <1>5, <1>6, <1>7
  <2>2. \A k \in 1 .. Len(AllFrom(L, i)) : AllFrom(L, i)[k] = u[k]
      BY <1>6, <1>7
  <2> QED BY <2>1, <2>2, SeqEqual
<1> QED BY <1>1, <1>3, <1>4, <1>8

\* A string without quotes is left alone.
LEMMA RemoveQuotesPlain ==
  ASSUME NEW S, NEW s \in Seq(S), \A k \in 1 .. Len(s) : s[k] \notin Quotes
  PROVE  RemoveQuotes(s) = s
<1>1. PICK L \in Nat : L = Len(s)
    BY LenProperties
<1>2. PICK f : f = [i \in 1 .. L + 2 |-> AllFrom(L, i)]
    OBVIOUS
<1> DEFINE Turn(i) == IF i > L THEN << >> ELSE <<Skipped(s, i)>> \o f[Skipped(s, i) + 1]
<1>3. ASSUME NEW i \in 1 .. L + 2 PROVE f[i] = Turn(i)
  <2>1. CASE i > L
    <3>1. AllFrom(L, i) \in Seq(Nat) /\ Len(AllFrom(L, i)) = 0
      <4>1. /\ AllFrom(L, i) \in Seq(Nat)
            /\ Len(AllFrom(L, i)) = IF i <= L THEN L - i + 1 ELSE 0
          BY AllFromIsSeq, Zenon
      <4> QED BY <2>1, <4>1
    <3>2. AllFrom(L, i) = << >>
        BY <3>1, EmptySeq
    <3> QED BY <1>2, <2>1, <3>2
  <2>2. CASE i \in 1 .. L
    <3>1. Skipped(s, i) = i /\ i + 1 \in 1 .. L + 2 /\ ~ i > L
        BY <1>1, <2>2 DEF Skipped
    <3>2. f[i] = AllFrom(L, i) /\ f[i + 1] = AllFrom(L, i + 1)
        BY <1>2, <3>1
    <3>3. AllFrom(L, i) = <<i>> \o AllFrom(L, i + 1)
        BY <2>2, AllFromUnfolds
    <3> QED BY <3>1, <3>2, <3>3, Zenon
  <2> QED BY <2>1, <2>2
<1>4. f = [i \in 1 .. L + 2 |-> f[i]]
    BY <1>2
<1>5. [i \in 1 .. L + 2 |-> f[i]] = [i \in 1 .. L + 2 |-> Turn(i)]
  <2> HIDE DEF Turn
  <2> QED BY <1>3
<1>6. IsTurn(s, f)
    BY <1>1, <1>4, <1>5, Zenon DEF IsTurn
<1>7. RemoveQuotes(s) = Copied(s, f[1])
  <2>1. PICK h : h = CHOOSE g : IsTurn(s, g)
      OBVIOUS
  <2>2. IsTurn(s, h)
      BY <1>6, <2>1
  <2>3. h = f
      BY <1>1, <1>6, <2>2, TurnsUnique
  <2> QED BY <2>1, <2>3, RemoveQuotesTurns
<1>8. Len(f[1]) = Len(s)
  <2>1. 1 \in 1 .. L + 2 /\ f[1] = AllFrom(L, 1)
      BY <1>2
  <2>2. Len(AllFrom(L, 1)) = IF 1 <= L THEN L - 1 + 1 ELSE 0
      BY <2>1, AllFromIsSeq
  <2> QED BY <1>1, <2>1, <2>2
<1> QED BY <1>7, <1>8, Zenon DEF Copied

\* A string without quotes and blanks is entered as it is.
LEMMA CleanPlain ==
  ASSUME NEW S, NEW s \in Seq(S),
         \A k \in 1 .. Len(s) : s[k] \notin Quotes /\ s[k] \notin Blanks
  PROVE  Clean(s) = s
<1>1. RemoveQuotes(s) = s
    BY RemoveQuotesPlain
<1>2. Trim(s) = s
    BY TrimRight
<1> QED BY <1>1, <1>2, Zenon DEF Clean

-----------------------------------------------------------------------------
(***************************************************************************)
(* Numbers.                                                                *)
(***************************************************************************)

DigitChars == {Digits[d] : d \in 1 .. 10}

\* A digit is worth its place in Digits.
LEMMA DigitsOrdered ==
  \A d \in 0 .. 9 : Digits[d + 1] \in DigitChars /\ DigitValue(Digits[d + 1]) = d
<1> SUFFICES ASSUME NEW d \in 0 .. 9
             PROVE  Digits[d + 1] \in DigitChars /\ DigitValue(Digits[d + 1]) = d
    OBVIOUS
<1>1. \A a, b \in 0 .. 9 : Digits[a + 1] = Digits[b + 1] => a = b
    BY DEF Digits
<1>2. Digits[d + 1] \in DigitChars
    BY DEF DigitChars
<1> QED BY <1>1, <1>2 DEF DigitValue

\* What a digit is, and is not.
LEMMA DigitIs ==
  ASSUME NEW c \in DigitChars
  PROVE  /\ IsDigit(c) /\ DigitValue(c) \in 0 .. 9
         /\ c \notin Blanks /\ c \notin {"-", "+"} /\ c \notin Quotes
<1>1. PICK d \in 1 .. 10 : c = Digits[d]
    BY DEF DigitChars
<1>2. IsDigit(c)
    BY <1>1 DEF IsDigit
<1>3. DigitValue(c) \in 0 .. 9
  <2>1. d - 1 \in 0 .. 9 /\ (d - 1) + 1 = d
      OBVIOUS
  <2> QED BY <1>1, <2>1, DigitsOrdered
<1>4. c \in {"0", "1", "2", "3", "4", "5", "6", "7", "8", "9"}
    BY <1>1 DEF Digits
<1>5. c \notin Blanks
    BY <1>4, Zenon DEF Blanks
<1>6. c \notin {"-", "+"}
    BY <1>4, Zenon
<1>7. c \notin Quotes
    BY <1>4, Zenon DEF Quotes, DoubleQuote
<1> QED BY <1>2, <1>3, <1>5, <1>6, <1>7

\* The value of a string of digits, one digit after another.
IsValue(t, f) ==
  f = [k \in 0 .. Len(t) |-> IF k = 0 THEN 0 ELSE 10 * f[k - 1] + DigitValue(t[k])]

\* NumberOf is the last of them.
LEMMA NumberOfValue ==
  ASSUME NEW t
  PROVE  NumberOf(t) = (CHOOSE f : IsValue(t, f))[Len(t)]
BY DEF NumberOf, IsValue

\* They are numbers.
IsSum(t, N, f) ==
  /\ NumberOf(t) = f[N] /\ f \in [0 .. N -> Nat] /\ f[0] = 0
  /\ \A k \in 1 .. N : f[k] = 10 * f[k - 1] + DigitValue(t[k])

LEMMA SumExists ==
  ASSUME NEW t \in Seq(DigitChars), NEW N \in Nat, N = Len(t)
  PROVE  \E f : IsSum(t, N, f)
<1>1. \A k \in 1 .. N : DigitValue(t[k]) \in Nat
  <2> TAKE k \in 1 .. N
  <2>1. t[k] \in DigitChars
      BY ElementOfSeq
  <2> QED BY <2>1, DigitIs
<1>2. PICK G : G = [k \in 1 .. N |-> [n \in Nat |-> 10 * n + DigitValue(t[k])]]
    OBVIOUS
<1>3. G \in [1 .. N -> [Nat -> Nat]]
  <2> DEFINE Turn(k) == [n \in Nat |-> 10 * n + DigitValue(t[k])]
  <2>1. \A k \in 1 .. N : Turn(k) \in [Nat -> Nat]
      BY <1>1
  <2> HIDE DEF Turn
  <2>2. PICK D : D = [Nat -> Nat]
      OBVIOUS
  <2>3. G = [k \in 1 .. N |-> Turn(k)]
      BY <1>2 DEF Turn
  <2>4. G \in [1 .. N -> D]
      BY <2>1, <2>2, <2>3
  <2> QED BY <2>2, <2>4
<1>4. PICK f \in [0 .. N -> Nat] : IsRun(f, N, 0, G)
    BY <1>3, RunExists
<1>5. f[0] = 0 /\ \A k \in 1 .. N : f[k] = 10 * f[k - 1] + DigitValue(t[k])
  <2>1. f[0] = 0 /\ \A k \in 1 .. N : f[k] = G[k][f[k - 1]]
      BY <1>4 DEF IsRun
  <2>2. \A k \in 1 .. N : f[k - 1] \in Nat
      OBVIOUS
  <2> QED BY <1>2, <2>1, <2>2
<1>6. IsValue(t, f)
  <2>1. f = [k \in 0 .. N |-> f[k]]
      OBVIOUS
  <2>2. \A k \in 0 .. N :
          f[k] = IF k = 0 THEN 0 ELSE 10 * f[k - 1] + DigitValue(t[k])
      BY <1>5
  <2> QED BY <2>1, <2>2 DEF IsValue
<1>7. PICK g : g = CHOOSE h : IsValue(t, h)
    OBVIOUS
<1>8. IsValue(t, g)
    BY <1>6, <1>7
<1>9. /\ g = [k \in 0 .. N |-> g[k]] /\ g[0] = 0
      /\ \A k \in 1 .. N : g[k] = 10 * g[k - 1] + DigitValue(t[k])
    BY <1>8 DEF IsValue
<1>10. \A k \in 0 .. N : g[k] \in Nat
  <2> DEFINE K == {k \in 0 .. N : g[k] \in Nat}
  <2>1. 0 \in K
      BY <1>9
  <2>2. \A k \in 0 .. N - 1 : k \in K => k + 1 \in K
    <3> SUFFICES ASSUME NEW k \in 0 .. N - 1, k \in K PROVE k + 1 \in K
        OBVIOUS
    <3>1. k + 1 \in 1 .. N /\ k + 1 \in 0 .. N /\ (k + 1) - 1 = k /\ g[k] \in Nat
        OBVIOUS
    <3>2. g[k + 1] = 10 * g[k] + DigitValue(t[k + 1]) /\ DigitValue(t[k + 1]) \in Nat
        BY <1>1, <1>9, <3>1
    <3> QED BY <3>1, <3>2
  <2> HIDE DEF K
  <2>3. \A k \in 0 .. N : k \in K
      BY <2>1, <2>2, BoundedInduction
  <2> QED BY <2>3 DEF K
<1>11. g \in [0 .. N -> Nat]
    BY <1>9, <1>10
<1>12. NumberOf(t) = g[N]
    BY <1>7, NumberOfValue
<1>13. IsSum(t, N, g)
    BY <1>9, <1>11, <1>12 DEF IsSum
<1> QED BY <1>13

\* A digit more.
LEMMA NumberOfAppend ==
  ASSUME NEW t \in Seq(DigitChars), NEW c \in DigitChars
  PROVE  NumberOf(t) \in Nat /\ NumberOf(Append(t, c)) = 10 * NumberOf(t) + DigitValue(c)
<1>1. PICK N \in Nat : N = Len(t)
    BY LenProperties
<1>2. PICK u : u = Append(t, c)
    OBVIOUS
<1>3. /\ u \in Seq(DigitChars) /\ Len(u) = N + 1 /\ u[N + 1] = c
      /\ \A k \in 1 .. N : u[k] = t[k]
    BY <1>1, <1>2, AppendProperties
<1>4. PICK f : IsSum(t, N, f)
    BY <1>1, SumExists
<1>5. PICK M \in Nat : M = N + 1
    OBVIOUS
<1>6. PICK g : IsSum(u, M, g)
    BY <1>3, <1>5, SumExists
<1>7. \A k \in 0 .. N : g[k] = f[k]
  <2> DEFINE K == {k \in 0 .. N : g[k] = f[k]}
  <2>1. 0 \in K
      BY <1>4, <1>6 DEF IsSum
  <2>2. \A k \in 0 .. N - 1 : k \in K => k + 1 \in K
    <3> SUFFICES ASSUME NEW k \in 0 .. N - 1, k \in K PROVE k + 1 \in K
        OBVIOUS
    <3>1. /\ k + 1 \in 1 .. N /\ k + 1 \in 1 .. M /\ k + 1 \in 0 .. N
          /\ (k + 1) - 1 = k /\ g[k] = f[k]
        BY <1>5
    <3>2. f[k + 1] = 10 * f[k] + DigitValue(t[k + 1])
        BY <1>4, <3>1 DEF IsSum
    <3>3. g[k + 1] = 10 * g[k] + DigitValue(u[k + 1])
        BY <1>6, <3>1 DEF IsSum
    <3>4. u[k + 1] = t[k + 1]
        BY <1>3, <3>1
    <3> QED BY <3>1, <3>2, <3>3, <3>4
  <2> HIDE DEF K
  <2>3. \A k \in 0 .. N : k \in K
      BY <2>1, <2>2, BoundedInduction
  <2> QED BY <2>3 DEF K
<1>8. NumberOf(t) = f[N] /\ f[N] \in Nat /\ NumberOf(u) = g[M]
    BY <1>4, <1>6 DEF IsSum
<1>9. g[M] = 10 * g[N] + DigitValue(c)
  <2>1. M \in 1 .. M /\ M - 1 = N
      BY <1>5
  <2>2. g[M] = 10 * g[M - 1] + DigitValue(u[M])
      BY <1>6, <2>1 DEF IsSum
  <2> QED BY <1>3, <1>5, <2>1, <2>2
<1>10. g[N] = f[N]
    BY <1>7
<1> QED BY <1>2, <1>8, <1>9, <1>10

\* A string of digits is parsed as their number.
LEMMA ParseDigits ==
  ASSUME NEW t \in Seq(DigitChars), t # << >>, NEW v
  PROVE  ParseInteger(t, v) = [ok |-> TRUE, value |-> NumberOf(t)]
<1> DEFINE bodies == {k \in 1 .. Len(t) : t[k] \notin Blanks} \cup {Len(t) + 1}
           body   == Min(bodies)
           signed == body <= Len(t) /\ t[body] \in {"-", "+"}
           first  == IF signed THEN body + 1 ELSE body
           lasts  == {k \in first .. Len(t) : ~ IsDigit(t[k])} \cup {Len(t) + 1}
           last   == Min(lasts) - 1
           number == NumberOf(SubSeq(t, first, last))
<1>1. Len(t) \in Nat /\ Len(t) >= 1
  <2>1. Len(t) \in Nat /\ Len(t) # 0
      BY EmptySeq, LenProperties
  <2> QED BY <2>1
<1>2. \A k \in 1 .. Len(t) : /\ IsDigit(t[k]) /\ t[k] \notin Blanks
                             /\ t[k] \notin {"-", "+"}
  <2> TAKE k \in 1 .. Len(t)
  <2>1. t[k] \in DigitChars
      BY ElementOfSeq
  <2> QED BY <2>1, DigitIs, Zenon
<1>3. body = 1
  <2>1. PICK n \in Nat : n = Len(t) + 1
      BY <1>1
  <2>2. 1 \in bodies /\ bodies \in SUBSET (1 .. n)
      BY <1>1, <1>2, <2>1
  <2>3. \A y \in bodies : 1 <= y
      BY <2>2
  <2> HIDE DEF bodies
  <2> QED BY <2>2, <2>3, LeastIs
<1> HIDE DEF body
<1>4. ~ signed
    BY <1>1, <1>2, <1>3
<1>5. t[1] # "-"
  <2>1. 1 \in 1 .. Len(t)
      BY <1>1
  <2> QED BY <1>2, <2>1, Zenon
<1> HIDE DEF signed
<1>6. first = 1
    BY <1>3, <1>4
<1> HIDE DEF first
<1>7. lasts = {Len(t) + 1}
    BY <1>1, <1>2, <1>6
<1>8. last = Len(t)
  <2> HIDE DEF lasts
  <2>1. Len(t) + 1 \in Nat /\ lasts \in SUBSET (1 .. Len(t) + 1) /\ lasts # {}
      BY <1>1, <1>7
  <2>2. Min(lasts) \in lasts
      BY <2>1, MinOfSet
  <2> QED BY <1>1, <1>7, <2>2
<1> HIDE DEF last
<1>9. number = NumberOf(t)
  <2>1. SubSeq(t, first, last) = t
      BY <1>6, <1>8, SubSeqFull
  <2> QED BY <2>1
<1> HIDE DEF number
<1>10. ParseInteger(t, v)
         = IF last < first THEN [ok |-> FALSE, value |-> v]
           ELSE [ok |-> TRUE, value |-> IF t[body] = "-" THEN - number ELSE number]
    BY DEF ParseInteger, number, last, lasts, first, signed, body
<1>11. ~ last < first
    BY <1>1, <1>6, <1>8
<1> QED BY <1>3, <1>5, <1>9, <1>10, <1>11

\* What %d prints for m, given what it prints for smaller numbers.
Printed(f, m) ==
  IF m < 10 THEN <<Digits[m + 1]>> ELSE Append(f[m \div 10], Digits[(m % 10) + 1])

IsDecimal(f) == f = [n \in Nat |-> Printed(f, n)]

\* Decimal is defined so.
LEMMA DecimalChosen == Decimal = CHOOSE f : IsDecimal(f)
BY DEF Decimal, IsDecimal, Printed

\* What is printed for the numbers up to n.
Prints(n) ==
  {f \in [0 .. n -> Seq(DigitChars)] : \A m \in 0 .. n : f[m] = Printed(f, m)}

\* All digits are.
LEMMA PrintedType ==
  ASSUME NEW m \in Nat, NEW f, m >= 10 => f[m \div 10] \in Seq(DigitChars)
  PROVE  Printed(f, m) \in Seq(DigitChars)
<1>1. CASE m < 10
  <2>1. Digits[m + 1] \in DigitChars
      BY <1>1 DEF DigitChars
  <2> QED BY <1>1, <2>1 DEF Printed
<1>2. CASE ~ m < 10
  <2>1. (m % 10) + 1 \in 1 .. 10
      OBVIOUS
  <2>2. Digits[(m % 10) + 1] \in DigitChars
      BY <2>1 DEF DigitChars
  <2>3. f[m \div 10] \in Seq(DigitChars)
      BY <1>2
  <2>4. Append(f[m \div 10], Digits[(m % 10) + 1]) \in Seq(DigitChars)
      BY <2>2, <2>3, AppendProperties
  <2> QED BY <1>2, <2>4 DEF Printed
<1> QED BY <1>1, <1>2

\* They can be printed, ...
LEMMA PrintsExist == \A n \in Nat : Prints(n) # {}
<1> SUFFICES ASSUME NEW N \in Nat PROVE Prints(N) # {}
    OBVIOUS
<1> DEFINE K == {n \in 0 .. N : Prints(n) # {}}
<1>1. 0 \in K
  <2>1. PICK f : f = [m \in 0 .. 0 |-> <<Digits[1]>>]
      OBVIOUS
  <2>2. Digits[1] \in DigitChars
      BY DEF DigitChars
  <2>3. f \in [0 .. 0 -> Seq(DigitChars)] /\ f[0] = <<Digits[1]>>
      BY <2>1, <2>2
  <2>4. f[0] = Printed(f, 0)
      BY <2>3 DEF Printed
  <2>5. f \in Prints(0)
      BY <2>3, <2>4 DEF Prints
  <2> QED BY <2>5
<1>2. \A n \in 0 .. N - 1 : n \in K => n + 1 \in K
  <2> SUFFICES ASSUME NEW n \in 0 .. N - 1, Prints(n) # {} PROVE Prints(n + 1) # {}
      OBVIOUS
  <2>1. PICK f \in Prints(n) : TRUE
      OBVIOUS
  <2>2. f \in [0 .. n -> Seq(DigitChars)] /\ \A m \in 0 .. n : f[m] = Printed(f, m)
      BY DEF Prints
  <2>3. PICK next : next = Printed(f, n + 1)
      OBVIOUS
  <2>4. next \in Seq(DigitChars)
    <3>1. (n + 1) >= 10 => ((n + 1) \div 10) \in 0 .. n
        OBVIOUS
    <3>2. (n + 1) >= 10 => f[(n + 1) \div 10] \in Seq(DigitChars)
        BY <2>2, <3>1
    <3> QED BY <2>3, <3>2, PrintedType
  <2>5. PICK g : g = [m \in 0 .. n + 1 |-> IF m <= n THEN f[m] ELSE next]
      OBVIOUS
  <2>6. /\ g \in [0 .. n + 1 -> Seq(DigitChars)] /\ g[n + 1] = next
        /\ \A m \in 0 .. n : g[m] = f[m]
    <3>1. \A m \in 0 .. n + 1 : m <= n => f[m] \in Seq(DigitChars)
        BY <2>2
    <3>2. PICK D : D = Seq(DigitChars)
        OBVIOUS
    <3>3. g \in [0 .. n + 1 -> D]
        BY <2>4, <2>5, <3>1, <3>2
    <3> QED BY <2>5, <3>2, <3>3
  <2>7. ASSUME NEW m \in 0 .. n + 1 PROVE g[m] = Printed(g, m)
    <3>1. Printed(g, m) = Printed(f, m)
      <4>1. CASE m < 10
          BY <4>1 DEF Printed
      <4>2. CASE ~ m < 10
        <5>1. (m \div 10) \in 0 .. n
            BY <4>2
        <5>2. g[m \div 10] = f[m \div 10]
            BY <2>6, <5>1
        <5> QED BY <5>2 DEF Printed
      <4> QED BY <4>1, <4>2
    <3>2. m \in 0 .. n \/ m = n + 1
        OBVIOUS
    <3> QED BY <2>2, <2>3, <2>6, <3>1, <3>2
  <2>8. g \in Prints(n + 1)
      BY <2>6, <2>7 DEF Prints
  <2> QED BY <2>8
<1>3. \A n \in 0 .. N : n \in K
  <2> HIDE DEF K
  <2> QED BY <1>1, <1>2, BoundedInduction
<1> QED BY <1>3

\* ... in one way only.
LEMMA PrintsAgree ==
  ASSUME NEW a \in Nat, NEW b \in Nat, NEW f \in Prints(a), NEW g \in Prints(b)
  PROVE  \A m \in Nat : m <= a /\ m <= b => f[m] = g[m]
<1> DEFINE K == {m \in Nat : m <= a /\ m <= b => f[m] = g[m]}
<1>1. /\ \A m \in 0 .. a : f[m] = Printed(f, m)
      /\ \A m \in 0 .. b : g[m] = Printed(g, m)
    BY DEF Prints
<1>2. ASSUME NEW m \in Nat, \A k \in 0 .. m - 1 : k \in K, m <= a, m <= b
      PROVE  f[m] = g[m]
  <2>1. f[m] = Printed(f, m) /\ g[m] = Printed(g, m)
      BY <1>1, <1>2
  <2>2. CASE m < 10
      BY <2>1, <2>2 DEF Printed
  <2>3. CASE ~ m < 10
    <3>1. (m \div 10) \in 0 .. m - 1 /\ (m \div 10) <= a /\ (m \div 10) <= b
        BY <1>2, <2>3
    <3>2. f[m \div 10] = g[m \div 10]
        BY <1>2, <3>1
    <3> QED BY <2>1, <3>2 DEF Printed
  <2> QED BY <2>2, <2>3
<1>3. \A m \in Nat : (\A k \in 0 .. m - 1 : k \in K) => m \in K
    BY <1>2
<1>4. \A m \in Nat : m \in K
  <2> HIDE DEF K
  <2> QED BY <1>3, StrongInduction
<1> QED BY <1>4

\* So %d prints what its definition says.
LEMMA DecimalUnfolds == \A n \in Nat : Decimal[n] = Printed(Decimal, n)
<1> DEFINE Some(n) == CHOOSE f : f \in Prints(n)
           all == [n \in Nat |-> Some(n)[n]]
<1>1. \A n \in Nat : Some(n) \in Prints(n)
    BY PrintsExist
<1> HIDE DEF Some
<1>2. ASSUME NEW n \in Nat PROVE all[n] = Printed(all, n)
  <2>1. Some(n)[n] = Printed(Some(n), n)
    <3>1. n \in 0 .. n
        OBVIOUS
    <3> QED BY <1>1, <3>1 DEF Prints
  <2>2. all[n] = Some(n)[n]
      OBVIOUS
  <2>3. CASE n < 10
      BY <2>1, <2>2, <2>3 DEF Printed
  <2>4. CASE ~ n < 10
    <3>1. PICK k : k = n \div 10
        OBVIOUS
    <3>2. k \in Nat /\ k <= n
        BY <2>4, <3>1
    <3>3. Some(n)[k] = Some(k)[k]
        BY <1>1, <3>2, PrintsAgree
    <3>4. all[k] = Some(n)[k]
        BY <3>2, <3>3
    <3> HIDE DEF all
    <3> QED BY <2>1, <2>2, <3>1, <3>4 DEF Printed
  <2> QED BY <2>3, <2>4
<1>3. IsDecimal(all)
  <2>1. all = [n \in Nat |-> all[n]]
      OBVIOUS
  <2> HIDE DEF all
  <2> QED BY <1>2, <2>1 DEF IsDecimal
<1>4. IsDecimal(Decimal)
    BY <1>3, DecimalChosen
<1>5. PICK d : d = Decimal
    OBVIOUS
<1>6. \A n \in Nat : d[n] = Printed(d, n)
    BY <1>4, <1>5 DEF IsDecimal
<1> QED BY <1>5, <1>6

\* %d prints digits, at least one, and parse_integer reads back the number.
LEMMA DecimalRight ==
  \A n \in Nat : /\ Decimal[n] \in Seq(DigitChars) /\ Decimal[n] # << >>
                 /\ NumberOf(Decimal[n]) = n
<1>1. PICK d : d = Decimal
    OBVIOUS
<1> DEFINE K == {n \in Nat : d[n] \in Seq(DigitChars) /\ d[n] # << >> /\ NumberOf(d[n]) = n}
<1>2. \A n \in Nat : d[n] = Printed(d, n)
    BY <1>1, DecimalUnfolds
<1>3. << >> \in Seq(DigitChars) /\ NumberOf(<< >>) = 0
  <2>1. << >> \in Seq(DigitChars) /\ 0 = Len(<< >>)
      OBVIOUS
  <2>2. PICK f : IsSum(<< >>, 0, f)
      BY <2>1, SumExists
  <2> QED BY <2>1, <2>2 DEF IsSum
<1>4. ASSUME NEW n \in Nat, \A k \in 0 .. n - 1 : k \in K PROVE n \in K
  <2>1. CASE n < 10
    <3>1. PICK c : c = Digits[n + 1]
        OBVIOUS
    <3>2. c \in DigitChars /\ DigitValue(c) = n
        BY <2>1, <3>1, DigitsOrdered
    <3>3. d[n] = <<c>>
        BY <1>2, <2>1, <3>1 DEF Printed
    <3>4. <<c>> = Append(<< >>, c)
        OBVIOUS
    <3>5. NumberOf(Append(<< >>, c)) = 10 * NumberOf(<< >>) + DigitValue(c)
        BY <1>3, <3>2, NumberOfAppend
    <3>6. NumberOf(d[n]) = n
        BY <1>3, <3>2, <3>3, <3>4, <3>5
    <3>7. d[n] \in Seq(DigitChars) /\ d[n] # << >>
        BY <3>2, <3>3
    <3> QED BY <3>6, <3>7
  <2>2. CASE ~ n < 10
    <3>1. PICK m \in 0 .. 9 : m = n % 10
        OBVIOUS
    <3>2. PICK k : k = n \div 10
        OBVIOUS
    <3>3. k \in 0 .. n - 1 /\ 10 * k + m = n
        BY <2>2, <3>1, <3>2
    <3>4. PICK c : c = Digits[m + 1]
        OBVIOUS
    <3>5. c \in DigitChars /\ DigitValue(c) = m
        BY <3>4, DigitsOrdered
    <3>6. d[k] \in Seq(DigitChars) /\ NumberOf(d[k]) = k
        BY <1>4, <3>3
    <3>7. d[n] = Append(d[k], c)
        BY <1>2, <2>2, <3>1, <3>2, <3>4 DEF Printed
    <3>8. NumberOf(Append(d[k], c)) = 10 * NumberOf(d[k]) + DigitValue(c)
        BY <3>5, <3>6, NumberOfAppend
    <3>9. NumberOf(d[n]) = n
        BY <3>3, <3>5, <3>6, <3>7, <3>8
    <3>10. d[n] \in Seq(DigitChars) /\ d[n] # << >>
        BY <3>5, <3>6, <3>7, AppendProperties
    <3> QED BY <3>9, <3>10
  <2> QED BY <2>1, <2>2
<1>5. \A n \in Nat : n \in K
  <2> HIDE DEF K
  <2> QED BY <1>4, StrongInduction
<1> QED BY <1>1, <1>5

\* The number of a message that is not cut is understood.
LEMMA ParseDecimal ==
  ASSUME NEW n \in Nat, NEW v
  PROVE  ParseInteger(Decimal[n], v) = [ok |-> TRUE, value |-> n]
<1>1. PICK t : t = Decimal[n]
    OBVIOUS
<1>2. t \in Seq(DigitChars) /\ t # << >> /\ NumberOf(t) = n
    BY <1>1, DecimalRight
<1> QED BY <1>1, <1>2, ParseDigits

-----------------------------------------------------------------------------
(***************************************************************************)
(* strsplit and count_tokens.                                              *)
(***************************************************************************)

\* What begins in a set and stays in it with every step is in it.
LEMMA StaysIn ==
  ASSUME NEW N \in Nat, NEW St, NEW f, f[0] \in St,
         \A k \in 1 .. N : f[k - 1] \in St => f[k] \in St
  PROVE  \A k \in 0 .. N : f[k] \in St
<1> DEFINE K == {k \in 0 .. N : f[k] \in St}
<1>1. 0 \in K
    OBVIOUS
<1>2. \A k \in 0 .. N - 1 : k \in K => k + 1 \in K
  <2> SUFFICES ASSUME NEW k \in 0 .. N - 1, k \in K PROVE k + 1 \in K
      OBVIOUS
  <2>1. k + 1 \in 1 .. N /\ k + 1 \in 0 .. N /\ (k + 1) - 1 = k /\ f[k] \in St
      OBVIOUS
  <2> QED BY <2>1
<1> HIDE DEF K
<1>3. \A k \in 0 .. N : k \in K
    BY <1>1, <1>2, BoundedInduction
<1> QED BY <1>3 DEF K

\* The loop of strsplit: a turn, all of them, and what is left after them.
SplitTurn(delims, s, st, k) ==
  CASE s[k] \notin delims -> [st EXCEPT !.last = FALSE]
    [] s[k] \in delims /\ st.last -> [st EXCEPT !.start = k + 1]
    [] OTHER -> [strings |-> Append(st.strings, SubSeq(s, st.start, k - 1)),
                 start |-> k + 1, last |-> TRUE]

SplitFirst == [strings |-> << >>, start |-> 1, last |-> FALSE]

IsSplitScan(delims, s, f) ==
  f = [k \in 0 .. Len(s) |-> IF k = 0 THEN SplitFirst ELSE SplitTurn(delims, s, f[k - 1], k)]

SplitResult(s, end) ==
  IF end.last THEN end.strings ELSE Append(end.strings, SubSeq(s, end.start, Len(s)))

\* strsplit returns it.
LEMMA StrsplitScan ==
  ASSUME NEW delims, NEW s
  PROVE  Strsplit(delims, s) = SplitResult(s, (CHOOSE f : IsSplitScan(delims, s, f))[Len(s)])
BY DEF Strsplit, SplitResult, IsSplitScan, SplitFirst, SplitTurn

SplitStates(T) == [strings : Seq(Seq(T)), start : Nat \ {0}, last : BOOLEAN]

\* A part of a string is a string.
LEMMA PartOfString ==
  ASSUME NEW T, NEW s \in Seq(T), NEW a \in Nat \ {0}, NEW b \in Nat, b <= Len(s)
  PROVE  SubSeq(s, a, b) \in Seq(T)
<1>1. \A k \in a .. b : s[k] \in T
  <2> TAKE k \in a .. b
  <2>1. k \in 1 .. Len(s)
      BY LenProperties
  <2> QED BY <2>1, ElementOfSeq
<1>2. a \in Int /\ b \in Int
    OBVIOUS
<1> QED BY <1>1, <1>2, SubSeqProperties

\* A turn gives a state.
LEMMA SplitTurnType ==
  ASSUME NEW delims, NEW T, NEW s \in Seq(T), NEW st \in SplitStates(T),
         NEW k \in 1 .. Len(s)
  PROVE  SplitTurn(delims, s, st, k) \in SplitStates(T)
<1>1. /\ st.strings \in Seq(Seq(T)) /\ st.start \in Nat \ {0}
      /\ k \in Nat /\ k - 1 \in Nat /\ k - 1 <= Len(s) /\ k + 1 \in Nat \ {0}
    BY LenProperties DEF SplitStates
<1>2. SubSeq(s, st.start, k - 1) \in Seq(T)
    BY <1>1, PartOfString
<1>3. PICK t : t = Append(st.strings, SubSeq(s, st.start, k - 1))
    OBVIOUS
<1>4. t \in Seq(Seq(T))
    BY <1>1, <1>2, <1>3, AppendProperties
<1>5. [strings |-> t, start |-> k + 1, last |-> TRUE] \in SplitStates(T)
    BY <1>1, <1>4 DEF SplitStates
<1>6. [st EXCEPT !.last = FALSE] \in SplitStates(T)
    BY DEF SplitStates
<1>7. [st EXCEPT !.start = k + 1] \in SplitStates(T)
    BY <1>1 DEF SplitStates
<1> QED BY <1>3, <1>5, <1>6, <1>7, Zenon DEF SplitTurn

\* The turns of strsplit: the strings stored after k characters and where
\* the next one begins.  A turn stores a string if it finds the first
\* delimiter of several.
Ended(delims, s, k) == k > 0 /\ s[k] \in delims

IsSplit(delims, s, N, A, B) ==
  /\ A[0] = << >> /\ B[0] = 1
  /\ \A k \in 1 .. N : s[k] \notin delims => A[k] = A[k - 1] /\ B[k] = B[k - 1]
  /\ \A k \in 1 .. N : s[k] \in delims =>
       /\ B[k] = k + 1
       /\ Ended(delims, s, k - 1) => A[k] = A[k - 1]
       /\ ~ Ended(delims, s, k - 1) => A[k] = Append(A[k - 1], SubSeq(s, B[k - 1], k - 1))
  /\ Ended(delims, s, N) => Strsplit(delims, s) = A[N]
  /\ ~ Ended(delims, s, N) => Strsplit(delims, s) = Append(A[N], SubSeq(s, B[N], N))

\* There are such turns.
LEMMA SplitExists ==
  ASSUME NEW delims, NEW T, NEW s \in Seq(T), NEW N \in Nat, N = Len(s)
  PROVE  \E A \in [0 .. N -> Seq(Seq(T))], B \in [0 .. N -> Nat \ {0}] :
           IsSplit(delims, s, N, A, B)
<1>1. PICK St : St = SplitStates(T)
    OBVIOUS
<1>2. SplitFirst \in St
    BY <1>1 DEF SplitFirst, SplitStates
<1>3. \A k \in 1 .. N : \A st \in St : SplitTurn(delims, s, st, k) \in St
    BY <1>1, SplitTurnType
<1>4. PICK G : G = [k \in 1 .. N |-> [st \in St |-> SplitTurn(delims, s, st, k)]]
    OBVIOUS
<1>5. G \in [1 .. N -> [St -> St]]
  <2> DEFINE Turn(k) == [st \in St |-> SplitTurn(delims, s, st, k)]
  <2>1. \A k \in 1 .. N : Turn(k) \in [St -> St]
      BY <1>3
  <2> HIDE DEF Turn
  <2>2. PICK D : D = [St -> St]
      OBVIOUS
  <2>3. G = [k \in 1 .. N |-> Turn(k)]
      BY <1>4 DEF Turn
  <2>4. G \in [1 .. N -> D]
      BY <2>1, <2>2, <2>3
  <2> QED BY <2>2, <2>4
<1>6. PICK f \in [0 .. N -> St] : IsRun(f, N, SplitFirst, G)
    BY <1>2, <1>5, RunExists
<1>7. IsSplitScan(delims, s, f)
  <2>1. f = [k \in 0 .. N |-> f[k]]
      OBVIOUS
  <2>2. \A k \in 1 .. N : f[k] = SplitTurn(delims, s, f[k - 1], k)
    <3>1. \A k \in 1 .. N : f[k] = G[k][f[k - 1]]
        BY <1>6 DEF IsRun
    <3>2. \A k \in 1 .. N : f[k - 1] \in St
        OBVIOUS
    <3> QED BY <1>4, <3>1, <3>2
  <2>3. \A k \in 0 .. N :
          f[k] = IF k = 0 THEN SplitFirst ELSE SplitTurn(delims, s, f[k - 1], k)
      BY <1>6, <2>2 DEF IsRun
  <2> QED BY <2>1, <2>3 DEF IsSplitScan
<1>8. PICK g : g = CHOOSE h : IsSplitScan(delims, s, h)
    OBVIOUS
<1>9. IsSplitScan(delims, s, g)
    BY <1>7, <1>8
<1>10. /\ g[0] = SplitFirst
       /\ \A k \in 1 .. N : g[k] = SplitTurn(delims, s, g[k - 1], k)
    BY <1>9 DEF IsSplitScan
<1>11. \A k \in 0 .. N : g[k] \in St
    BY <1>2, <1>3, <1>10, StaysIn
<1>12. \A k \in 0 .. N : /\ g[k].strings \in Seq(Seq(T)) /\ g[k].start \in Nat \ {0}
                         /\ g[k].last \in BOOLEAN
    BY <1>1, <1>11 DEF SplitStates
<1>13. PICK A : A = [k \in 0 .. N |-> g[k].strings]
    OBVIOUS
<1>14. PICK B : B = [k \in 0 .. N |-> g[k].start]
    OBVIOUS
<1>15. A \in [0 .. N -> Seq(Seq(T))] /\ B \in [0 .. N -> Nat \ {0}]
    BY <1>12, <1>13, <1>14
<1>16. ASSUME NEW k \in 1 .. N, s[k] \notin delims
       PROVE  A[k] = A[k - 1] /\ B[k] = B[k - 1] /\ ~ g[k].last
  <2>1. g[k] = [g[k - 1] EXCEPT !.last = FALSE]
      BY <1>10, <1>16 DEF SplitTurn
  <2>2. g[k - 1] \in St /\ k - 1 \in 0 .. N
      BY <1>11
  <2>3. g[k].strings = g[k - 1].strings /\ g[k].start = g[k - 1].start /\ ~ g[k].last
      BY <1>1, <2>1, <2>2 DEF SplitStates
  <2> QED BY <1>13, <1>14, <2>2, <2>3
<1>17. ASSUME NEW k \in 1 .. N, s[k] \in delims, g[k - 1].last
       PROVE  A[k] = A[k - 1] /\ B[k] = k + 1 /\ g[k].last
  <2>1. g[k] = [g[k - 1] EXCEPT !.start = k + 1]
      BY <1>10, <1>17 DEF SplitTurn
  <2>2. g[k - 1] \in St /\ k - 1 \in 0 .. N
      BY <1>11
  <2>3. g[k].strings = g[k - 1].strings /\ g[k].start = k + 1 /\ g[k].last
      BY <1>1, <1>17, <2>1, <2>2 DEF SplitStates
  <2> QED BY <1>13, <1>14, <2>2, <2>3
<1>18. ASSUME NEW k \in 1 .. N, s[k] \in delims, ~ g[k - 1].last
       PROVE  /\ A[k] = Append(A[k - 1], SubSeq(s, B[k - 1], k - 1))
              /\ B[k] = k + 1 /\ g[k].last
  <2>1. g[k] = [strings |-> Append(g[k - 1].strings, SubSeq(s, g[k - 1].start, k - 1)),
                start |-> k + 1, last |-> TRUE]
      BY <1>10, <1>18 DEF SplitTurn
  <2>2. k - 1 \in 0 .. N
      OBVIOUS
  <2>3. /\ g[k].strings = Append(g[k - 1].strings, SubSeq(s, g[k - 1].start, k - 1))
        /\ g[k].start = k + 1 /\ g[k].last
    <3>1. PICK t : t = Append(g[k - 1].strings, SubSeq(s, g[k - 1].start, k - 1))
        OBVIOUS
    <3>2. g[k] = [strings |-> t, start |-> k + 1, last |-> TRUE]
        BY <2>1, <3>1, Zenon
    <3>3. g[k].strings = t /\ g[k].start = k + 1 /\ g[k].last
        BY <3>2
    <3> QED BY <3>1, <3>3, Zenon
  <2> QED BY <1>13, <1>14, <2>2, <2>3
<1>19. \A k \in 0 .. N : g[k].last <=> Ended(delims, s, k)
  <2> TAKE k \in 0 .. N
  <2>1. CASE k = 0
      BY <1>10, <2>1 DEF Ended, SplitFirst
  <2>2. CASE k \in 1 .. N
      BY <1>16, <1>17, <1>18, <2>2 DEF Ended
  <2> QED BY <2>1, <2>2
<1>20. A[0] = << >> /\ B[0] = 1
    BY <1>10, <1>13, <1>14 DEF SplitFirst
<1>21. Strsplit(delims, s) = SplitResult(s, g[N])
    BY <1>8, StrsplitScan
<1>22. /\ Ended(delims, s, N) => Strsplit(delims, s) = A[N]
       /\ ~ Ended(delims, s, N) => Strsplit(delims, s) = Append(A[N], SubSeq(s, B[N], N))
  <2>1. N \in 0 .. N /\ A[N] = g[N].strings /\ B[N] = g[N].start
      BY <1>13, <1>14
  <2> QED BY <1>19, <1>21, <2>1 DEF SplitResult
<1>23. \A k \in 1 .. N : k - 1 \in 0 .. N
    OBVIOUS
<1>24. IsSplit(delims, s, N, A, B)
    BY <1>16, <1>17, <1>18, <1>19, <1>20, <1>22, <1>23 DEF IsSplit
<1> QED BY <1>15, <1>24

\* The loop of count_tokens.
CountTurn(delims, st, c) ==
  [n |-> IF c \in delims /\ ~ st.last THEN st.n + 1 ELSE st.n, last |-> c \in delims]

CountFirst == [n |-> 1, last |-> FALSE]

IsCountScan(delims, s, f) ==
  f = [k \in 0 .. Len(s) |-> IF k = 0 THEN CountFirst ELSE CountTurn(delims, f[k - 1], s[k])]

CountResult(end) == IF end.last THEN end.n - 1 ELSE end.n

\* count_tokens returns what it leaves.
LEMMA CountTokensScan ==
  ASSUME NEW delims, NEW s
  PROVE  CountTokens(delims, s)
           = CountResult((CHOOSE f : IsCountScan(delims, s, f))[Len(s)])
BY DEF CountTokens, CountResult, IsCountScan, CountFirst, CountTurn

CountStates == [n : Nat, last : BOOLEAN]

\* The count after k characters: a turn adds 1 when strsplit stores a string.
IsCount(delims, s, N, C) ==
  /\ C[0] = 1
  /\ \A k \in 1 .. N :
       C[k] = IF s[k] \in delims /\ ~ Ended(delims, s, k - 1) THEN C[k - 1] + 1 ELSE C[k - 1]
  /\ CountTokens(delims, s) = IF Ended(delims, s, N) THEN C[N] - 1 ELSE C[N]

\* There is one.
LEMMA CountExists ==
  ASSUME NEW delims, NEW s, NEW N \in Nat, N = Len(s)
  PROVE  \E C \in [0 .. N -> Nat] : IsCount(delims, s, N, C)
<1>1. PICK St : St = CountStates
    OBVIOUS
<1>2. CountFirst \in St
    BY <1>1 DEF CountFirst, CountStates
<1>3. \A k \in 1 .. N : \A st \in St : CountTurn(delims, st, s[k]) \in St
  <2> SUFFICES ASSUME NEW k \in 1 .. N, NEW st \in St
               PROVE  CountTurn(delims, st, s[k]) \in St
      OBVIOUS
  <2>1. PICK n : n = IF s[k] \in delims /\ ~ st.last THEN st.n + 1 ELSE st.n
      OBVIOUS
  <2>2. n \in Nat
      BY <1>1, <2>1 DEF CountStates
  <2>3. (s[k] \in delims) \in BOOLEAN
      OBVIOUS
  <2>4. [n |-> n, last |-> s[k] \in delims] \in [n : Nat, last : BOOLEAN]
      BY <2>2, <2>3
  <2> QED BY <1>1, <2>1, <2>4, Zenon DEF CountStates, CountTurn
<1>4. PICK G : G = [k \in 1 .. N |-> [st \in St |-> CountTurn(delims, st, s[k])]]
    OBVIOUS
<1>5. G \in [1 .. N -> [St -> St]]
  <2> DEFINE Turn(k) == [st \in St |-> CountTurn(delims, st, s[k])]
  <2>1. \A k \in 1 .. N : Turn(k) \in [St -> St]
      BY <1>3
  <2> HIDE DEF Turn
  <2>2. PICK D : D = [St -> St]
      OBVIOUS
  <2>3. G = [k \in 1 .. N |-> Turn(k)]
      BY <1>4 DEF Turn
  <2>4. G \in [1 .. N -> D]
      BY <2>1, <2>2, <2>3
  <2> QED BY <2>2, <2>4
<1>6. PICK f \in [0 .. N -> St] : IsRun(f, N, CountFirst, G)
    BY <1>2, <1>5, RunExists
<1>7. IsCountScan(delims, s, f)
  <2>1. f = [k \in 0 .. N |-> f[k]]
      OBVIOUS
  <2>2. \A k \in 1 .. N : f[k] = CountTurn(delims, f[k - 1], s[k])
    <3>1. \A k \in 1 .. N : f[k] = G[k][f[k - 1]]
        BY <1>6 DEF IsRun
    <3>2. \A k \in 1 .. N : f[k - 1] \in St
        OBVIOUS
    <3> QED BY <1>4, <3>1, <3>2
  <2>3. \A k \in 0 .. N :
          f[k] = IF k = 0 THEN CountFirst ELSE CountTurn(delims, f[k - 1], s[k])
      BY <1>6, <2>2 DEF IsRun
  <2> QED BY <2>1, <2>3 DEF IsCountScan
<1>8. PICK g : g = CHOOSE h : IsCountScan(delims, s, h)
    OBVIOUS
<1>9. IsCountScan(delims, s, g)
    BY <1>7, <1>8
<1>10. /\ g[0] = CountFirst
       /\ \A k \in 1 .. N : g[k] = CountTurn(delims, g[k - 1], s[k])
    BY <1>9 DEF IsCountScan
<1>11. \A k \in 0 .. N : g[k] \in St
    BY <1>2, <1>3, <1>10, StaysIn
<1>12. PICK C : C = [k \in 0 .. N |-> g[k].n]
    OBVIOUS
<1>13. C \in [0 .. N -> Nat]
    BY <1>1, <1>11, <1>12 DEF CountStates
<1>14. ASSUME NEW k \in 1 .. N
       PROVE  /\ g[k].last <=> s[k] \in delims
              /\ g[k].n = IF s[k] \in delims /\ ~ g[k - 1].last
                          THEN g[k - 1].n + 1 ELSE g[k - 1].n
  <2>1. PICK n : n = IF s[k] \in delims /\ ~ g[k - 1].last
                     THEN g[k - 1].n + 1 ELSE g[k - 1].n
      OBVIOUS
  <2>2. g[k] = [n |-> n, last |-> s[k] \in delims]
      BY <1>10, <2>1, Zenon DEF CountTurn
  <2>3. g[k].n = n /\ (g[k].last <=> s[k] \in delims)
    <3>1. CASE s[k] \in delims
      <4>1. g[k] = [n |-> n, last |-> TRUE]
          BY <2>2, <3>1, Zenon
      <4>2. g[k].n = n /\ g[k].last
          BY <4>1
      <4> QED BY <3>1, <4>2
    <3>2. CASE s[k] \notin delims
      <4>1. g[k] = [n |-> n, last |-> FALSE]
          BY <2>2, <3>2
      <4>2. g[k].n = n /\ ~ g[k].last
          BY <4>1
      <4> QED BY <3>2, <4>2
    <3> QED BY <3>1, <3>2
  <2> QED BY <2>1, <2>3, Zenon
<1>15. \A k \in 0 .. N : g[k].last <=> Ended(delims, s, k)
  <2> TAKE k \in 0 .. N
  <2>1. CASE k = 0
      BY <1>10, <2>1 DEF Ended, CountFirst
  <2>2. CASE k \in 1 .. N
      BY <1>14, <2>2 DEF Ended
  <2> QED BY <2>1, <2>2
<1>16. ASSUME NEW k \in 1 .. N
       PROVE  C[k] = IF s[k] \in delims /\ ~ Ended(delims, s, k - 1)
                     THEN C[k - 1] + 1 ELSE C[k - 1]
  <2>1. k - 1 \in 0 .. N /\ C[k] = g[k].n /\ C[k - 1] = g[k - 1].n
      BY <1>12
  <2> QED BY <1>14, <1>15, <2>1
<1>17. C[0] = 1
    BY <1>10, <1>12 DEF CountFirst
<1>18. CountTokens(delims, s) = IF Ended(delims, s, N) THEN C[N] - 1 ELSE C[N]
  <2>1. CountTokens(delims, s) = CountResult(g[N])
      BY <1>8, CountTokensScan
  <2>2. N \in 0 .. N /\ C[N] = g[N].n
      BY <1>12
  <2> QED BY <1>15, <2>1, <2>2 DEF CountResult
<1>19. IsCount(delims, s, N, C)
    BY <1>16, <1>17, <1>18 DEF IsCount
<1> QED BY <1>13, <1>19
=============================================================================
