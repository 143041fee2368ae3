----------------------------- MODULE WireProofs -----------------------------
(***************************************************************************)
(* A REGISTER of any length, rank and directory, from its format to the    *)
(* entry, and the other strings of the wire.                               *)
(***************************************************************************)
EXTENDS Wire, StringProofs

\* How many pieces begin up to a place.
UpTo(delims, s, k) == Cardinality({j \in Starts(delims, s) : j <= k})

\* A place at which one begins counts, and no other.
LEMMA UpToCounts ==
  ASSUME NEW delims, NEW s, NEW N \in Nat, N = Len(s)
  PROVE  /\ UpTo(delims, s, 0) = 0
         /\ UpTo(delims, s, N) = Cardinality(Starts(delims, s))
         /\ \A k \in 0 .. N : UpTo(delims, s, k) \in Nat
         /\ \A k \in 1 .. N :
              UpTo(delims, s, k) = IF k \in Starts(delims, s) THEN UpTo(delims, s, k - 1) + 1
                                   ELSE UpTo(delims, s, k - 1)
<1> DEFINE X == Starts(delims, s)
           Below(k) == {j \in X : j <= k}
<1>1. \A k : UpTo(delims, s, k) = Cardinality(Below(k))
    BY DEF UpTo
<1>2. X \subseteq 1 .. N
    BY DEF Starts
<1> HIDE DEF X
<1>3. IsFiniteSet(X)
  <2>1. IsFiniteSet(1 .. N)
      BY FS_Interval
  <2> QED BY <1>2, <2>1, FS_Subset
<1>4. \A k : IsFiniteSet(Below(k))
  <2> TAKE k
  <2>1. Below(k) \subseteq X
      OBVIOUS
  <2> HIDE DEF Below
  <2> QED BY <1>3, <2>1, FS_Subset
<1>5. Below(0) = {} /\ Below(N) = X
  <2>1. \A j \in X : j \in Nat /\ j # 0 /\ j <= N
      BY <1>2
  <2> QED BY <2>1
<1>6. ASSUME NEW k \in 1 .. N PROVE k \notin Below(k - 1)
    OBVIOUS
<1>7. ASSUME NEW k \in 1 .. N
      PROVE  Below(k) = IF k \in X THEN Below(k - 1) \cup {k} ELSE Below(k - 1)
  <2>1. \A j \in X : j <= k <=> j <= k - 1 \/ j = k
      BY <1>2
  <2> QED BY <2>1
<1> HIDE DEF Below
<1>8. UpTo(delims, s, 0) = 0 /\ UpTo(delims, s, N) = Cardinality(X)
    BY <1>1, <1>5, FS_EmptySet
<1>9. \A k \in 0 .. N : UpTo(delims, s, k) \in Nat
    BY <1>1, <1>4, FS_CardinalityType
<1>10. ASSUME NEW k \in 1 .. N
       PROVE  UpTo(delims, s, k) = IF k \in X THEN UpTo(delims, s, k - 1) + 1
                                   ELSE UpTo(delims, s, k - 1)
  <2>1. Cardinality(Below(k - 1) \cup {k}) = Cardinality(Below(k - 1)) + 1
      BY <1>4, <1>6, FS_AddElement
  <2> QED BY <1>1, <1>7, <2>1
<1> QED BY <1>8, <1>9, <1>10 DEF X

PiecesEnd(delims, s, N) ==
  \A k \in 1 .. N : \A e \in k .. N :
    (\A m \in k .. e : s[m] \notin delims) /\ (e = N \/ s[e + 1] \in delims)
      => Piece(delims, s, k) = SubSeq(s, k, e)

\* A piece ends before the first delimiter.
LEMMA PieceIs ==
  ASSUME NEW delims, NEW s, NEW N \in Nat, N = Len(s)
  PROVE  PiecesEnd(delims, s, N)
<1> SUFFICES ASSUME NEW k \in 1 .. N, NEW e \in k .. N,
                    \A m \in k .. e : s[m] \notin delims, e = N \/ s[e + 1] \in delims
             PROVE  Piece(delims, s, k) = SubSeq(s, k, e)
    BY DEF PiecesEnd
<1> DEFINE IsEnd(j) == /\ \A m \in k .. j : s[m] \notin delims
                       /\ j = Len(s) \/ s[j + 1] \in delims
           last == CHOOSE j \in k .. Len(s) : IsEnd(j)
<1>1. e \in k .. Len(s) /\ IsEnd(e)
    OBVIOUS
<1>2. ASSUME NEW j \in k .. Len(s), IsEnd(j) PROVE j = e
  <2>1. ~ j < e
    <3> SUFFICES ASSUME j < e PROVE FALSE
        OBVIOUS
    <3>1. j + 1 \in k .. e /\ j # Len(s)
        OBVIOUS
    <3> QED BY <1>2, <3>1
  <2>2. ~ e < j
    <3> SUFFICES ASSUME e < j PROVE FALSE
        OBVIOUS
    <3>1. e + 1 \in k .. j /\ e # N
        OBVIOUS
    <3> QED BY <1>2, <3>1
  <2> QED BY <2>1, <2>2
<1>3. last = e
  <2> HIDE DEF IsEnd
  <2> QED BY <1>1, <1>2
<1>4. Piece(delims, s, k) = SubSeq(s, k, last)
    BY DEF Piece
<1> QED BY <1>3, <1>4

\* The places X at which the pieces of s begin, their numbers U and the
\* pieces P.
ArePieces(delims, s, N, X, U, P) ==
  /\ X = Starts(delims, s) /\ X \subseteq 1 .. N
  /\ \A j \in 1 .. N : j \in X <=> s[j] \notin delims /\ (j = 1 \/ s[j - 1] \in delims)
  /\ U[0] = 0 /\ \A j \in 0 .. N : U[j] \in Nat /\ U[j] = UpTo(delims, s, j)
  /\ \A j \in 1 .. N : j \in X => U[j] = U[j - 1] + 1
  /\ \A j \in 1 .. N : j \notin X => U[j] = U[j - 1]
  /\ \A j \in 1 .. N : P[j] = Piece(delims, s, j)
  /\ \A j \in 1 .. N : \A e \in j .. N :
       (\A m \in j .. e : s[m] \notin delims) /\ (e = N \/ s[e + 1] \in delims)
         => P[j] = SubSeq(s, j, e)

LEMMA PiecesExist ==
  ASSUME NEW delims, NEW s, NEW N \in Nat, N = Len(s)
  PROVE  \E X, U, P : ArePieces(delims, s, N, X, U, P)
<1>1. PICK X : X = Starts(delims, s)
    OBVIOUS
<1>2. PICK U : U = [j \in 0 .. N |-> UpTo(delims, s, j)]
    OBVIOUS
<1>3. PICK P : P = [j \in 1 .. N |-> Piece(delims, s, j)]
    OBVIOUS
<1>4. /\ X \subseteq 1 .. N
      /\ \A j \in 1 .. N : j \in X <=> s[j] \notin delims /\ (j = 1 \/ s[j - 1] \in delims)
    BY <1>1 DEF Starts
<1>5. /\ U[0] = 0 /\ \A j \in 0 .. N : U[j] \in Nat /\ U[j] = UpTo(delims, s, j)
      /\ \A j \in 1 .. N : j \in X => U[j] = U[j - 1] + 1
      /\ \A j \in 1 .. N : j \notin X => U[j] = U[j - 1]
  <2>1. \A j \in 1 .. N : j - 1 \in 0 .. N /\ j \in 0 .. N
      OBVIOUS
  <2>2. UpTo(delims, s, 0) = 0 /\ \A j \in 0 .. N : UpTo(delims, s, j) \in Nat
      BY UpToCounts
  <2>3. \A j \in 1 .. N :
          UpTo(delims, s, j) = IF j \in Starts(delims, s) THEN UpTo(delims, s, j - 1) + 1
                               ELSE UpTo(delims, s, j - 1)
      BY UpToCounts
  <2>4. 0 \in 0 .. N /\ \A j \in 0 .. N : U[j] = UpTo(delims, s, j)
      BY <1>2
  <2> QED BY <1>1, <2>1, <2>2, <2>3, <2>4
<1>6. \A j \in 1 .. N : P[j] = Piece(delims, s, j)
    BY <1>3
<1>7. \A j \in 1 .. N : \A e \in j .. N :
        (\A m \in j .. e : s[m] \notin delims) /\ (e = N \/ s[e + 1] \in delims)
          => P[j] = SubSeq(s, j, e)
  <2>1. PiecesEnd(delims, s, N)
      BY PieceIs
  <2> QED BY <1>6, <2>1, Zenon DEF PiecesEnd
<1>8. ArePieces(delims, s, N, X, U, P)
    BY <1>1, <1>4, <1>5, <1>6, <1>7 DEF ArePieces
<1> QED BY <1>8

Lead(delims, s) == IF s = << >> \/ s[1] \in delims THEN 1 ELSE 0

\* After k characters of s, the strings t are stored and the next one begins
\* at b: the pieces that have ended, after an empty one if s begins with a
\* delimiter.
Stored(delims, s, k, t, b) ==
  \A j \in Starts(delims, s) : j <= k /\ (Ended(delims, s, k) \/ j # b) =>
    /\ Lead(delims, s) + UpTo(delims, s, j) \in 1 .. Len(t)
    /\ t[Lead(delims, s) + UpTo(delims, s, j)] = Piece(delims, s, j)

SplitInv(delims, s, k, t, b) ==
  /\ k = 0 => t = << >> /\ b = 1
  /\ k > 0 /\ Ended(delims, s, k) =>
       b = k + 1 /\ Len(t) = Lead(delims, s) + UpTo(delims, s, k)
  /\ k > 0 /\ ~ Ended(delims, s, k) =>
       /\ b \in Starts(delims, s) /\ b <= k /\ \A m \in b .. k : s[m] \notin delims
       /\ UpTo(delims, s, b) = UpTo(delims, s, k)
       /\ Len(t) = Lead(delims, s) + UpTo(delims, s, k) - 1
  /\ k > 0 /\ Lead(delims, s) = 1 => Len(t) >= 1 /\ t[1] = << >>
  /\ Stored(delims, s, k, t, b)

\* What is appended comes last.
LEMMA Appended ==
  ASSUME NEW S, NEW t \in Seq(S), NEW x \in S, NEW u, u = Append(t, x)
  PROVE  /\ u \in Seq(S) /\ Len(u) = Len(t) + 1 /\ u[Len(t) + 1] = x
         /\ \A k \in 1 .. Len(t) : u[k] = t[k]
BY AppendProperties

\* A turn of strsplit keeps this.
LEMMA SplitTurnKeeps ==
  ASSUME NEW delims, NEW T, NEW s \in Seq(T), NEW N \in Nat, N = Len(s),
         NEW k \in 1 .. N,
         NEW t \in Seq(Seq(T)), NEW b \in Nat \ {0}, SplitInv(delims, s, k - 1, t, b),
         NEW u \in Seq(Seq(T)), NEW c \in Nat \ {0},
         s[k] \notin delims => u = t /\ c = b,
         s[k] \in delims =>
           /\ c = k + 1
           /\ Ended(delims, s, k - 1) => u = t
           /\ ~ Ended(delims, s, k - 1) => u = Append(t, SubSeq(s, b, k - 1))
  PROVE  SplitInv(delims, s, k, u, c)
<1>1. PICK X, U, P : ArePieces(delims, s, N, X, U, P)
    BY PiecesExist
<1>2. PICK lead \in {0, 1} : lead = Lead(delims, s)
    BY DEF Lead
<1>3. X = Starts(delims, s)
    BY <1>1 DEF ArePieces
<1>4. /\ \A j \in 1 .. N : P[j] = Piece(delims, s, j)
      /\ \A j \in 1 .. N : \A e \in j .. N :
           (\A m \in j .. e : s[m] \notin delims) /\ (e = N \/ s[e + 1] \in delims)
             => P[j] = SubSeq(s, j, e)
    BY <1>1 DEF ArePieces
<1>5. /\ X \subseteq 1 .. N
      /\ \A j \in 1 .. N : j \in X <=> s[j] \notin delims /\ (j = 1 \/ s[j - 1] \in delims)
    BY <1>1 DEF ArePieces
<1>6. /\ U[0] = 0 /\ \A j \in 0 .. N : U[j] \in Nat /\ U[j] = UpTo(delims, s, j)
      /\ \A j \in 1 .. N : j \in X => U[j] = U[j - 1] + 1
      /\ \A j \in 1 .. N : j \notin X => U[j] = U[j - 1]
    BY <1>1 DEF ArePieces
<1>7. \A j \in X : j \in 0 .. N /\ j \in 1 .. N /\ P[j] = Piece(delims, s, j)
    BY <1>4, <1>5
<1>8. Len(t) \in Nat /\ Len(u) \in Nat
    BY LenProperties
\* The invariant in these terms, before and after the turn.
<1> DEFINE Kept(m, strs, at) ==
      \A j \in X : j <= m /\ (Ended(delims, s, m) \/ j # at) =>
        lead + U[j] \in 1 .. Len(strs) /\ strs[lead + U[j]] = P[j]
<1>9. Kept(k - 1, t, b)
    BY <1>2, <1>3, <1>6, <1>7 DEF SplitInv, Stored
<1>10. /\ k = 1 => t = << >> /\ b = 1
       /\ k > 1 /\ s[k - 1] \in delims => b = k /\ Len(t) = lead + U[k - 1]
       /\ k > 1 /\ s[k - 1] \notin delims =>
            /\ b \in X /\ b <= k - 1 /\ \A m \in b .. k - 1 : s[m] \notin delims
            /\ U[b] = U[k - 1] /\ Len(t) = lead + U[k - 1] - 1
       /\ k > 1 /\ lead = 1 => Len(t) >= 1 /\ t[1] = << >>
  <2>1. k - 1 \in 0 .. N /\ (k - 1 > 0 <=> k > 1) /\ (k - 1 = 0 <=> k = 1) /\ (k - 1) + 1 = k
      OBVIOUS
  <2>2. Ended(delims, s, k - 1) <=> k > 1 /\ s[k - 1] \in delims
      BY <2>1 DEF Ended
  <2>3. U[k - 1] = UpTo(delims, s, k - 1) /\ \A j \in X : U[j] = UpTo(delims, s, j)
      BY <1>6, <1>7, <2>1
  <2>4. PICK m : m = k - 1
      OBVIOUS
  <2>5. /\ m = 0 => t = << >> /\ b = 1
        /\ m > 0 /\ Ended(delims, s, m) => b = m + 1 /\ Len(t) = lead + U[m]
        /\ m > 0 /\ ~ Ended(delims, s, m) =>
             /\ b \in X /\ b <= m /\ \A x \in b .. m : s[x] \notin delims
             /\ U[b] = U[m]
             /\ Len(t) = lead + U[m] - 1
        /\ m > 0 /\ lead = 1 => Len(t) >= 1 /\ t[1] = << >>
    <3>1. SplitInv(delims, s, m, t, b)
        BY <2>4
    <3> QED BY <1>2, <1>3, <2>3, <2>4, <3>1 DEF SplitInv
  <2> QED BY <2>1, <2>2, <2>4, <2>5
<1>11. lead = 1 <=> s[1] \in delims
  <2>1. s # << >>
      BY EmptySeq
  <2> QED BY <1>2, <2>1 DEF Lead
<1>12. Ended(delims, s, k) <=> s[k] \in delims
    BY DEF Ended
<1>13. Ended(delims, s, k - 1) <=> k > 1 /\ s[k - 1] \in delims
    BY DEF Ended
<1> DEFINE Goal == /\ Ended(delims, s, k) => c = k + 1 /\ Len(u) = lead + U[k]
                   /\ ~ Ended(delims, s, k) =>
                        /\ c \in X /\ c <= k /\ \A m \in c .. k : s[m] \notin delims
                        /\ U[c] = U[k] /\ Len(u) = lead + U[k] - 1
                   /\ lead = 1 => Len(u) >= 1 /\ u[1] = << >>
                   /\ Kept(k, u, c)
<1>14. ASSUME Goal PROVE SplitInv(delims, s, k, u, c)
  <2>1. Stored(delims, s, k, u, c)
      BY <1>2, <1>3, <1>6, <1>7, <1>14 DEF Stored
  <2>2. k \in 0 .. N /\ k # 0
      OBVIOUS
  <2>3. \A j \in X : U[j] = UpTo(delims, s, j)
      BY <1>6, <1>7
  <2> QED BY <1>2, <1>3, <1>6, <1>14, <2>1, <2>2, <2>3 DEF SplitInv
<1>15. CASE s[k] \notin delims /\ (k = 1 \/ s[k - 1] \in delims)
  <2>1. u = t /\ c = b /\ b = k /\ k \in X /\ U[k] = U[k - 1] + 1
      BY <1>5, <1>6, <1>10, <1>15
  <2>2. Len(t) = lead + U[k - 1]
    <3>1. CASE k = 1
      <4>1. lead = 0 /\ U[k - 1] = 0 /\ Len(t) = 0
          BY <1>6, <1>10, <1>11, <1>15, <3>1
      <4> QED BY <4>1
    <3> QED BY <1>10, <1>15, <3>1
  <2>3. Kept(k, u, c)
    <3>1. \A j \in X : j <= k /\ j # c => j <= k - 1 /\ j # b
        BY <1>7, <2>1
    <3> QED BY <1>9, <1>12, <1>15, <2>1, <3>1
  <2>4. lead = 1 => k > 1
      BY <1>11, <1>15
  <2>5. Len(u) = lead + U[k] - 1
    <3>1. U[k - 1] \in Nat /\ U[k] \in Nat
        BY <1>6
    <3> QED BY <2>1, <2>2, <3>1
  <2>6. \A m \in c .. k : m = k
      BY <2>1
  <2> HIDE DEF Kept
  <2> QED BY <1>10, <1>12, <1>14, <1>15, <2>1, <2>3, <2>4, <2>5, <2>6
<1>16. CASE s[k] \notin delims /\ k > 1 /\ s[k - 1] \notin delims
  <2>1. u = t /\ c = b /\ k \notin X /\ U[k] = U[k - 1]
      BY <1>5, <1>6, <1>16
  <2>2. Kept(k, u, c)
    <3>1. \A j \in X : j <= k => j <= k - 1
        BY <1>7, <2>1
    <3> QED BY <1>9, <1>12, <1>16, <2>1, <3>1
  <2>3. \A m \in c .. k : s[m] \notin delims
    <3>1. \A m \in c .. k : m \in b .. k - 1 \/ m = k
        BY <2>1
    <3> QED BY <1>10, <1>16, <3>1
  <2>4. c \in X /\ c <= k /\ U[c] = U[k] /\ Len(u) = lead + U[k] - 1
      BY <1>10, <1>16, <2>1
  <2> HIDE DEF Kept
  <2> QED BY <1>10, <1>12, <1>14, <1>16, <2>1, <2>2, <2>3, <2>4
<1>17. CASE s[k] \in delims /\ k > 1 /\ s[k - 1] \in delims
  <2>1. u = t /\ c = k + 1 /\ k \notin X /\ U[k] = U[k - 1]
      BY <1>5, <1>6, <1>13, <1>17
  <2>2. Kept(k, u, c)
    <3>1. \A j \in X : j <= k => j <= k - 1
        BY <1>7, <2>1
    <3> QED BY <1>9, <1>13, <1>17, <2>1, <3>1
  <2> HIDE DEF Kept
  <2> QED BY <1>10, <1>12, <1>14, <1>17, <2>1, <2>2
<1>18. CASE s[k] \in delims /\ k > 1 /\ s[k - 1] \notin delims
  <2>1. PICK x : x = SubSeq(s, b, k - 1)
      OBVIOUS
  <2>2. /\ u = Append(t, x) /\ c = k + 1 /\ k \notin X /\ U[k] = U[k - 1]
      BY <1>5, <1>6, <1>13, <1>18, <2>1
  <2>3. /\ b \in X /\ b <= k - 1 /\ \A m \in b .. k - 1 : s[m] \notin delims
        /\ U[b] = U[k - 1] /\ Len(t) = lead + U[k - 1] - 1
      BY <1>10, <1>18
  <2>4. x \in Seq(T)
    <3>1. k - 1 \in Nat /\ k - 1 <= Len(s)
        OBVIOUS
    <3> QED BY <2>1, <3>1, PartOfString
  <2>5. x = P[b]
    <3>1. PICK e : e = k - 1
        OBVIOUS
    <3>2. e \in b .. N /\ s[e + 1] \in delims /\ b \in 1 .. N
        BY <1>5, <1>18, <2>3, <3>1
    <3>3. \A m \in b .. e : s[m] \notin delims
        BY <2>3, <3>1
    <3>4. P[b] = SubSeq(s, b, e)
        BY <1>4, <3>2, <3>3, Zenon
    <3> QED BY <2>1, <3>1, <3>4
  <2>6. /\ Len(u) = Len(t) + 1 /\ u[Len(t) + 1] = x
        /\ \A j \in 1 .. Len(t) : u[j] = t[j]
    <3>1. PICK S : S = Seq(T)
        OBVIOUS
    <3> QED BY <2>2, <2>4, <3>1, Appended
  <2>7. Len(u) = lead + U[k]
      BY <1>6, <2>2, <2>3, <2>6
  <2>8. Kept(k, u, c)
    <3> SUFFICES ASSUME NEW j \in X, j <= k
                 PROVE  lead + U[j] \in 1 .. Len(u) /\ u[lead + U[j]] = P[j]
        OBVIOUS
    <3>1. j <= k - 1
        BY <1>7, <2>2
    <3>2. CASE j = b
      <4>1. lead + U[j] = Len(t) + 1
          BY <1>6, <1>7, <2>3, <3>2
      <4> QED BY <1>8, <2>5, <2>6, <3>2, <4>1
    <3>3. CASE j # b
      <4>1. lead + U[j] \in 1 .. Len(t) /\ t[lead + U[j]] = P[j]
          BY <1>9, <3>1, <3>3
      <4> QED BY <1>8, <2>6, <4>1
    <3> QED BY <3>2, <3>3
  <2>9. lead = 1 => Len(u) >= 1 /\ u[1] = << >>
      BY <1>8, <1>10, <1>18, <2>6
  <2> HIDE DEF Kept
  <2> QED BY <1>12, <1>14, <1>18, <2>2, <2>7, <2>8, <2>9
<1>19. CASE s[k] \in delims /\ k = 1
  <2>1. PICK x : x = SubSeq(s, 1, 0)
      OBVIOUS
  <2>2. x = << >> /\ x \in Seq(T)
      BY <2>1
  <2>3. u = Append(t, x) /\ c = k + 1 /\ k \notin X /\ U[k] = 0 /\ t = << >> /\ lead = 1
      BY <1>5, <1>6, <1>10, <1>11, <1>13, <1>19, <2>1
  <2>4. Len(u) = 1 /\ u[1] = << >>
      BY <2>2, <2>3
  <2>5. Kept(k, u, c)
    <3>1. \A j \in X : ~ j <= k
        BY <1>7, <1>19, <2>3
    <3> QED BY <3>1
  <2> HIDE DEF Kept
  <2> QED BY <1>12, <1>14, <1>19, <2>3, <2>4, <2>5
<1> QED BY <1>15, <1>16, <1>17, <1>18, <1>19

\* strsplit and count_tokens agree, for every string and every delimiters,
\* and the tokens are the pieces.
LEMMA StrsplitRight ==
  ASSUME NEW delims, NEW T, NEW s \in Seq(T)
  PROVE  /\ Strsplit(delims, s) \in Seq(Seq(T))
         /\ Len(Strsplit(delims, s)) = CountTokens(delims, s)
         /\ Len(Strsplit(delims, s)) = Lead(delims, s) + Cardinality(Starts(delims, s))
         /\ Lead(delims, s) = 1 => Strsplit(delims, s)[1] = << >>
         /\ \A k \in Starts(delims, s) :
              Strsplit(delims, s)[Lead(delims, s) + UpTo(delims, s, k)] = Piece(delims, s, k)
<1>1. PICK N \in Nat : N = Len(s)
    BY LenProperties
<1>2. PICK A \in [0 .. N -> Seq(Seq(T))], B \in [0 .. N -> Nat \ {0}] :
        IsSplit(delims, s, N, A, B)
    BY <1>1, SplitExists
<1>3. PICK C \in [0 .. N -> Nat] : IsCount(delims, s, N, C)
    BY <1>1, CountExists
<1>4. \A k \in 0 .. N : A[k] \in Seq(Seq(T)) /\ B[k] \in Nat \ {0} /\ C[k] \in Nat
    BY <1>2, <1>3
<1>5. \A k \in 0 .. N : SplitInv(delims, s, k, A[k], B[k])
  <2> DEFINE K == {k \in 0 .. N : SplitInv(delims, s, k, A[k], B[k])}
  <2>1. 0 \in K
    <3>1. A[0] = << >> /\ B[0] = 1
        BY <1>2 DEF IsSplit
    <3>2. \A j \in Starts(delims, s) : ~ j <= 0
        BY <1>1 DEF Starts
    <3>3. Stored(delims, s, 0, A[0], B[0])
        BY <3>2 DEF Stored
    <3>4. SplitInv(delims, s, 0, A[0], B[0])
        BY <3>1, <3>3 DEF SplitInv
    <3> QED BY <3>4
  <2>2. \A k \in 0 .. N - 1 : k \in K => k + 1 \in K
    <3> SUFFICES ASSUME NEW k \in 0 .. N - 1, k \in K PROVE k + 1 \in K
        OBVIOUS
    <3>1. PICK m \in 1 .. N : m = k + 1
        OBVIOUS
    <3>2. m - 1 = k /\ m - 1 \in 0 .. N /\ m \in 0 .. N
        BY <3>1
    <3>3. SplitInv(delims, s, m - 1, A[m - 1], B[m - 1])
        BY <3>2
    <3>4. /\ s[m] \notin delims => A[m] = A[m - 1] /\ B[m] = B[m - 1]
          /\ s[m] \in delims =>
               /\ B[m] = m + 1
               /\ Ended(delims, s, m - 1) => A[m] = A[m - 1]
               /\ ~ Ended(delims, s, m - 1) =>
                    A[m] = Append(A[m - 1], SubSeq(s, B[m - 1], m - 1))
        BY <1>2, Zenon DEF IsSplit
    <3>5. PICK t \in Seq(Seq(T)) : t = A[m - 1]
        BY <1>4, <3>2, Zenon
    <3>6. PICK b \in Nat \ {0} : b = B[m - 1]
        BY <1>4, <3>2, Zenon
    <3>7. PICK u \in Seq(Seq(T)) : u = A[m]
        BY <1>4, <3>2, Zenon
    <3>8. PICK c \in Nat \ {0} : c = B[m]
        BY <1>4, <3>2, Zenon
    <3>9. SplitInv(delims, s, m - 1, t, b)
        BY <3>3, <3>5, <3>6, Zenon
    <3>10. s[m] \notin delims => u = t /\ c = b
        BY <3>4, <3>5, <3>6, <3>7, <3>8, Zenon
    <3>11. s[m] \in delims =>
             /\ c = m + 1
             /\ Ended(delims, s, m - 1) => u = t
             /\ ~ Ended(delims, s, m - 1) => u = Append(t, SubSeq(s, b, m - 1))
        BY <3>4, <3>5, <3>6, <3>7, <3>8, Zenon
    <3>12. SplitInv(delims, s, m, u, c)
        BY <1>1, <3>9, <3>10, <3>11, SplitTurnKeeps, Zenon
    <3>13. SplitInv(delims, s, k + 1, A[k + 1], B[k + 1]) /\ k + 1 \in 0 .. N
        BY <3>1, <3>2, <3>7, <3>8, <3>12, Zenon
    <3> QED BY <3>13
  <2> HIDE DEF K
  <2>3. \A k \in 0 .. N : k \in K
      BY <2>1, <2>2, BoundedInduction
  <2> QED BY <2>3 DEF K
<1>6. \A k \in 0 .. N : C[k] = Len(A[k]) + 1
  <2> DEFINE K == {k \in 0 .. N : C[k] = Len(A[k]) + 1}
  <2>1. 0 \in K
    <3>1. A[0] = << >> /\ C[0] = 1 /\ Len(<< >>) = 0
        BY <1>2, <1>3 DEF IsSplit, IsCount
    <3> QED BY <3>1
  <2>2. \A k \in 0 .. N - 1 : k \in K => k + 1 \in K
    <3> SUFFICES ASSUME NEW k \in 0 .. N - 1, k \in K PROVE k + 1 \in K
        OBVIOUS
    <3>1. PICK m \in 1 .. N : m = k + 1
        OBVIOUS
    <3>2. m - 1 = k /\ m - 1 \in 0 .. N /\ m \in 0 .. N /\ C[m - 1] = Len(A[m - 1]) + 1
        BY <3>1
    <3>3. C[m] = IF s[m] \in delims /\ ~ Ended(delims, s, m - 1) THEN C[m - 1] + 1
                 ELSE C[m - 1]
        BY <1>3 DEF IsCount
    <3>4. CASE s[m] \in delims /\ ~ Ended(delims, s, m - 1)
      <4>1. PICK t \in Seq(Seq(T)) : t = A[m - 1]
          BY <1>4, <3>2, Zenon
      <4>2. PICK x : x = SubSeq(s, B[m - 1], m - 1)
          OBVIOUS
      <4>3. A[m] = Append(t, x)
          BY <1>2, <3>4, <4>1, <4>2, Zenon DEF IsSplit
      <4>4. x \in Seq(T)
        <5>1. m - 1 \in Nat /\ m - 1 <= Len(s) /\ B[m - 1] \in Nat \ {0}
            BY <1>1, <1>4, <3>2
        <5> QED BY <4>2, <5>1, PartOfString
      <4>5. Len(Append(t, x)) = Len(t) + 1
        <5>1. PICK S : S = Seq(T)
            OBVIOUS
        <5> QED BY <4>4, <5>1, AppendProperties
      <4>6. Len(A[m]) = Len(A[m - 1]) + 1
          BY <4>1, <4>3, <4>5, Zenon
      <4>7. C[m] = C[m - 1] + 1
          BY <3>3, <3>4
      <4>8. C[m] = Len(A[m]) + 1
          BY <3>2, <4>6, <4>7, Zenon
      <4> QED BY <3>1, <3>2, <4>8
    <3>5. CASE ~ (s[m] \in delims /\ ~ Ended(delims, s, m - 1))
      <4>1. A[m] = A[m - 1]
          BY <1>2, <3>5, Zenon DEF IsSplit
      <4>2. C[m] = C[m - 1]
          BY <3>3, <3>5
      <4>3. C[m] = Len(A[m]) + 1
          BY <3>2, <4>1, <4>2
      <4> QED BY <3>1, <3>2, <4>3
    <3> QED BY <3>4, <3>5
  <2> HIDE DEF K
  <2>3. \A k \in 0 .. N : k \in K
      BY <2>1, <2>2, BoundedInduction
  <2> QED BY <2>3 DEF K
<1>7. PICK t \in Seq(Seq(T)) : t = A[N]
    BY <1>4
<1>8. PICK b \in Nat \ {0} : b = B[N]
    BY <1>4
<1>9. SplitInv(delims, s, N, t, b) /\ C[N] = Len(t) + 1
  <2>1. N \in 0 .. N
      OBVIOUS
  <2> QED BY <1>5, <1>6, <1>7, <1>8, <2>1, Zenon
<1>10. PICK u : u = Strsplit(delims, s)
    OBVIOUS
<1>11. PICK n : n = CountTokens(delims, s)
    OBVIOUS
<1>12. PICK x : x = SubSeq(s, b, N)
    OBVIOUS
<1>13. /\ Ended(delims, s, N) => u = t /\ n = Len(t)
       /\ ~ Ended(delims, s, N) => u = Append(t, x) /\ n = Len(t) + 1
  <2>1. /\ Ended(delims, s, N) => u = t
        /\ ~ Ended(delims, s, N) => u = Append(t, x)
      BY <1>2, <1>7, <1>8, <1>10, <1>12, Zenon DEF IsSplit
  <2>2. n = IF Ended(delims, s, N) THEN C[N] - 1 ELSE C[N]
      BY <1>3, <1>11, Zenon DEF IsCount
  <2>3. Len(t) \in Nat
      BY LenProperties
  <2>4. /\ Ended(delims, s, N) => n = Len(t)
        /\ ~ Ended(delims, s, N) => n = Len(t) + 1
      BY <1>9, <2>2, <2>3
  <2> QED BY <2>1, <2>4, Zenon
<1>14. x \in Seq(T)
    BY <1>1, <1>12, PartOfString
<1>15. ~ Ended(delims, s, N) =>
         /\ u \in Seq(Seq(T)) /\ Len(u) = Len(t) + 1 /\ u[Len(t) + 1] = x
         /\ \A k \in 1 .. Len(t) : u[k] = t[k]
  <2>1. PICK S : S = Seq(T)
      OBVIOUS
  <2>2. t \in Seq(S) /\ x \in S
      BY <1>14, <2>1, Zenon
  <2>3. ASSUME u = Append(t, x)
        PROVE  /\ u \in Seq(S) /\ Len(u) = Len(t) + 1 /\ u[Len(t) + 1] = x
               /\ \A k \in 1 .. Len(t) : u[k] = t[k]
      BY <2>2, <2>3, Appended
  <2> QED BY <1>13, <2>1, <2>3, Zenon
<1> DEFINE Right(v) ==
      /\ Len(v) = Lead(delims, s) + Cardinality(Starts(delims, s))
      /\ Lead(delims, s) = 1 => v[1] = << >>
      /\ \A k \in Starts(delims, s) :
           v[Lead(delims, s) + UpTo(delims, s, k)] = Piece(delims, s, k)
<1>16. Right(u)
  <2>1. PICK X, U, P : ArePieces(delims, s, N, X, U, P)
      BY <1>1, PiecesExist
  <2>2. PICK lead \in {0, 1} : lead = Lead(delims, s)
      BY DEF Lead
  <2>3. /\ X = Starts(delims, s) /\ X \subseteq 1 .. N
        /\ \A j \in 0 .. N : U[j] \in Nat /\ U[j] = UpTo(delims, s, j)
        /\ \A j \in 1 .. N : P[j] = Piece(delims, s, j)
        /\ \A j \in 1 .. N : \A e \in j .. N :
             (\A m \in j .. e : s[m] \notin delims) /\ (e = N \/ s[e + 1] \in delims)
               => P[j] = SubSeq(s, j, e)
      BY <2>1, Zenon DEF ArePieces
  <2>4. U[N] = Cardinality(X)
    <3>1. UpTo(delims, s, N) = Cardinality(Starts(delims, s))
        BY <1>1, UpToCounts
    <3>2. N \in 0 .. N
        OBVIOUS
    <3> QED BY <2>3, <3>1, <3>2, Zenon
  <2>5. \A j \in X : j \in 1 .. N /\ j \in 0 .. N /\ j <= N
      BY <2>3
  <2>6. SUFFICES /\ Len(u) = lead + U[N]
                 /\ lead = 1 => u[1] = << >>
                 /\ \A k \in X : u[lead + U[k]] = P[k]
      BY <2>2, <2>3, <2>4, <2>5, Zenon
  <2>7. \A j \in X : Ended(delims, s, N) \/ j # b =>
          lead + U[j] \in 1 .. Len(t) /\ t[lead + U[j]] = P[j]
    <3>1. Stored(delims, s, N, t, b)
        BY <1>9, Zenon DEF SplitInv
    <3> QED BY <2>2, <2>3, <2>5, <3>1 DEF Stored
  <2>8. /\ N = 0 => t = << >> /\ b = 1
        /\ N > 0 /\ Ended(delims, s, N) => Len(t) = lead + U[N]
        /\ N > 0 /\ ~ Ended(delims, s, N) =>
             /\ b \in X /\ b <= N /\ \A m \in b .. N : s[m] \notin delims
             /\ U[b] = U[N] /\ Len(t) = lead + U[N] - 1
        /\ N > 0 /\ lead = 1 => Len(t) >= 1 /\ t[1] = << >>
    <3>1. N \in 0 .. N
        OBVIOUS
    <3> QED BY <1>9, <2>2, <2>3, <2>5, <3>1 DEF SplitInv
  <2>9. Len(t) \in Nat /\ U[N] \in Nat
    <3>1. N \in 0 .. N
        OBVIOUS
    <3> QED BY <2>3, <3>1, LenProperties
  <2>10. CASE N = 0
    <3>1. t = << >> /\ b = 1 /\ ~ Ended(delims, s, N)
        BY <2>8, <2>10 DEF Ended
    <3>2. s = << >> /\ lead = 1
        BY <1>1, <2>2, <2>10, EmptySeq DEF Lead
    <3>3. X = {}
        BY <2>3, <2>10
    <3>4. U[N] = 0
        BY <2>4, <3>3, FS_EmptySet
    <3>5. x = << >>
        BY <1>12, <2>10, <3>1
    <3>6. Len(t) = 0
        BY <3>1
    <3> QED BY <1>15, <3>1, <3>2, <3>3, <3>4, <3>5, <3>6
  <2>11. CASE N > 0 /\ Ended(delims, s, N)
    <3>1. u = t
        BY <1>13, <2>11
    <3> QED BY <2>7, <2>8, <2>11, <3>1
  <2>12. CASE N > 0 /\ ~ Ended(delims, s, N)
    <3>1. /\ b \in X /\ b <= N /\ \A m \in b .. N : s[m] \notin delims
          /\ U[b] = U[N] /\ Len(t) = lead + U[N] - 1
        BY <2>8, <2>12
    <3>2. x = P[b]
      <4>1. b \in 1 .. N /\ N \in b .. N
          BY <2>5, <3>1
      <4>2. P[b] = SubSeq(s, b, N)
          BY <2>3, <3>1, <4>1, Zenon
      <4> QED BY <1>12, <4>2
    <3>3. /\ Len(u) = Len(t) + 1 /\ u[Len(t) + 1] = x
          /\ \A k \in 1 .. Len(t) : u[k] = t[k]
        BY <1>15, <2>12
    <3>4. Len(u) = lead + U[N] /\ Len(t) + 1 = lead + U[N]
        BY <2>9, <3>1, <3>3
    <3>5. lead = 1 => u[1] = << >>
      <4>1. lead = 1 => 1 \in 1 .. Len(t) /\ t[1] = << >>
          BY <2>8, <2>9, <2>12
      <4> QED BY <3>3, <4>1
    <3>6. ASSUME NEW k \in X PROVE u[lead + U[k]] = P[k]
      <4>1. CASE k = b
        <5>1. u[lead + U[k]] = x
            BY <3>1, <3>3, <3>4, <4>1
        <5> QED BY <3>2, <4>1, <5>1
      <4>2. CASE k # b
        <5>1. lead + U[k] \in 1 .. Len(t) /\ t[lead + U[k]] = P[k]
            BY <2>7, <4>2
        <5> QED BY <3>3, <5>1
      <4> QED BY <4>1, <4>2
    <3> QED BY <3>4, <3>5, <3>6
  <2> QED BY <2>10, <2>11, <2>12
<1>17. u \in Seq(Seq(T)) /\ Len(u) = n
    BY <1>13, <1>15
<1> QED BY <1>10, <1>11, <1>16, <1>17, Zenon

-----------------------------------------------------------------------------
(***************************************************************************)
(* The fields of a REGISTER among its tokens.                              *)
(***************************************************************************)

Counted(b, c, d, e) ==
  /\ IsFiniteSet({1, b, c, d, e})
  /\ Cardinality({1}) = 1 /\ Cardinality({1, b}) = 2 /\ Cardinality({1, b, c}) = 3
  /\ Cardinality({1, b, c, d}) = 4 /\ Cardinality({1, b, c, d, e}) = 5

\* Five places in a row are five.
LEMMA FiveCount ==
  ASSUME NEW b \in Nat, NEW c \in Nat, NEW d \in Nat, NEW e \in Nat,
         1 < b, b < c, c < d, d < e
  PROVE  Counted(b, c, d, e)
<1>1. IsFiniteSet({1}) /\ Cardinality({1}) = 1
    BY FS_Singleton
<1>2. IsFiniteSet({1, b}) /\ Cardinality({1, b}) = 2
  <2>1. {1, b} = {1} \cup {b} /\ b \notin {1}
      OBVIOUS
  <2> QED BY <1>1, <2>1, FS_AddElement
<1>3. IsFiniteSet({1, b, c}) /\ Cardinality({1, b, c}) = 3
  <2>1. {1, b, c} = {1, b} \cup {c} /\ c \notin {1, b}
      OBVIOUS
  <2> QED BY <1>2, <2>1, FS_AddElement
<1>4. IsFiniteSet({1, b, c, d}) /\ Cardinality({1, b, c, d}) = 4
  <2>1. {1, b, c, d} = {1, b, c} \cup {d} /\ d \notin {1, b, c}
      OBVIOUS
  <2> QED BY <1>3, <2>1, FS_AddElement
<1>5. IsFiniteSet({1, b, c, d, e}) /\ Cardinality({1, b, c, d, e}) = 5
  <2>1. {1, b, c, d, e} = {1, b, c, d} \cup {e} /\ e \notin {1, b, c, d}
      OBVIOUS
  <2> QED BY <1>4, <2>1, FS_AddElement
<1> QED BY <1>1, <1>2, <1>3, <1>4, <1>5 DEF Counted

\* Two places are two, ...
LEMMA TwoCount ==
  ASSUME NEW b \in Nat, 1 < b
  PROVE  IsFiniteSet({1, b}) /\ Cardinality({1, b}) = 2
<1>1. IsFiniteSet({1}) /\ Cardinality({1}) = 1
    BY FS_Singleton
<1>2. {1, b} = {1} \cup {b} /\ b \notin {1}
    OBVIOUS
<1> QED BY <1>1, <1>2, FS_AddElement

\* ... and are not five.
LEMMA TwoAtMost ==
  ASSUME NEW b \in Nat, 1 < b, NEW X \in SUBSET {1, b}
  PROVE  Cardinality(X) # 5
<1>1. IsFiniteSet({1, b}) /\ Cardinality({1, b}) = 2
    BY TwoCount
<1>2. Cardinality(X) <= Cardinality({1, b})
    BY <1>1, FS_Subset
<1> QED BY <1>1, <1>2

TwoFields(D, s, N, b, c) ==
  /\ b > 2 /\ c > b + 1
  /\ \A p \in 1 .. N : p < c => (s[p] \in D <=> p = b - 1 \/ p = c - 1)

SecondToken(D, s, N, b, c) ==
  Len(Strsplit(D, s)) = 5 => c <= N /\ Strsplit(D, s)[2] = SubSeq(s, b, c - 2)

\* A string that begins with two fields, the first of them before b and the
\* second from b to a delimiter before c, has five tokens only if it goes on
\* after that delimiter, and then the second token is the second field, wherever
\* the string ends.
LEMMA RankToken ==
  ASSUME NEW D, NEW T, NEW s \in Seq(T), NEW N \in Nat, N = Len(s),
         NEW b \in Nat, NEW c \in Nat, TwoFields(D, s, N, b, c)
  PROVE  SecondToken(D, s, N, b, c)
<1> SUFFICES ASSUME Len(Strsplit(D, s)) = 5
             PROVE  c <= N /\ Strsplit(D, s)[2] = SubSeq(s, b, c - 2)
    BY DEF SecondToken
<1>0. /\ b > 2 /\ c > b + 1
      /\ \A p \in 1 .. N : p < c => (s[p] \in D <=> p = b - 1 \/ p = c - 1)
    BY DEF TwoFields
<1> USE <1>0
<1>1. PICK X, U, P : ArePieces(D, s, N, X, U, P)
    BY PiecesExist
<1>2. /\ X = Starts(D, s) /\ X \subseteq 1 .. N
      /\ \A j \in 1 .. N : j \in X <=> s[j] \notin D /\ (j = 1 \/ s[j - 1] \in D)
      /\ \A j \in 1 .. N : P[j] = Piece(D, s, j)
      /\ \A j \in 1 .. N : \A e \in j .. N :
           (\A m \in j .. e : s[m] \notin D) /\ (e = N \/ s[e + 1] \in D)
             => P[j] = SubSeq(s, j, e)
    BY <1>1, Zenon DEF ArePieces
<1>3. /\ Lead(D, s) + Cardinality(X) = 5
      /\ \A k \in X : Strsplit(D, s)[Lead(D, s) + UpTo(D, s, k)] = Piece(D, s, k)
  <2>1. /\ Len(Strsplit(D, s)) = Lead(D, s) + Cardinality(Starts(D, s))
        /\ \A k \in Starts(D, s) :
             Strsplit(D, s)[Lead(D, s) + UpTo(D, s, k)] = Piece(D, s, k)
      BY StrsplitRight
  <2> QED BY <1>2, <2>1
<1>4. N >= 1
  <2> SUFFICES ASSUME N = 0 PROVE FALSE
      OBVIOUS
  <2>1. X = {}
      BY <1>2
  <2>2. Cardinality(X) = 0
      BY <2>1, FS_EmptySet
  <2> QED BY <1>3, <2>2 DEF Lead
<1>5. Lead(D, s) = 0
  <2>1. s # << >> /\ s[1] \notin D
      BY <1>4, EmptySeq
  <2> QED BY <2>1 DEF Lead
<1>6. c <= N
  <2> SUFFICES ASSUME N < c PROVE FALSE
      OBVIOUS
  <2>1. ASSUME NEW j \in X PROVE j = 1 \/ j = b
    <3>1. j \in 1 .. N /\ (j = 1 \/ s[j - 1] \in D)
        BY <1>2
    <3>2. CASE j # 1
      <4>1. PICK m \in 1 .. N : m = j - 1
          BY <3>1, <3>2
      <4>2. s[m] \in D /\ m < c
          BY <3>1, <3>2, <4>1
      <4>3. m = b - 1 \/ m = c - 1
          BY <4>2
      <4> QED BY <3>1, <4>1, <4>3
    <3> QED BY <3>2
  <2>2. X \in SUBSET {1, b}
      BY <2>1
  <2>3. 1 < b
      OBVIOUS
  <2>4. Cardinality(X) # 5
      BY <2>2, <2>3, TwoAtMost, Zenon
  <2>5. Cardinality(X) \in Nat
    <3>1. IsFiniteSet({1, b})
        BY <2>3, TwoCount, Zenon
    <3> QED BY <2>2, <3>1, FS_Subset, FS_CardinalityType
  <2> QED BY <1>3, <1>5, <2>4, <2>5
<1>7. b \in X /\ 1 \in X
  <2>1. b \in 1 .. N /\ b < c /\ b # b - 1 /\ b # c - 1 /\ b - 1 \in 1 .. N /\ b - 1 < c
      BY <1>6
  <2>2. 1 \in 1 .. N /\ 1 < c /\ 1 # b - 1 /\ 1 # c - 1
      BY <1>4
  <2> QED BY <1>2, <2>1, <2>2
<1>8. UpTo(D, s, b) = 2
  <2>1. ASSUME NEW j \in X, j <= b PROVE j = 1 \/ j = b
    <3>1. j \in 1 .. N /\ (j = 1 \/ s[j - 1] \in D)
        BY <1>2
    <3>2. CASE j # 1
      <4>1. PICK m \in 1 .. N : m = j - 1
          BY <3>1, <3>2
      <4>2. s[m] \in D /\ m < c
          BY <2>1, <3>1, <3>2, <4>1
      <4>3. m = b - 1 \/ m = c - 1
          BY <4>2
      <4> QED BY <2>1, <3>1, <4>1, <4>3
    <3> QED BY <3>2
  <2>2. {j \in X : j <= b} = {1, b}
    <3>1. b <= b /\ 1 <= b
        OBVIOUS
    <3> QED BY <1>7, <2>1, <3>1, Zenon
  <2>3. Cardinality({1, b}) = 2
    <3>1. 1 < b
        OBVIOUS
    <3> QED BY <3>1, TwoCount, Zenon
  <2> QED BY <1>2, <2>2, <2>3 DEF UpTo
<1>9. P[b] = SubSeq(s, b, c - 2)
  <2>1. PICK e \in b .. N : e = c - 2
      BY <1>6
  <2>2. \A m \in b .. e : s[m] \notin D
      BY <1>6, <2>1
  <2>3. s[e + 1] \in D
    <3>1. e + 1 = c - 1 /\ e + 1 \in 1 .. N /\ e + 1 < c
        BY <1>6, <2>1
    <3> QED BY <3>1
  <2>4. b \in 1 .. N
      BY <1>2, <1>7
  <2>5. P[b] = SubSeq(s, b, e)
      BY <1>2, <2>2, <2>3, <2>4, Zenon
  <2> QED BY <2>1, <2>5
<1>10. Strsplit(D, s)[2] = P[b]
  <2>1. b \in 1 .. N
      BY <1>2, <1>7
  <2>2. Strsplit(D, s)[0 + 2] = Piece(D, s, b)
      BY <1>3, <1>5, <1>7, <1>8
  <2> QED BY <1>2, <2>1, <2>2
<1> QED BY <1>6, <1>9, <1>10

FieldsAt(D, s, N, b, c, d, e) ==
  /\ b > 2 /\ c > b + 1 /\ d > c + 1 /\ e > d + 1 /\ e <= N
  /\ \A p \in 1 .. N : ~ (c < p /\ p < d - 1) =>
       (s[p] \in D <=> p = b - 1 \/ p = c - 1 \/ p = d - 1 \/ p = e - 1)

TokensAt(t, D, s, N, b, c, d, e) ==
  /\ Len(t) = 5 /\ t[1] = SubSeq(s, 1, b - 2) /\ t[2] = SubSeq(s, b, c - 2)
  /\ \E q \in c .. d - 2 : t[3] = SubSeq(s, c, q) /\ \A p \in q + 1 .. d - 2 : s[p] \in D
  /\ t[4] = SubSeq(s, d, e - 2) /\ t[5] = SubSeq(s, e, N)

\* The tokens of a string of five fields, which begin at 1, b, c, d and e, where
\* only the third may hold delimiters, but not at its beginning: if they are
\* five (as they are if the third field holds none), they are the fields, but
\* for delimiters at the end of the third.
LEMMA FieldTokens ==
  ASSUME NEW D, NEW T, NEW s \in Seq(T), NEW N \in Nat, N = Len(s),
         NEW b \in Nat, NEW c \in Nat, NEW d \in Nat, NEW e \in Nat,
         FieldsAt(D, s, N, b, c, d, e),
         Len(Strsplit(D, s)) = 5 \/ \A p \in c .. d - 2 : s[p] \notin D
  PROVE  TokensAt(Strsplit(D, s), D, s, N, b, c, d, e)
<1>0. /\ b > 2 /\ c > b + 1 /\ d > c + 1 /\ e > d + 1 /\ e <= N
      /\ \A p \in 1 .. N : ~ (c < p /\ p < d - 1) =>
           (s[p] \in D <=> p = b - 1 \/ p = c - 1 \/ p = d - 1 \/ p = e - 1)
    BY DEF FieldsAt
<1> USE <1>0
<1>1. PICK X, U, P : ArePieces(D, s, N, X, U, P)
    BY PiecesExist
<1>2. /\ X = Starts(D, s) /\ X \subseteq 1 .. N
      /\ \A j \in 1 .. N : j \in X <=> s[j] \notin D /\ (j = 1 \/ s[j - 1] \in D)
      /\ \A j \in 1 .. N : P[j] = Piece(D, s, j)
      /\ \A j \in 1 .. N : \A q \in j .. N :
           (\A m \in j .. q : s[m] \notin D) /\ (q = N \/ s[q + 1] \in D)
             => P[j] = SubSeq(s, j, q)
    BY <1>1, Zenon DEF ArePieces
<1>3. PICK t : t = Strsplit(D, s)
    OBVIOUS
<1>4. Lead(D, s) = 0
  <2>1. N >= 1 /\ 1 # b - 1 /\ 1 # c - 1 /\ 1 # d - 1 /\ 1 # e - 1
      OBVIOUS
  <2>2. s # << >> /\ s[1] \notin D
      BY <2>1, EmptySeq
  <2> QED BY <2>2 DEF Lead
<1>5. /\ Len(t) = Cardinality(X)
      /\ \A k \in X : t[UpTo(D, s, k)] = P[k]
  <2>1. /\ Len(Strsplit(D, s)) = Lead(D, s) + Cardinality(Starts(D, s))
        /\ \A k \in Starts(D, s) :
             Strsplit(D, s)[Lead(D, s) + UpTo(D, s, k)] = Piece(D, s, k)
      BY StrsplitRight
  <2>2. Cardinality(X) \in Nat
    <3>1. IsFiniteSet(1 .. N)
        BY FS_Interval
    <3>2. X \in SUBSET (1 .. N)
        BY <1>2
    <3>3. IsFiniteSet(X)
        BY <3>1, <3>2, FS_Subset
    <3> QED BY <3>3, FS_CardinalityType
  <2>3. \A k \in X : UpTo(D, s, k) \in Nat /\ k \in 1 .. N
    <3>1. \A k \in 0 .. N : UpTo(D, s, k) \in Nat
        BY UpToCounts
    <3> QED BY <1>2, <3>1
  <2>4. Len(t) = Cardinality(X)
      BY <1>2, <1>3, <1>4, <2>1, <2>2
  <2>5. ASSUME NEW k \in X PROVE t[UpTo(D, s, k)] = P[k]
    <3>1. PICK n \in Nat : n = UpTo(D, s, k)
        BY <2>3
    <3>2. t[0 + n] = Piece(D, s, k)
        BY <1>2, <1>3, <1>4, <2>1, <3>1
    <3> QED BY <1>2, <2>3, <3>1, <3>2
  <2> QED BY <2>4, <2>5
<1>6. 1 < b /\ b < c /\ c < d /\ d < e
    OBVIOUS
<1> DEFINE Five == {1, b, c, d, e}
<1>7. /\ IsFiniteSet(Five)
      /\ Cardinality({1}) = 1 /\ Cardinality({1, b}) = 2 /\ Cardinality({1, b, c}) = 3
      /\ Cardinality({1, b, c, d}) = 4 /\ Cardinality(Five) = 5
  <2>1. Counted(b, c, d, e)
      BY <1>6, FiveCount, Zenon
  <2> QED BY <2>1 DEF Counted
<1>8. ASSUME NEW j \in Five PROVE j \in X
  <2>1. j \in 1 .. N
      BY <1>6
  <2>2. s[j] \notin D
      BY <2>1
  <2>3. CASE j # 1
    <3>1. PICK m \in 1 .. N : m = j - 1
        BY <2>1, <2>3
    <3>2. ~ (c < m /\ m < d - 1) /\ (m = b - 1 \/ m = c - 1 \/ m = d - 1 \/ m = e - 1)
        BY <2>3, <3>1
    <3>3. s[j - 1] \in D
        BY <3>1, <3>2
    <3> QED BY <1>2, <2>1, <2>2, <3>3
  <2> QED BY <1>2, <2>1, <2>2, <2>3
<1>9. X = Five
  <2>1. CASE Len(Strsplit(D, s)) = 5
    <3>1. IsFiniteSet(1 .. N)
        BY FS_Interval
    <3>2. X \in SUBSET (1 .. N)
        BY <1>2
    <3>3. IsFiniteSet(X)
        BY <3>1, <3>2, FS_Subset
    <3>4. Cardinality(X) = 5
        BY <1>3, <1>5, <2>1
    <3>5. Five \in SUBSET X
        BY <1>8
    <3>6. Cardinality(Five) = 5
        BY <1>7
    <3> HIDE DEF Five
    <3> QED BY <3>3, <3>4, <3>5, <3>6, FS_Subset
  <2>2. CASE \A p \in c .. d - 2 : s[p] \notin D
    <3>1. ASSUME NEW j \in X PROVE j \in Five
      <4>1. j \in 1 .. N /\ (j = 1 \/ s[j - 1] \in D)
          BY <1>2
      <4>2. CASE j # 1
        <5>1. PICK m \in 1 .. N : m = j - 1
            BY <4>1, <4>2
        <5>2. s[m] \in D
            BY <4>1, <4>2, <5>1
        <5>3. ~ (c < m /\ m < d - 1)
            BY <2>2, <5>2
        <5>4. m = b - 1 \/ m = c - 1 \/ m = d - 1 \/ m = e - 1
            BY <5>2, <5>3
        <5> QED BY <4>1, <5>1, <5>4
      <4> QED BY <4>2
    <3> QED BY <1>8, <3>1
  <2> QED BY <2>1, <2>2
<1>10. /\ UpTo(D, s, 1) = 1 /\ UpTo(D, s, b) = 2 /\ UpTo(D, s, c) = 3
       /\ UpTo(D, s, d) = 4 /\ UpTo(D, s, e) = 5
  <2>1. \A k : UpTo(D, s, k) = Cardinality({j \in Five : j <= k})
      BY <1>2, <1>9 DEF UpTo
  <2>2. /\ {j \in Five : j <= 1} = {1} /\ {j \in Five : j <= b} = {1, b}
        /\ {j \in Five : j <= c} = {1, b, c}
      BY <1>6
  <2>3. {j \in Five : j <= d} = {1, b, c, d} /\ {j \in Five : j <= e} = Five
      BY <1>6
  <2> HIDE DEF Five
  <2> QED BY <1>7, <2>1, <2>2, <2>3
<1>11. \A j \in 1 .. N : \A q \in j .. N :
         (\A m \in j .. q : s[m] \notin D) /\ (q = N \/ s[q + 1] \in D)
           => P[j] = SubSeq(s, j, q)
    BY <1>2
<1>12. t[1] = SubSeq(s, 1, b - 2)
  <2>1. PICK q \in 1 .. N : q = b - 2
      OBVIOUS
  <2>2. (\A m \in 1 .. q : s[m] \notin D) /\ s[q + 1] \in D /\ 1 \in 1 .. N
    <3>1. \A m \in 1 .. q : m \in 1 .. N /\ m < b - 1
        BY <2>1
    <3>2. q + 1 \in 1 .. N /\ q + 1 = b - 1
        BY <2>1
    <3> QED BY <3>1, <3>2
  <2>3. P[1] = SubSeq(s, 1, q)
      BY <1>11, <2>2, Zenon
  <2> QED BY <1>5, <1>9, <1>10, <2>1, <2>3
<1>13. t[2] = SubSeq(s, b, c - 2)
  <2>1. PICK q \in b .. N : q = c - 2
      OBVIOUS
  <2>2. (\A m \in b .. q : s[m] \notin D) /\ s[q + 1] \in D /\ b \in 1 .. N
    <3>1. \A m \in b .. q : m \in 1 .. N /\ m < c - 1 /\ m > b - 1
        BY <2>1
    <3>2. q + 1 \in 1 .. N /\ q + 1 = c - 1
        BY <2>1
    <3> QED BY <3>1, <3>2
  <2>3. P[b] = SubSeq(s, b, q)
      BY <1>11, <2>2, Zenon
  <2> QED BY <1>5, <1>9, <1>10, <2>1, <2>3
<1>14. t[4] = SubSeq(s, d, e - 2)
  <2>1. PICK q \in d .. N : q = e - 2
      OBVIOUS
  <2>2. (\A m \in d .. q : s[m] \notin D) /\ s[q + 1] \in D /\ d \in 1 .. N
    <3>1. \A m \in d .. q : m \in 1 .. N /\ m < e - 1 /\ m > d - 1
        BY <2>1
    <3>2. q + 1 \in 1 .. N /\ q + 1 = e - 1
        BY <2>1
    <3> QED BY <3>1, <3>2
  <2>3. P[d] = SubSeq(s, d, q)
      BY <1>11, <2>2, Zenon
  <2> QED BY <1>5, <1>9, <1>10, <2>1, <2>3
<1>15. t[5] = SubSeq(s, e, N)
  <2>1. (\A m \in e .. N : s[m] \notin D) /\ N \in e .. N /\ e \in 1 .. N
    <3>1. \A m \in e .. N : m \in 1 .. N /\ m > e - 1
        OBVIOUS
    <3> QED BY <3>1
  <2>2. P[e] = SubSeq(s, e, N)
      BY <1>11, <2>1, Zenon
  <2> QED BY <1>5, <1>9, <1>10, <2>2
\* The third begins at c and ends before the first delimiter after that; if a
\* character of the field after it was no delimiter, the first such one would
\* begin another.
<1>16. \E q \in c .. d - 2 : t[3] = SubSeq(s, c, q) /\ \A p \in q + 1 .. d - 2 : s[p] \in D
  <2> DEFINE Ends == {q \in c .. d - 2 : s[q + 1] \in D}
  <2>1. d - 2 \in Ends
    <3>1. d - 2 \in c .. d - 2 /\ (d - 2) + 1 = d - 1 /\ d - 1 \in 1 .. N
        OBVIOUS
    <3> QED BY <3>1
  <2>2. PICK q \in Ends : \A y \in Ends : q <= y
    <3>1. PICK n \in Nat : n = d - 2
        OBVIOUS
    <3>2. Ends \in SUBSET (1 .. n)
        BY <3>1
    <3> HIDE DEF Ends
    <3>3. Ends # {}
        BY <2>1
    <3>4. Min(Ends) \in Ends /\ \A y \in Ends : Min(Ends) <= y
        BY <3>2, <3>3, MinOfSet
    <3> QED BY <3>4, Zenon
  <2>3. q \in c .. d - 2 /\ s[q + 1] \in D
      BY <2>2
  <2>4. \A m \in c .. q : s[m] \notin D
    <3> SUFFICES ASSUME NEW m \in c .. q, s[m] \in D PROVE FALSE
        OBVIOUS
    <3>1. m # c
      <4>1. c \in X
          BY <1>9
      <4> QED BY <1>2, <4>1
    <3>2. PICK y \in c .. d - 2 : y = m - 1
        BY <2>3, <3>1
    <3>3. y \in Ends
        BY <3>2
    <3>4. q <= y
        BY <2>2, <3>3
    <3> QED BY <2>3, <3>2, <3>4
  <2>5. t[3] = SubSeq(s, c, q)
    <3>1. c \in 1 .. N /\ q \in c .. N
        BY <2>3
    <3>2. P[c] = SubSeq(s, c, q)
        BY <1>11, <2>3, <2>4, <3>1, Zenon
    <3> QED BY <1>5, <1>9, <1>10, <3>2
  <2>6. \A p \in q + 1 .. d - 2 : s[p] \in D
    <3> DEFINE K == {n \in 0 .. d - 3 - q : s[q + 1 + n] \in D}
    <3>1. CASE q = d - 2
        BY <3>1
    <3>2. CASE q # d - 2
      <4>1. PICK M \in Nat : M = d - 3 - q
          BY <2>3, <3>2
      <4>2. 0 \in K
          BY <2>3, <4>1
      <4>3. \A n \in 0 .. M - 1 : n \in K => n + 1 \in K
        <5> SUFFICES ASSUME NEW n \in 0 .. M - 1, n \in K, s[q + 1 + (n + 1)] \notin D
                     PROVE  FALSE
            BY <4>1
        <5>1. PICK j \in c + 2 .. d - 2 : j = q + 1 + (n + 1)
            BY <2>3, <4>1
        <5>2. j \in 1 .. N /\ j - 1 = q + 1 + n
            BY <5>1
        <5>3. s[j] \notin D /\ s[j - 1] \in D
            BY <5>1, <5>2
        <5>4. j \in X
            BY <1>2, <5>2, <5>3
        <5> QED BY <1>6, <1>9, <5>1, <5>4
      <4> HIDE DEF K
      <4>4. \A n \in 0 .. M : n \in K
          BY <4>2, <4>3, BoundedInduction
      <4>5. ASSUME NEW p \in q + 1 .. d - 2 PROVE s[p] \in D
        <5>1. PICK n \in 0 .. M : n = p - q - 1
            BY <2>3, <4>1
        <5>2. n \in K
            BY <4>4
        <5>3. q + 1 + n = p
            BY <2>3, <5>1
        <5> QED BY <5>2, <5>3 DEF K
      <4> QED BY <4>5
    <3> QED BY <3>1, <3>2
  <2> QED BY <2>3, <2>5, <2>6
<1>17. Len(t) = 5
    BY <1>5, <1>7, <1>9
<1> QED BY <1>3, <1>12, <1>13, <1>14, <1>15, <1>16, <1>17, Zenon DEF TokensAt

IsConcat(S, u, s, t) ==
  /\ u \in Seq(S) /\ Len(u) = Len(s) + Len(t)
  /\ \A p \in 1 .. Len(s) + Len(t) : u[p] = IF p <= Len(s) THEN s[p] ELSE t[p - Len(s)]

\* The same of two sequences.
LEMMA ConcatIs ==
  ASSUME NEW S, NEW s \in Seq(S), NEW t \in Seq(S), NEW u, u = s \o t
  PROVE  IsConcat(S, u, s, t)
BY Concatenated DEF IsConcat

\* v is w, the character x and, from place o, f.
Grown(w, x, f, v, o) ==
  /\ o = Len(w) + 2 /\ Len(v) = o + Len(f) - 1
  /\ \A p \in 1 .. o - 2 : v[p] = w[p]
  /\ v[o - 1] = x
  /\ \A p \in o .. Len(v) : v[p] = f[p - o + 1]

\* What a character and a field add to a text.
LEMMA TextGrows ==
  ASSUME NEW S, NEW w \in Seq(S), NEW x \in S, NEW f \in Seq(S), NEW v, v = w \o <<x>> \o f
  PROVE  v \in Seq(S) /\ \E o \in Nat : Grown(w, x, f, v, o)
<1>1. PICK y : y = <<x>>
    OBVIOUS
<1>2. y \in Seq(S) /\ Len(y) = 1 /\ y[1] = x
    BY <1>1
<1>3. PICK u : u = w \o y
    OBVIOUS
<1>4. /\ u \in Seq(S) /\ Len(u) = Len(w) + Len(y)
      /\ \A p \in 1 .. Len(w) + Len(y) : u[p] = IF p <= Len(w) THEN w[p] ELSE y[p - Len(w)]
  <2>1. w \in Seq(S) /\ y \in Seq(S)
      BY <1>2
  <2> QED BY <1>3, <2>1, Concatenated
<1>5. /\ v \in Seq(S) /\ Len(v) = Len(u) + Len(f)
      /\ \A p \in 1 .. Len(u) + Len(f) : v[p] = IF p <= Len(u) THEN u[p] ELSE f[p - Len(u)]
  <2>1. u \in Seq(S) /\ f \in Seq(S)
      BY <1>4
  <2>2. v = u \o f
      BY <1>1, <1>3
  <2>3. IsConcat(S, v, u, f)
      BY <2>1, <2>2, ConcatIs, Zenon
  <2> QED BY <2>3, Zenon DEF IsConcat
<1>6. Len(w) \in Nat /\ Len(f) \in Nat
    BY LenProperties
<1>7. PICK o \in Nat : o = Len(w) + 2
    BY <1>6
<1>8. Len(u) = o - 1 /\ Len(v) = o + Len(f) - 1
    BY <1>2, <1>4, <1>5, <1>6, <1>7
<1>9. ASSUME NEW p \in 1 .. o - 2 PROVE v[p] = w[p]
  <2>1. v[p] = u[p]
      BY <1>5, <1>6, <1>8
  <2>2. u[p] = w[p]
      BY <1>2, <1>4, <1>6, <1>7
  <2> QED BY <2>1, <2>2
<1>10. v[o - 1] = x
  <2>1. v[o - 1] = u[o - 1]
      BY <1>5, <1>6, <1>7, <1>8
  <2>2. u[o - 1] = y[1]
      BY <1>2, <1>4, <1>6, <1>7
  <2> QED BY <1>2, <2>1, <2>2
<1>11. ASSUME NEW p \in o .. Len(v) PROVE v[p] = f[p - o + 1]
  <2>1. v[p] = f[p - Len(u)]
      BY <1>5, <1>6, <1>8
  <2>2. p - Len(u) = p - o + 1
      BY <1>6, <1>8
  <2> QED BY <2>1, <2>2
<1> QED BY <1>5, <1>7, <1>8, <1>9, <1>10, <1>11 DEF Grown

\* v holds five fields, which begin at 1, b, c, d and e, with x between them.
FiveFields(v, x, f1, f2, f3, f4, f5, b, c, d, e) ==
  /\ b = Len(f1) + 2 /\ c = b + Len(f2) + 1 /\ d = c + Len(f3) + 1 /\ e = d + Len(f4) + 1
  /\ Len(v) = e + Len(f5) - 1
  /\ v[b - 1] = x /\ v[c - 1] = x /\ v[d - 1] = x /\ v[e - 1] = x
  /\ \A p \in 1 .. b - 2 : v[p] = f1[p]
  /\ \A p \in b .. c - 2 : v[p] = f2[p - b + 1]
  /\ \A p \in c .. d - 2 : v[p] = f3[p - c + 1]
  /\ \A p \in d .. e - 2 : v[p] = f4[p - d + 1]
  /\ \A p \in e .. Len(v) : v[p] = f5[p - e + 1]

Placed(b, c, d, e) ==
  /\ b - 1 \in 1 .. c - 2 /\ c - 1 \in 1 .. d - 2 /\ d - 1 \in 1 .. e - 2
  /\ \A p \in 1 .. b - 2 : p \in 1 .. c - 2
  /\ \A p \in b .. c - 2 : p \in 1 .. c - 2
  /\ \A p \in 1 .. c - 2 : p \in 1 .. d - 2
  /\ \A p \in c .. d - 2 : p \in 1 .. d - 2
  /\ \A p \in 1 .. d - 2 : p \in 1 .. e - 2
  /\ \A p \in d .. e - 2 : p \in 1 .. e - 2

\* Their places.
LEMMA FieldPlaces ==
  ASSUME NEW n1 \in Nat, NEW n2 \in Nat, NEW n3 \in Nat, NEW n4 \in Nat,
         NEW b, NEW c, NEW d, NEW e,
         b = n1 + 2, c = b + n2 + 1, d = c + n3 + 1, e = d + n4 + 1
  PROVE  Placed(b, c, d, e)
BY DEF Placed

\* A text of five fields.
LEMMA FiveFieldsExist ==
  ASSUME NEW S, NEW x \in S, NEW f1 \in Seq(S), NEW f2 \in Seq(S), NEW f3 \in Seq(S),
         NEW f4 \in Seq(S), NEW f5 \in Seq(S),
         NEW v, v = f1 \o <<x>> \o f2 \o <<x>> \o f3 \o <<x>> \o f4 \o <<x>> \o f5
  PROVE  /\ v \in Seq(S)
         /\ \E b, c, d, e \in Nat : FiveFields(v, x, f1, f2, f3, f4, f5, b, c, d, e)
<1>1. PICK w2 : w2 = f1 \o <<x>> \o f2
    OBVIOUS
<1>2. PICK w3 : w3 = w2 \o <<x>> \o f3
    OBVIOUS
<1>3. PICK w4 : w4 = w3 \o <<x>> \o f4
    OBVIOUS
<1>4. v = w4 \o <<x>> \o f5
    BY <1>1, <1>2, <1>3, Zenon
<1>5. w2 \in Seq(S) /\ \E o \in Nat : Grown(f1, x, f2, w2, o)
    BY <1>1, TextGrows, Zenon
<1>6. w3 \in Seq(S) /\ \E o \in Nat : Grown(w2, x, f3, w3, o)
    BY <1>2, <1>5, TextGrows, Zenon
<1>7. w4 \in Seq(S) /\ \E o \in Nat : Grown(w3, x, f4, w4, o)
    BY <1>3, <1>6, TextGrows, Zenon
<1>8. v \in Seq(S) /\ \E o \in Nat : Grown(w4, x, f5, v, o)
    BY <1>4, <1>7, TextGrows, Zenon
<1>9. PICK b \in Nat : Grown(f1, x, f2, w2, b)
    BY <1>5
<1>10. PICK c \in Nat : Grown(w2, x, f3, w3, c)
    BY <1>6
<1>11. PICK d \in Nat : Grown(w3, x, f4, w4, d)
    BY <1>7
<1>12. PICK e \in Nat : Grown(w4, x, f5, v, e)
    BY <1>8
<1>13. /\ Len(f1) \in Nat /\ Len(f2) \in Nat /\ Len(f3) \in Nat /\ Len(f4) \in Nat
       /\ Len(f5) \in Nat
    BY LenProperties
<1>14. /\ b = Len(f1) + 2 /\ c = b + Len(f2) + 1 /\ d = c + Len(f3) + 1
       /\ e = d + Len(f4) + 1 /\ Len(v) = e + Len(f5) - 1
       /\ Len(w2) = c - 2 /\ Len(w3) = d - 2 /\ Len(w4) = e - 2
    BY <1>9, <1>10, <1>11, <1>12, <1>13 DEF Grown
<1>15. /\ b - 1 \in 1 .. c - 2 /\ c - 1 \in 1 .. d - 2 /\ d - 1 \in 1 .. e - 2
       /\ \A p \in 1 .. b - 2 : p \in 1 .. c - 2
       /\ \A p \in b .. c - 2 : p \in 1 .. c - 2
       /\ \A p \in 1 .. c - 2 : p \in 1 .. d - 2
       /\ \A p \in c .. d - 2 : p \in 1 .. d - 2
       /\ \A p \in 1 .. d - 2 : p \in 1 .. e - 2
       /\ \A p \in d .. e - 2 : p \in 1 .. e - 2
  <2>1. Placed(b, c, d, e)
      BY <1>13, <1>14, FieldPlaces, Zenon
  <2> QED BY <2>1, Zenon DEF Placed
<1>16. \A p \in 1 .. e - 2 : v[p] = w4[p]
    BY <1>12 DEF Grown
<1>17. \A p \in 1 .. d - 2 : v[p] = w3[p]
  <2>1. \A p \in 1 .. d - 2 : w4[p] = w3[p] /\ p \in 1 .. e - 2
      BY <1>11, <1>15 DEF Grown
  <2> QED BY <1>16, <2>1
<1>18. \A p \in 1 .. c - 2 : v[p] = w2[p]
  <2>1. \A p \in 1 .. c - 2 : w3[p] = w2[p] /\ p \in 1 .. d - 2
      BY <1>10, <1>15 DEF Grown
  <2> QED BY <1>17, <2>1
<1>19. v[b - 1] = x /\ \A p \in b .. c - 2 : v[p] = f2[p - b + 1]
  <2>1. w2[b - 1] = x /\ \A p \in b .. c - 2 : w2[p] = f2[p - b + 1]
      BY <1>9, <1>14 DEF Grown
  <2> QED BY <1>18, <1>15, <2>1
<1>20. \A p \in 1 .. b - 2 : v[p] = f1[p]
  <2>1. \A p \in 1 .. b - 2 : w2[p] = f1[p] /\ p \in 1 .. c - 2
      BY <1>9, <1>15 DEF Grown
  <2> QED BY <1>18, <2>1
<1>21. v[c - 1] = x /\ \A p \in c .. d - 2 : v[p] = f3[p - c + 1]
  <2>1. w3[c - 1] = x /\ \A p \in c .. d - 2 : w3[p] = f3[p - c + 1]
      BY <1>10, <1>14 DEF Grown
  <2> QED BY <1>17, <1>15, <2>1
<1>22. v[d - 1] = x /\ \A p \in d .. e - 2 : v[p] = f4[p - d + 1]
  <2>1. w4[d - 1] = x /\ \A p \in d .. e - 2 : w4[p] = f4[p - d + 1]
      BY <1>11, <1>14 DEF Grown
  <2> QED BY <1>16, <1>15, <2>1
<1>23. v[e - 1] = x /\ \A p \in e .. Len(v) : v[p] = f5[p - e + 1]
    BY <1>12 DEF Grown
<1>24. FiveFields(v, x, f1, f2, f3, f4, f5, b, c, d, e)
    BY <1>14, <1>19, <1>20, <1>21, <1>22, <1>23, Zenon DEF FiveFields
<1> QED BY <1>8, <1>24, Zenon

-----------------------------------------------------------------------------
(***************************************************************************)
(* The REGISTER: what holds of every state, and what follows from it.      *)
(***************************************************************************)

\* What has been sent is the text of the slave's rank, cpus and user, as far
\* as it fits, and the slave's directory is absolute.
Sent ==
  /\ reg.rank \in Nat /\ reg.cpus \in Nat /\ reg.user \in Users
  /\ path # << >> /\ path[1] = "/"
  /\ msg = Format(RegisterText(reg.rank, reg.cpus, reg.user))

Received == args = Strsplit(Delims \cup extra, msg)

Entered ==
  /\ Acceptable
  /\ entry = [rank |-> Arg(2, 0).value, iwd |-> Clean(args[3]),
              cpus |-> Arg(4, 1).value, user |-> Clean(args[5])]

WireInv ==
  /\ path \in Seq(Chars) /\ Len(path) <= MaxLen
  /\ stage \in {"path", "sent", "received", "entered", "rejected"}
  /\ extra \subseteq Stray
  /\ stage = "path" => msg = << >>
  /\ stage # "path" => Sent
  /\ stage \in {"received", "entered", "rejected"} => Received
  /\ stage = "entered" => Entered
  /\ stage = "rejected" => ~ Acceptable

\* It is inductive.
LEMMA WireInvHolds == WireSpec => []WireInv
<1>1. WireInit => WireInv
  <2>1. << >> \in Seq(Chars) /\ Len(<< >>) = 0
      BY EmptySeq
  <2>2. 0 <= MaxLen
      BY WireAssumption
  <2> QED BY <2>1, <2>2 DEF WireInit, WireInv
<1>2. WireInv /\ [WireNext]_wireVars => WireInv'
  <2> SUFFICES ASSUME WireInv, [WireNext]_wireVars PROVE WireInv'
      OBVIOUS
  <2>1. ASSUME NEW c \in Chars, Extend(c) PROVE WireInv'
    <3>1. path' \in Seq(Chars) /\ Len(path') <= MaxLen
      <4>1. Len(path) \in Nat /\ MaxLen \in Nat
          BY WireAssumption, LenProperties DEF WireInv
      <4>2. path' \in Seq(Chars) /\ Len(path') = Len(path) + 1
          BY <2>1, AppendProperties DEF WireInv, Extend
      <4> QED BY <2>1, <4>1, <4>2 DEF Extend
    <3> QED BY <2>1, <3>1 DEF WireInv, Extend
  <2>2. ASSUME NEW r \in Ranks, NEW n \in Cpus, NEW u \in Users, RegisterCmd(r, n, u)
        PROVE  WireInv'
    <3>1. r \in Nat /\ n \in Int
        BY WireAssumption
    <3>2. PICK k \in Nat : k = IF n <= 0 THEN 1 ELSE n
        BY <3>1
    <3>3. reg' = [rank |-> r, cpus |-> k, user |-> u]
        BY <2>2, <3>2 DEF RegisterCmd
    <3>4. reg'.rank = r /\ reg'.cpus = k /\ reg'.user = u
        BY <3>3
    <3>5. path' = path /\ stage' = "sent" /\ extra' = extra
        BY <2>2 DEF RegisterCmd
    <3>6. msg' = Format(RegisterText(r, k, u))
        BY <2>2, <3>4, Zenon DEF RegisterCmd
    <3>7. (Format(RegisterText(reg.rank, reg.cpus, reg.user)))' = Format(RegisterText(r, k, u))
        BY <3>4, <3>5, Zenon DEF Format, RegisterText
    <3>8. path # << >> /\ path[1] = "/"
      <4>1. Len(path) > 0 /\ path[1] = "/"
          BY <2>2 DEF RegisterCmd
      <4> QED BY <4>1, EmptySeq
    <3>9. Sent'
        BY <3>1, <3>4, <3>5, <3>6, <3>7, <3>8 DEF Sent
    <3> QED BY <3>5, <3>9 DEF WireInv
  <2>3. ASSUME NEW more \in SUBSET Stray, ReceiveRegister(more) PROVE WireInv'
    <3>1. /\ path' = path /\ reg' = reg /\ msg' = msg /\ stage = "sent" /\ stage' = "received"
          /\ extra' = more /\ args' = Strsplit(Delims \cup more, msg)
        BY <2>3 DEF ReceiveRegister
    <3>2. Sent'
      <4>1. Sent
          BY <3>1 DEF WireInv
      <4> QED BY <3>1, <4>1, Zenon DEF Sent, Format, RegisterText
    <3>3. Received'
        BY <3>1, Zenon DEF Received
    <3> QED BY <3>1, <3>2, <3>3 DEF WireInv
  <2>4. ASSUME EnterRegister PROVE WireInv'
    <3>1. /\ path' = path /\ reg' = reg /\ msg' = msg /\ extra' = extra /\ args' = args
          /\ stage = "received"
        BY <2>4 DEF EnterRegister
    <3>2. Sent' /\ Received'
      <4>1. Sent /\ Received
          BY <3>1 DEF WireInv
      <4>2. Sent'
          BY <3>1, <4>1, Zenon DEF Sent, Format, RegisterText
      <4>3. Received'
          BY <3>1, <4>1, Zenon DEF Received
      <4> QED BY <4>2, <4>3
    <3>3. Acceptable' <=> Acceptable
        BY <3>1, Zenon DEF Acceptable, Arg
    <3>4. CASE Acceptable /\ stage' = "entered"
      <4>1. entry' = [rank |-> Arg(2, 0).value, iwd |-> Clean(args[3]),
                      cpus |-> Arg(4, 1).value, user |-> Clean(args[5])]
          BY <2>4, <3>4 DEF EnterRegister
      <4>2. Entered'
          BY <3>1, <3>3, <3>4, <4>1, Zenon DEF Entered, Arg
      <4> QED BY <3>1, <3>2, <3>4, <4>2 DEF WireInv
    <3>5. CASE ~ Acceptable /\ stage' = "rejected"
        BY <3>1, <3>2, <3>3, <3>5 DEF WireInv
    <3> QED BY <2>4, <3>4, <3>5 DEF EnterRegister
  <2>5. ASSUME UNCHANGED wireVars PROVE WireInv'
    <3>1. /\ path' = path /\ stage' = stage /\ reg' = reg /\ msg' = msg /\ extra' = extra
          /\ args' = args /\ entry' = entry
        BY <2>5 DEF wireVars
    <3>2. /\ Sent' <=> Sent
          /\ Received' <=> Received
          /\ Acceptable' <=> Acceptable
          /\ Entered' <=> Entered
        BY <3>1, Zenon DEF Sent, Received, Acceptable, Entered, Arg, Format, RegisterText
    <3> QED BY <3>1, <3>2 DEF WireInv
  <2> QED BY <2>1, <2>2, <2>3, <2>4, <2>5 DEF WireNext
<1> QED BY <1>1, <1>2, PTL DEF WireSpec

Letters == Chars \cup STRING \cup DigitChars \cup {":"}

\* No digit is a delimiter.
LEMMA DigitsDelimitNothing == \A c \in DigitChars : c \notin Delims
<1> SUFFICES ASSUME NEW c \in DigitChars PROVE c \notin Delims
    OBVIOUS
<1>1. PICK d \in 1 .. 10 : c = Digits[d]
    BY DEF DigitChars
<1>2. c \in {"0", "1", "2", "3", "4", "5", "6", "7", "8", "9"}
    BY <1>1 DEF Digits
<1> QED BY <1>2 DEF Delims

\* A text of a REGISTER has five fields.
LEMMA TextRight ==
  ASSUME NEW r \in Nat, NEW n \in Nat, NEW u \in Users, path \in Seq(Chars)
  PROVE  /\ RegisterText(r, n, u) \in Seq(Letters)
         /\ \E b, c, d, e \in Nat :
              FiveFields(RegisterText(r, n, u), ":", Decimal[CMD_REGISTER], Decimal[r], path,
                         Decimal[n], u, b, c, d, e)
<1>1. DigitChars \subseteq Letters /\ Chars \subseteq Letters /\ STRING \subseteq Letters
      /\ ":" \in Letters
    BY Zenon DEF Letters
<1>2. u \in Seq(STRING)
    BY WireAssumption
<1>3. path \in Seq(Letters) /\ u \in Seq(Letters)
    BY <1>1, <1>2, StringsOver
<1>4. \A k \in Nat : Decimal[k] \in Seq(Letters)
    BY <1>1, DecimalRight, StringsOver
<1>5. CMD_REGISTER \in Nat
    BY DEF CMD_REGISTER
<1>6. PICK x \in Letters : x = ":"
    BY <1>1
<1>7. PICK f1 \in Seq(Letters) : f1 = Decimal[CMD_REGISTER]
    BY <1>4, <1>5
<1>8. PICK f2 \in Seq(Letters) : f2 = Decimal[r]
    BY <1>4
<1>9. PICK f4 \in Seq(Letters) : f4 = Decimal[n]
    BY <1>4
<1>10. PICK v : v = RegisterText(r, n, u)
    OBVIOUS
<1>11. v = f1 \o <<x>> \o f2 \o <<x>> \o path \o <<x>> \o f4 \o <<x>> \o u
    BY <1>6, <1>7, <1>8, <1>9, <1>10, Zenon DEF RegisterText
<1>12. /\ v \in Seq(Letters)
       /\ \E b, c, d, e \in Nat : FiveFields(v, x, f1, f2, path, f4, u, b, c, d, e)
    BY <1>3, <1>11, FiveFieldsExist, Zenon
<1> QED BY <1>6, <1>7, <1>8, <1>9, <1>10, <1>12, Zenon

\* What snprintf makes of a text is as much of it as fits.
LEMMA FormatRight ==
  ASSUME NEW S, NEW v \in Seq(S), NEW m, m = Format(v)
  PROVE  /\ m \in Seq(S) /\ Len(m) < MessageSize /\ Len(m) <= Len(v)
         /\ \A p \in 1 .. Len(m) : m[p] = v[p]
         /\ Len(v) < MessageSize => Len(m) = Len(v)
<1>1. PICK L \in Nat : L = Len(v)
    BY LenProperties
<1>2. PICK M \in Nat : M = MinOf(L, MessageSize - 1)
    BY WireAssumption DEF MinOf
<1>3. M <= L /\ M < MessageSize /\ (L < MessageSize => M = L)
    BY <1>2, WireAssumption DEF MinOf
<1>4. m = SubSeq(v, 1, M)
    BY <1>1, <1>2 DEF Format
<1>5. /\ SubSeq(v, 1, M) \in Seq(S)
      /\ Len(SubSeq(v, 1, M)) = IF 1 <= M THEN M - 1 + 1 ELSE 0
      /\ \A p \in 1 .. M - 1 + 1 : SubSeq(v, 1, M)[p] = v[1 + p - 1]
  <2>1. \A p \in 1 .. M : v[p] \in S
      BY <1>1, <1>3, ElementOfSeq
  <2>2. 1 \in Int /\ M \in Int
      OBVIOUS
  <2> QED BY <2>1, <2>2, SubSeqProperties
<1>6. m \in Seq(S) /\ Len(m) = M /\ \A p \in 1 .. M : m[p] = v[p]
  <2>1. \A p \in 1 .. M : p \in 1 .. M - 1 + 1 /\ 1 + p - 1 = p
      OBVIOUS
  <2>2. (IF 1 <= M THEN M - 1 + 1 ELSE 0) = M
      OBVIOUS
  <2> QED BY <1>4, <1>5, <2>1, <2>2
<1> QED BY <1>1, <1>3, <1>6

Holds(m, a, z, f) ==
  a >= 1 /\ z = a + Len(f) - 1 /\ z <= Len(m) /\ \A p \in a .. z : m[p] = f[p - a + 1]

\* A field is read from its place.
LEMMA FieldIs ==
  ASSUME NEW S, NEW m \in Seq(S), NEW f \in Seq(S), NEW a \in Nat, NEW z \in Nat,
         Holds(m, a, z, f)
  PROVE  SubSeq(m, a, z) = f
<1>0. a >= 1 /\ z = a + Len(f) - 1 /\ z <= Len(m) /\ \A p \in a .. z : m[p] = f[p - a + 1]
    BY DEF Holds
<1> USE <1>0
<1>1. Len(f) \in Nat
    BY LenProperties
<1>2. /\ SubSeq(m, a, z) \in Seq(S)
      /\ Len(SubSeq(m, a, z)) = IF a <= z THEN z - a + 1 ELSE 0
      /\ \A p \in 1 .. z - a + 1 : SubSeq(m, a, z)[p] = m[a + p - 1]
  <2>1. \A p \in a .. z : m[p] \in S
      BY ElementOfSeq, LenProperties
  <2> QED BY <2>1, SubSeqProperties
<1>3. z - a + 1 = Len(f) /\ (IF a <= z THEN z - a + 1 ELSE 0) = Len(f)
    BY <1>1
<1>4. PICK g \in Seq(S) : g = SubSeq(m, a, z)
    BY <1>2
<1>5. Len(g) = Len(f)
    BY <1>2, <1>3, <1>4
<1>6. ASSUME NEW p \in 1 .. Len(g) PROVE g[p] = f[p]
  <2>1. g[p] = m[a + p - 1]
      BY <1>2, <1>3, <1>4, <1>5
  <2>2. PICK q \in a .. z : q = a + p - 1
      BY <1>1, <1>5
  <2>3. m[q] = f[q - a + 1]
      BY <1>0
  <2>4. q - a + 1 = p
      BY <2>2
  <2> QED BY <2>1, <2>2, <2>3, <2>4
<1> QED BY <1>4, <1>5, <1>6, SeqEqual

\* A message and the places b, c, d and e of its fields, from the second on:
\* only the directory may hold delimiters, but not at its beginning; a rank
\* that is in the message is the slave's, and so are the other fields of a
\* message that is not cut off.
Layout(b, c, d, e) ==
  /\ b > 2 /\ c > b + 1 /\ d = c + Len(path) + 1 /\ d > c + 1 /\ e > d + 1
  /\ \A p \in 1 .. Len(msg) : ~ (c < p /\ p < d - 1) =>
       (msg[p] \in Delims <=> p = b - 1 \/ p = c - 1 \/ p = d - 1 \/ p = e - 1)
  /\ \A p \in c .. d - 2 : p <= Len(msg) => msg[p] = path[p - c + 1]
  /\ c - 2 <= Len(msg) => SubSeq(msg, b, c - 2) = Decimal[reg.rank]
  /\ Fits => /\ e <= Len(msg) /\ SubSeq(msg, 1, b - 2) = Decimal[CMD_REGISTER]
             /\ SubSeq(msg, d, e - 2) = Decimal[reg.cpus]
             /\ SubSeq(msg, e, Len(msg)) = reg.user

\* Every message that is sent has this layout.
LEMMA MessageLayout ==
  ASSUME WireInv, stage # "path"
  PROVE  msg \in Seq(Letters) /\ \E b, c, d, e \in Nat : Layout(b, c, d, e)
<1>1. /\ path \in Seq(Chars) /\ reg.rank \in Nat /\ reg.cpus \in Nat /\ reg.user \in Users
      /\ path # << >> /\ path[1] = "/"
      /\ msg = Format(RegisterText(reg.rank, reg.cpus, reg.user))
    BY DEF WireInv, Sent
<1>2. PICK v : v = RegisterText(reg.rank, reg.cpus, reg.user)
    OBVIOUS
<1>3. PICK f1 : f1 = Decimal[CMD_REGISTER]
    OBVIOUS
<1>4. PICK f2 : f2 = Decimal[reg.rank]
    OBVIOUS
<1>5. PICK f4 : f4 = Decimal[reg.cpus]
    OBVIOUS
<1>6. PICK f5 : f5 = reg.user
    OBVIOUS
<1>7. /\ v \in Seq(Letters)
      /\ \E b, c, d, e \in Nat : FiveFields(v, ":", f1, f2, path, f4, f5, b, c, d, e)
    BY <1>1, <1>2, <1>3, <1>4, <1>5, <1>6, TextRight, Zenon
<1>8. PICK b \in Nat, c \in Nat, d \in Nat, e \in Nat :
        FiveFields(v, ":", f1, f2, path, f4, f5, b, c, d, e)
    BY <1>7, Zenon
<1>9. PICK m : m = msg
    OBVIOUS
<1>10. /\ m \in Seq(Letters) /\ Len(m) <= Len(v) /\ \A p \in 1 .. Len(m) : m[p] = v[p]
       /\ Fits => Len(m) = Len(v)
  <2>1. m = Format(v)
      BY <1>1, <1>2, <1>9, Zenon
  <2>2. /\ m \in Seq(Letters) /\ Len(m) <= Len(v) /\ \A p \in 1 .. Len(m) : m[p] = v[p]
        /\ Len(v) < MessageSize => Len(m) = Len(v)
      BY <1>7, <2>1, FormatRight, Zenon
  <2>3. Fits <=> Len(v) < MessageSize
      BY <1>2 DEF Fits
  <2> QED BY <2>2, <2>3
<1>11. /\ f1 \in Seq(DigitChars) /\ f1 # << >> /\ f2 \in Seq(DigitChars) /\ f2 # << >>
       /\ f4 \in Seq(DigitChars) /\ f4 # << >>
  <2>1. CMD_REGISTER \in Nat
      BY DEF CMD_REGISTER
  <2> QED BY <1>1, <1>3, <1>4, <1>5, <2>1, DecimalRight, Zenon
<1>12. f5 \in Seq(STRING) /\ f5 # << >> /\ \A k \in 1 .. Len(f5) : f5[k] \notin Delims
    BY <1>1, <1>6, WireAssumption, Zenon
<1>13. /\ Len(f1) \in Nat \ {0} /\ Len(f2) \in Nat \ {0} /\ Len(f4) \in Nat \ {0}
       /\ Len(f5) \in Nat \ {0} /\ Len(path) \in Nat \ {0}
  <2>1. \A T : \A s \in Seq(T) : s # << >> => Len(s) \in Nat \ {0}
      BY LenProperties, EmptySeq
  <2> QED BY <1>1, <1>11, <1>12, <2>1, Zenon
<1>14. /\ \A k \in 1 .. Len(f1) : f1[k] \notin Delims
       /\ \A k \in 1 .. Len(f2) : f2[k] \notin Delims
       /\ \A k \in 1 .. Len(f4) : f4[k] \notin Delims
  <2>1. \A s \in Seq(DigitChars) : \A k \in 1 .. Len(s) : s[k] \in DigitChars
      BY ElementOfSeq
  <2> QED BY <1>11, <2>1, DigitsDelimitNothing, Zenon
<1>15. ":" \in Delims /\ "/" \notin Delims
    BY DEF Delims
<1>16. /\ b = Len(f1) + 2 /\ c = b + Len(f2) + 1 /\ d = c + Len(path) + 1
       /\ e = d + Len(f4) + 1 /\ Len(v) = e + Len(f5) - 1
    BY <1>8, Zenon DEF FiveFields
<1>17. /\ v[b - 1] = ":" /\ v[c - 1] = ":" /\ v[d - 1] = ":" /\ v[e - 1] = ":"
       /\ \A p \in 1 .. b - 2 : v[p] = f1[p]
       /\ \A p \in b .. c - 2 : v[p] = f2[p - b + 1]
       /\ \A p \in c .. d - 2 : v[p] = path[p - c + 1]
       /\ \A p \in d .. e - 2 : v[p] = f4[p - d + 1]
       /\ \A p \in e .. Len(v) : v[p] = f5[p - e + 1]
    BY <1>8, Zenon DEF FiveFields
<1>18. b > 2 /\ c > b + 1 /\ d > c + 1 /\ e > d + 1 /\ Len(v) >= e /\ Len(v) \in Nat
       /\ Len(f2) = c - b - 1 /\ Len(f4) = e - d - 1 /\ Len(f5) = Len(v) - e + 1
    BY <1>13, <1>16
<1>19. ASSUME NEW p \in 1 .. Len(v), ~ (c < p /\ p < d - 1)
       PROVE  v[p] \in Delims <=> p = b - 1 \/ p = c - 1 \/ p = d - 1 \/ p = e - 1
  <2>1. CASE p \in 1 .. b - 2
    <3>1. p \in 1 .. Len(f1) /\ v[p] = f1[p]
        BY <1>13, <1>16, <1>17, <2>1
    <3>2. ~ (p = b - 1 \/ p = c - 1 \/ p = d - 1 \/ p = e - 1)
        BY <1>18, <2>1
    <3> QED BY <1>14, <3>1, <3>2, Zenon
  <2>2. CASE p \in b .. c - 2
    <3>1. PICK k \in 1 .. Len(f2) : k = p - b + 1
        BY <1>18, <2>2
    <3>2. v[p] = f2[k]
        BY <1>17, <2>2, <3>1
    <3>3. ~ (p = b - 1 \/ p = c - 1 \/ p = d - 1 \/ p = e - 1)
        BY <1>18, <2>2
    <3> QED BY <1>14, <3>2, <3>3, Zenon
  <2>3. CASE p = c
    <3>1. v[p] = path[1]
        BY <1>17, <1>18, <2>3
    <3>2. ~ (p = b - 1 \/ p = c - 1 \/ p = d - 1 \/ p = e - 1)
        BY <1>18, <2>3
    <3> QED BY <1>1, <1>15, <3>1, <3>2, Zenon
  <2>4. CASE p \in d .. e - 2
    <3>1. PICK k \in 1 .. Len(f4) : k = p - d + 1
        BY <1>18, <2>4
    <3>2. v[p] = f4[k]
        BY <1>17, <2>4, <3>1
    <3>3. ~ (p = b - 1 \/ p = c - 1 \/ p = d - 1 \/ p = e - 1)
        BY <1>18, <2>4
    <3> QED BY <1>14, <3>2, <3>3, Zenon
  <2>5. CASE p \in e .. Len(v)
    <3>1. PICK k \in 1 .. Len(f5) : k = p - e + 1
        BY <1>18, <2>5
    <3>2. v[p] = f5[k]
        BY <1>17, <2>5, <3>1
    <3>3. ~ (p = b - 1 \/ p = c - 1 \/ p = d - 1 \/ p = e - 1)
        BY <1>18, <2>5
    <3> QED BY <1>12, <3>2, <3>3, Zenon
  <2>6. CASE p = b - 1 \/ p = c - 1 \/ p = d - 1 \/ p = e - 1
      BY <1>15, <1>17, <2>6, Zenon
  <2>7. \/ p \in 1 .. b - 2 \/ p \in b .. c - 2 \/ p = c \/ p \in d .. e - 2 \/ p \in e .. Len(v)
        \/ p = b - 1 \/ p = c - 1 \/ p = d - 1 \/ p = e - 1
      BY <1>18, <1>19
  <2> QED BY <2>1, <2>2, <2>3, <2>4, <2>5, <2>6, <2>7, Zenon
<1>20. \A p \in 1 .. Len(m) : ~ (c < p /\ p < d - 1) =>
         (m[p] \in Delims <=> p = b - 1 \/ p = c - 1 \/ p = d - 1 \/ p = e - 1)
  <2>1. \A p \in 1 .. Len(m) : p \in 1 .. Len(v)
      BY <1>10, <1>18, LenProperties
  <2> QED BY <1>10, <1>19, <2>1, Zenon
<1>21. \A p \in c .. d - 2 : p <= Len(m) => m[p] = path[p - c + 1]
  <2>1. \A p \in c .. d - 2 : p <= Len(m) => p \in 1 .. Len(m)
      BY <1>10, <1>18, LenProperties
  <2> QED BY <1>10, <1>17, <2>1, Zenon
<1>22. /\ f1 \in Seq(Letters) /\ f2 \in Seq(Letters) /\ f4 \in Seq(Letters) /\ f5 \in Seq(Letters)
  <2>1. DigitChars \subseteq Letters /\ STRING \subseteq Letters
      BY Zenon DEF Letters
  <2> QED BY <1>11, <1>12, <2>1, StringsOver, Zenon
<1>23. ASSUME c - 2 <= Len(m) PROVE SubSeq(m, b, c - 2) = f2
  <2>1. PICK z \in Nat : z = c - 2
      BY <1>18
  <2>2. b >= 1 /\ z = b + Len(f2) - 1 /\ z <= Len(m)
      BY <1>18, <1>23, <2>1
  <2>3. \A p \in b .. z : p \in 1 .. Len(m)
      BY <1>10, <1>18, <2>2, LenProperties
  <2>4. \A p \in b .. z : m[p] = f2[p - b + 1]
      BY <1>10, <1>17, <2>1, <2>3, Zenon
  <2>5. SubSeq(m, b, z) = f2
      BY <1>10, <1>22, <2>2, <2>4, FieldIs, Zenon DEF Holds
  <2> QED BY <2>1, <2>5
<1>24. ASSUME Len(m) = Len(v)
       PROVE  /\ e <= Len(m) /\ SubSeq(m, 1, b - 2) = f1
              /\ SubSeq(m, d, e - 2) = f4 /\ SubSeq(m, e, Len(m)) = f5
  <2>1. SubSeq(m, 1, b - 2) = f1
    <3>1. PICK a \in Nat : a = 1
        OBVIOUS
    <3>2. PICK z \in Nat : z = b - 2
        BY <1>18
    <3>3. a >= 1 /\ z = a + Len(f1) - 1 /\ z <= Len(m)
        BY <1>16, <1>18, <1>24, <3>1, <3>2
    <3>4. \A p \in a .. z : p \in 1 .. Len(m) /\ p - a + 1 = p
        BY <1>18, <1>24, <3>1, <3>3
    <3>5. \A p \in a .. z : m[p] = f1[p - a + 1]
        BY <1>10, <1>17, <3>1, <3>2, <3>4, Zenon
    <3>6. SubSeq(m, a, z) = f1
        BY <1>10, <1>22, <3>3, <3>5, FieldIs, Zenon DEF Holds
    <3> QED BY <3>1, <3>2, <3>6
  <2>2. SubSeq(m, d, e - 2) = f4
    <3>1. PICK z \in Nat : z = e - 2
        BY <1>18
    <3>2. d >= 1 /\ z = d + Len(f4) - 1 /\ z <= Len(m)
        BY <1>18, <1>24, <3>1
    <3>3. \A p \in d .. z : p \in 1 .. Len(m)
        BY <1>18, <1>24, <3>2
    <3>4. \A p \in d .. z : m[p] = f4[p - d + 1]
        BY <1>10, <1>17, <3>1, <3>3, Zenon
    <3>5. SubSeq(m, d, z) = f4
        BY <1>10, <1>22, <3>2, <3>4, FieldIs, Zenon DEF Holds
    <3> QED BY <3>1, <3>5
  <2>3. SubSeq(m, e, Len(m)) = f5
    <3>1. PICK z \in Nat : z = Len(m)
        BY <1>18, <1>24
    <3>2. e >= 1 /\ z = e + Len(f5) - 1 /\ z <= Len(m)
        BY <1>18, <1>24, <3>1
    <3>3. \A p \in e .. z : p \in 1 .. Len(m)
        BY <1>18, <1>24, <3>2
    <3>4. \A p \in e .. z : m[p] = f5[p - e + 1]
        BY <1>10, <1>17, <1>24, <3>1, <3>3, Zenon
    <3>5. SubSeq(m, e, z) = f5
        BY <1>10, <1>22, <3>2, <3>4, FieldIs, Zenon DEF Holds
    <3> QED BY <3>1, <3>5
  <2> QED BY <1>18, <1>24, <2>1, <2>2, <2>3
<1>25. Layout(b, c, d, e)
    BY <1>3, <1>4, <1>5, <1>6, <1>9, <1>10, <1>16, <1>18, <1>20, <1>21, <1>23, <1>24,
       Zenon DEF Layout
<1> QED BY <1>9, <1>10, <1>25, Zenon

\* A message with five tokens holds the slave's rank as the second one.
LEMMA RankUnderstood ==
  ASSUME WireInv, stage # "path", NoStray, Len(Strsplit(Delims \cup extra, msg)) = 5
  PROVE  Strsplit(Delims \cup extra, msg)[2] = Decimal[reg.rank]
<1>1. PICK m \in Seq(Letters) : m = msg
    BY MessageLayout
<1>2. PICK b \in Nat, c \in Nat, d \in Nat, e \in Nat : Layout(b, c, d, e)
    BY MessageLayout, Zenon
<1>3. PICK D : D = Delims \cup extra
    OBVIOUS
<1>4. PICK N \in Nat : N = Len(m)
    BY LenProperties
<1>5. \A p \in 1 .. N : m[p] \in D <=> m[p] \in Delims
    BY <1>1, <1>3, <1>4 DEF NoStray
<1>6. /\ b > 2 /\ c > b + 1 /\ d > c + 1 /\ e > d + 1
      /\ \A p \in 1 .. N : ~ (c < p /\ p < d - 1) =>
           (m[p] \in Delims <=> p = b - 1 \/ p = c - 1 \/ p = d - 1 \/ p = e - 1)
      /\ c - 2 <= N => SubSeq(m, b, c - 2) = Decimal[reg.rank]
    BY <1>1, <1>2, <1>4, Zenon DEF Layout
<1>7. ASSUME NEW p \in 1 .. N, p < c PROVE m[p] \in D <=> p = b - 1 \/ p = c - 1
  <2>1. ~ (c < p /\ p < d - 1) /\ p # d - 1 /\ p # e - 1
      BY <1>6, <1>7
  <2> QED BY <1>5, <1>6, <2>1, Zenon
<1>8. Len(Strsplit(D, m)) = 5
    BY <1>1, <1>3
<1>9. c <= N /\ Strsplit(D, m)[2] = SubSeq(m, b, c - 2)
  <2>1. TwoFields(D, m, N, b, c)
      BY <1>6, <1>7, Zenon DEF TwoFields
  <2>2. SecondToken(D, m, N, b, c)
      BY <1>4, <2>1, RankToken, Zenon
  <2> QED BY <1>8, <2>2, Zenon DEF SecondToken
<1>10. c - 2 <= N
    BY <1>9
<1> QED BY <1>1, <1>3, <1>6, <1>9, <1>10, Zenon

\* A message that is not cut off and has five tokens, as it has if the
\* directory holds no delimiter, is understood.
LEMMA FieldsUnderstood ==
  ASSUME WireInv, stage # "path", NoStray, Fits,
         Len(Strsplit(Delims \cup extra, msg)) = 5 \/ ~ Has(path, Delims)
  PROVE  LET t == Strsplit(Delims \cup extra, msg) IN
         /\ Len(t) = 5 /\ t[1] = Decimal[CMD_REGISTER] /\ t[2] = Decimal[reg.rank]
         /\ \E q \in 1 .. Len(path) : /\ t[3] = SubSeq(path, 1, q)
                                      /\ \A k \in q + 1 .. Len(path) : path[k] \in Delims
         /\ t[4] = Decimal[reg.cpus] /\ t[5] = reg.user
<1>1. PICK m \in Seq(Letters) : m = msg
    BY MessageLayout
<1>2. PICK b \in Nat, c \in Nat, d \in Nat, e \in Nat : Layout(b, c, d, e)
    BY MessageLayout, Zenon
<1>3. PICK D : D = Delims \cup extra
    OBVIOUS
<1>4. PICK N \in Nat : N = Len(m)
    BY LenProperties
<1>5. \A p \in 1 .. N : m[p] \in D <=> m[p] \in Delims
    BY <1>1, <1>3, <1>4 DEF NoStray
<1>6. /\ b > 2 /\ c > b + 1 /\ d = c + Len(path) + 1 /\ d > c + 1 /\ e > d + 1 /\ e <= N
      /\ \A p \in 1 .. N : ~ (c < p /\ p < d - 1) =>
           (m[p] \in Delims <=> p = b - 1 \/ p = c - 1 \/ p = d - 1 \/ p = e - 1)
      /\ \A p \in c .. d - 2 : p <= N => m[p] = path[p - c + 1]
      /\ c - 2 <= N => SubSeq(m, b, c - 2) = Decimal[reg.rank]
      /\ SubSeq(m, 1, b - 2) = Decimal[CMD_REGISTER]
      /\ SubSeq(m, d, e - 2) = Decimal[reg.cpus] /\ SubSeq(m, e, N) = reg.user
    BY <1>1, <1>2, <1>4, Zenon DEF Layout
<1>7. \A p \in 1 .. N : ~ (c < p /\ p < d - 1) =>
        (m[p] \in D <=> p = b - 1 \/ p = c - 1 \/ p = d - 1 \/ p = e - 1)
    BY <1>5, <1>6, Zenon
<1>8. path \in Seq(Chars) /\ Len(path) \in Nat
    BY LenProperties DEF WireInv
\* The characters of the directory.
<1>9. ASSUME NEW p \in c .. d - 2
      PROVE  /\ p \in 1 .. N /\ p - c + 1 \in 1 .. Len(path) /\ m[p] = path[p - c + 1]
             /\ m[p] \in D <=> path[p - c + 1] \in Delims
  <2>1. p \in 1 .. N /\ p <= N /\ p - c + 1 \in 1 .. Len(path)
      BY <1>6, <1>8
  <2>2. m[p] = path[p - c + 1]
      BY <1>6, <2>1, Zenon
  <2> QED BY <1>5, <2>1, <2>2, Zenon
<1>10. Len(Strsplit(D, m)) = 5 \/ \A p \in c .. d - 2 : m[p] \notin D
  <2>1. CASE ~ Has(path, Delims)
    <3>1. \A k \in 1 .. Len(path) : path[k] \notin Delims
        BY <2>1, Zenon DEF Has
    <3> QED BY <1>9, <3>1, Zenon
  <2> QED BY <1>1, <1>3, <2>1
<1>11. PICK t : t = Strsplit(D, m)
    OBVIOUS
<1>12. /\ Len(t) = 5 /\ t[1] = SubSeq(m, 1, b - 2) /\ t[2] = SubSeq(m, b, c - 2)
       /\ \E q \in c .. d - 2 : /\ t[3] = SubSeq(m, c, q)
                                /\ \A p \in q + 1 .. d - 2 : m[p] \in D
       /\ t[4] = SubSeq(m, d, e - 2) /\ t[5] = SubSeq(m, e, N)
  <2>1. FieldsAt(D, m, N, b, c, d, e)
      BY <1>6, <1>7, Zenon DEF FieldsAt
  <2>2. TokensAt(Strsplit(D, m), D, m, N, b, c, d, e)
      BY <1>4, <1>10, <2>1, FieldTokens, Zenon
  <2> QED BY <1>11, <2>2, Zenon DEF TokensAt
<1>13. c - 2 <= N
    BY <1>6
<1>14. \E q \in 1 .. Len(path) : /\ t[3] = SubSeq(path, 1, q)
                                 /\ \A k \in q + 1 .. Len(path) : path[k] \in Delims
  <2>1. PICK z \in c .. d - 2 : t[3] = SubSeq(m, c, z) /\ \A p \in z + 1 .. d - 2 : m[p] \in D
      BY <1>12, Zenon
  <2>2. PICK q \in 1 .. Len(path) : q = z - c + 1
      BY <1>6, <1>8
  <2>3. t[3] = SubSeq(path, 1, q)
    <3>1. PICK S : S = Letters \cup Chars
        OBVIOUS
    <3>2. \A k \in 1 .. q : path[k] \in S
        BY <1>8, <3>1, ElementOfSeq
    <3>3. /\ SubSeq(path, 1, q) \in Seq(S)
          /\ Len(SubSeq(path, 1, q)) = IF 1 <= q THEN q - 1 + 1 ELSE 0
          /\ \A k \in 1 .. q - 1 + 1 : SubSeq(path, 1, q)[k] = path[1 + k - 1]
      <4>1. 1 \in Int /\ q \in Int
          BY <1>8
      <4> QED BY <3>2, <4>1, SubSeqProperties
    <3>4. PICK f \in Seq(S) : f = SubSeq(path, 1, q)
        BY <3>3
    <3>5. Len(f) = q /\ \A k \in 1 .. q : f[k] = path[k]
        BY <1>8, <3>3, <3>4
    <3>6. m \in Seq(S)
        BY <3>1, StringsOver
    <3>7. PICK y \in Nat : y = z
        OBVIOUS
    <3>8. c >= 1 /\ y = c + Len(f) - 1 /\ y <= Len(m)
      <4>1. y \in 1 .. N
          BY <1>9, <3>7
      <4>2. c >= 1
          BY <1>6
      <4>3. y = c + q - 1
          BY <2>2, <3>7
      <4> QED BY <1>4, <3>5, <4>1, <4>2, <4>3
    <3>9. ASSUME NEW p \in c .. y PROVE m[p] = f[p - c + 1]
      <4>1. p \in c .. d - 2 /\ p - c + 1 \in 1 .. q
          BY <1>6, <2>2, <3>7
      <4> QED BY <1>9, <3>5, <4>1, Zenon
    <3>10. SubSeq(m, c, y) = f
      <4>1. Holds(m, c, y, f)
          BY <3>8, <3>9, Zenon DEF Holds
      <4> QED BY <3>6, <4>1, FieldIs
    <3> QED BY <2>1, <3>4, <3>7, <3>10
  <2>4. ASSUME NEW k \in q + 1 .. Len(path) PROVE path[k] \in Delims
    <3>1. PICK p \in z + 1 .. d - 2 : p = c + k - 1
        BY <1>6, <1>8, <2>2
    <3>2. p \in c .. d - 2 /\ p - c + 1 = k
        BY <1>6, <1>8, <3>1, <2>2
    <3>3. m[p] \in D
        BY <2>1
    <3> QED BY <1>9, <3>2, <3>3
  <2> QED BY <2>3, <2>4
<1>15. /\ t[1] = Decimal[CMD_REGISTER] /\ t[2] = Decimal[reg.rank]
       /\ t[4] = Decimal[reg.cpus] /\ t[5] = reg.user
    BY <1>6, <1>12, <1>13, Zenon
<1>16. t = Strsplit(Delims \cup extra, msg)
    BY <1>1, <1>3, <1>11
<1> QED BY <1>12, <1>14, <1>15, <1>16, Zenon

-----------------------------------------------------------------------------
(***************************************************************************)
(* Theorems about the REGISTER.                                            *)
(***************************************************************************)

\* The state is well-typed: no message exceeds its buffer and no rank that is
\* entered exceeds the table.
THEOREM WireTypeCorrect == WireSpec => []WireTypeOK
<1>1. WireInv => WireTypeOK
  <2> SUFFICES ASSUME WireInv PROVE WireTypeOK
      OBVIOUS
  <2>1. Len(msg) < MessageSize
    <3>1. CASE stage = "path"
      <4>1. Len(msg) = 0
          BY <3>1, EmptySeq DEF WireInv
      <4> QED BY <4>1, WireAssumption
    <3>2. CASE stage # "path"
      <4>1. reg.rank \in Nat /\ reg.cpus \in Nat /\ reg.user \in Users /\ path \in Seq(Chars)
            /\ msg = Format(RegisterText(reg.rank, reg.cpus, reg.user))
          BY <3>2 DEF WireInv, Sent
      <4>2. RegisterText(reg.rank, reg.cpus, reg.user) \in Seq(Letters)
          BY <4>1, TextRight, Zenon
      <4> QED BY <4>1, <4>2, FormatRight, Zenon
    <3> QED BY <3>1, <3>2
  <2>2. stage = "entered" => entry.rank \in 0 .. NumProcs - 1
    <3> SUFFICES ASSUME stage = "entered" PROVE entry.rank \in 0 .. NumProcs - 1
        OBVIOUS
    <3>1. Entered
        BY DEF WireInv
    <3>2. entry.rank = Arg(2, 0).value
        BY <3>1 DEF Entered
    <3>3. Arg(2, 0).value \in 0 .. NumProcs - 1
        BY <3>1, Zenon DEF Entered, Acceptable
    <3> QED BY <3>2, <3>3
  <2> QED BY <2>1, <2>2 DEF WireInv, WireTypeOK
<1> QED BY <1>1, WireInvHolds, PTL

\* Every path and every message, of any characters and any length, is split
\* into the tokens that count_tokens announced, whatever characters happen to
\* follow the delimiters in memory.
THEOREM SplitIsRight == WireSpec => []SplitRight
<1>1. WireInv => SplitRight
  <2> SUFFICES ASSUME WireInv PROVE SplitRight
      OBVIOUS
  <2>1. path \in Seq(Chars)
      BY DEF WireInv
  <2>2. msg \in Seq(Letters)
    <3>1. CASE stage = "path"
        BY <3>1, EmptySeq DEF WireInv
    <3>2. CASE stage # "path"
        BY <3>2, MessageLayout
    <3> QED BY <3>1, <3>2
  <2> SUFFICES ASSUME NEW s \in {path, msg}, NEW more \in SUBSET Stray
               PROVE  LET delims == Delims \cup more
                          tokens == Strsplit(delims, s)
                          starts == Starts(delims, s)
                          lead   == IF s = << >> \/ s[1] \in delims THEN 1 ELSE 0
                      IN  /\ Len(tokens) = CountTokens(delims, s)
                          /\ Len(tokens) = lead + Cardinality(starts)
                          /\ lead = 1 => tokens[1] = << >>
                          /\ \A k \in starts :
                               tokens[lead + Cardinality({j \in starts : j <= k})]
                                 = Piece(delims, s, k)
      BY Zenon DEF SplitRight
  <2>3. PICK T : s \in Seq(T)
      BY <2>1, <2>2, Zenon
  <2>4. PICK delims : delims = Delims \cup more
      OBVIOUS
  <2>5. /\ Len(Strsplit(delims, s)) = CountTokens(delims, s)
        /\ Len(Strsplit(delims, s)) = Lead(delims, s) + Cardinality(Starts(delims, s))
        /\ Lead(delims, s) = 1 => Strsplit(delims, s)[1] = << >>
        /\ \A k \in Starts(delims, s) :
             Strsplit(delims, s)[Lead(delims, s) + UpTo(delims, s, k)] = Piece(delims, s, k)
      BY <2>3, StrsplitRight, Zenon
  <2> QED BY <2>4, <2>5, Zenon DEF Lead, UpTo
<1> QED BY <1>1, WireInvHolds, PTL

\* A REGISTER that is accepted is understood, whatever the slave's rank, cpus,
\* user and directory, and wherever the message was cut off.
THEOREM RegisterUnderstood == WireSpec => []RegisterIntact
<1>1. WireInv => RegisterIntact
  <2> SUFFICES ASSUME WireInv, stage = "entered", NoStray
               PROVE  /\ entry.rank = reg.rank
                      /\ Fits => entry.cpus = reg.cpus /\ entry.user = reg.user
                      /\ \/ ~ Fits \/ Has(path, Quotes \cup Blanks)
                         \/ /\ entry.iwd = SubSeq(path, 1, Len(entry.iwd))
                            /\ \A k \in Len(entry.iwd) + 1 .. Len(path) : path[k] \in Delims
      BY DEF RegisterIntact
  <2>1. /\ stage # "path" /\ Entered /\ path \in Seq(Chars)
        /\ reg.rank \in Nat /\ reg.cpus \in Nat /\ reg.user \in Users
        /\ args = Strsplit(Delims \cup extra, msg)
      BY DEF WireInv, Received, Sent
  <2>2. Len(Strsplit(Delims \cup extra, msg)) = 5
    <3>1. Len(args) = 5
        BY <2>1, Zenon DEF Entered, Acceptable
    <3> QED BY <2>1, <3>1
  <2>3. entry = [rank |-> Arg(2, 0).value, iwd |-> Clean(args[3]),
                 cpus |-> Arg(4, 1).value, user |-> Clean(args[5])]
      BY <2>1, Zenon DEF Entered
  <2>4. /\ entry.rank = Arg(2, 0).value /\ entry.iwd = Clean(args[3])
        /\ entry.cpus = Arg(4, 1).value /\ entry.user = Clean(args[5])
      BY <2>3
  <2>5. entry.rank = reg.rank
    <3>1. args[2] = Decimal[reg.rank]
        BY <2>1, <2>2, RankUnderstood, Zenon
    <3>2. Arg(2, 0) = [ok |-> TRUE, value |-> reg.rank]
        BY <2>1, <3>1, ParseDecimal, Zenon DEF Arg
    <3> QED BY <2>4, <3>2
  <2>6. ASSUME Fits
        PROVE  /\ entry.cpus = reg.cpus /\ entry.user = reg.user
               /\ \/ Has(path, Quotes \cup Blanks)
                  \/ /\ entry.iwd = SubSeq(path, 1, Len(entry.iwd))
                     /\ \A k \in Len(entry.iwd) + 1 .. Len(path) : path[k] \in Delims
    <3>1. /\ \E q \in 1 .. Len(path) : /\ args[3] = SubSeq(path, 1, q)
                                       /\ \A k \in q + 1 .. Len(path) : path[k] \in Delims
          /\ args[4] = Decimal[reg.cpus] /\ args[5] = reg.user
        BY <2>1, <2>2, <2>6, FieldsUnderstood, Zenon
    <3>2. entry.cpus = reg.cpus
      <4>1. Arg(4, 1) = [ok |-> TRUE, value |-> reg.cpus]
          BY <2>1, <3>1, ParseDecimal, Zenon DEF Arg
      <4> QED BY <2>4, <4>1
    <3>3. entry.user = reg.user
      <4>1. /\ reg.user \in Seq(STRING)
            /\ \A k \in 1 .. Len(reg.user) :
                 reg.user[k] \notin Quotes /\ reg.user[k] \notin Blanks
          BY <2>1, WireAssumption, Zenon
      <4>2. Clean(reg.user) = reg.user
          BY <4>1, CleanPlain, Zenon
      <4> QED BY <2>4, <3>1, <4>2, Zenon
    <3>4. ASSUME ~ Has(path, Quotes \cup Blanks)
          PROVE  /\ entry.iwd = SubSeq(path, 1, Len(entry.iwd))
                 /\ \A k \in Len(entry.iwd) + 1 .. Len(path) : path[k] \in Delims
      <4>1. PICK q \in 1 .. Len(path) : /\ args[3] = SubSeq(path, 1, q)
                                        /\ \A k \in q + 1 .. Len(path) : path[k] \in Delims
          BY <3>1, Zenon
      <4>2. PICK f : f = SubSeq(path, 1, q)
          OBVIOUS
      <4>3. f \in Seq(Chars) /\ Len(f) = q /\ \A k \in 1 .. q : f[k] = path[k]
        <5>1. \A k \in 1 .. q : path[k] \in Chars
            BY <2>1, ElementOfSeq, LenProperties
        <5>2. q \in Int /\ 1 \in Int
            BY <2>1, LenProperties
        <5>3. /\ SubSeq(path, 1, q) \in Seq(Chars)
              /\ Len(SubSeq(path, 1, q)) = IF 1 <= q THEN q - 1 + 1 ELSE 0
              /\ \A k \in 1 .. q - 1 + 1 : SubSeq(path, 1, q)[k] = path[1 + k - 1]
            BY <5>1, <5>2, SubSeqProperties
        <5>4. q >= 1 /\ q - 1 + 1 = q /\ \A k \in 1 .. q : 1 + k - 1 = k
            BY <2>1, LenProperties
        <5> QED BY <4>2, <5>3, <5>4
      <4>4. \A k \in 1 .. Len(path) : path[k] \notin Quotes /\ path[k] \notin Blanks
          BY <3>4, Zenon DEF Has
      <4>5. \A k \in 1 .. q : k \in 1 .. Len(path)
          BY <2>1, LenProperties
      <4>6. \A k \in 1 .. Len(f) : f[k] \notin Quotes /\ f[k] \notin Blanks
          BY <4>3, <4>4, <4>5, Zenon
      <4>7. Clean(f) = f
          BY <4>3, <4>6, CleanPlain, Zenon
      <4>8. entry.iwd = f
          BY <2>4, <4>1, <4>2, <4>7, Zenon
      <4> QED BY <4>1, <4>2, <4>3, <4>8, Zenon
    <3> QED BY <3>2, <3>3, <3>4
  <2> QED BY <2>5, <2>6
<1> QED BY <1>1, WireInvHolds, PTL

\* Nothing that the code could have understood is rejected: a slave in a
\* directory without delimiters, of any name and length that fits, is entered
\* unless a stray delimiter is in its message.
THEOREM PlainIsEntered == WireSpec => []PlainEntered
<1>1. WireInv => PlainEntered
  <2> SUFFICES ASSUME WireInv, stage = "rejected", Fits, NoStray, reg.rank < NumProcs,
                      ~ Has(path, Delims)
               PROVE  FALSE
      BY DEF PlainEntered
  <2>1. /\ stage # "path" /\ ~ Acceptable /\ reg.rank \in Nat
        /\ args = Strsplit(Delims \cup extra, msg)
      BY DEF WireInv, Received, Sent
  <2>2. Len(args) = 5 /\ args[1] = Decimal[CMD_REGISTER] /\ args[2] = Decimal[reg.rank]
      BY <2>1, FieldsUnderstood, Zenon
  <2>3. CMD_REGISTER \in Nat
      BY DEF CMD_REGISTER
  <2>4. Arg(1, 0) = [ok |-> TRUE, value |-> CMD_REGISTER]
      BY <2>2, <2>3, ParseDecimal, Zenon DEF Arg
  <2>5. Arg(2, 0) = [ok |-> TRUE, value |-> reg.rank]
      BY <2>1, <2>2, ParseDecimal, Zenon DEF Arg
  <2>6. reg.rank \in 0 .. NumProcs - 1
      BY <2>1, WireAssumption
  <2>7. /\ Arg(1, 0).ok /\ Arg(1, 0).value = CMD_REGISTER
        /\ Arg(2, 0).ok /\ Arg(2, 0).value = reg.rank
      BY <2>4, <2>5
  <2>8. Acceptable
      BY <2>2, <2>6, <2>7, Zenon DEF Acceptable
  <2> QED BY <2>1, <2>8
<1> QED BY <1>1, WireInvHolds, PTL

-----------------------------------------------------------------------------
(***************************************************************************)
(* Paths and addresses.                                                    *)
(***************************************************************************)

\* A path that is extended by characters is a string of them.
LEMMA PathIsString == WireSpec => [](path \in Seq(Chars))
<1>1. WireInit => path \in Seq(Chars)
    BY DEF WireInit
<1>2. path \in Seq(Chars) /\ [WireNext]_wireVars => (path \in Seq(Chars))'
  <2> SUFFICES ASSUME path \in Seq(Chars), [WireNext]_wireVars
               PROVE  path' \in Seq(Chars)
      OBVIOUS
  <2>1. ASSUME NEW c \in Chars, Extend(c) PROVE path' \in Seq(Chars)
      BY <2>1 DEF Extend
  <2>2. ASSUME NEW r, NEW n, NEW u, RegisterCmd(r, n, u) PROVE path' = path
      BY <2>2 DEF RegisterCmd
  <2>3. ASSUME NEW more, ReceiveRegister(more) PROVE path' = path
      BY <2>3 DEF ReceiveRegister
  <2>4. EnterRegister \/ UNCHANGED wireVars => path' = path
      BY DEF EnterRegister, wireVars
  <2> QED BY <2>1, <2>2, <2>3, <2>4 DEF WireNext
<1> QED BY <1>1, <1>2, PTL DEF WireSpec

\* Whatever directory a wrapper starts in, the files of its scratch directory
\* are in it: join_paths gives the path without slashes at its end, one slash
\* and the name, and nothing else.
THEOREM PathsAreJoined == WireSpec => []JoinedPath
<1>1. path \in Seq(Chars) => JoinedPath
  <2> SUFFICES ASSUME path \in Seq(Chars), NEW name \in Users, path # << >>
               PROVE  \E joined \in JoinPaths(path, name, Stray) :
                        LET dir == Len(joined) - Len(name) - 1 IN
                        /\ JoinPaths(path, name, Stray) = {joined}
                        /\ SubSeq(joined, dir + 1, Len(joined)) = <<"/">> \o name
                        /\ dir \in 1 .. Len(path)
                        /\ SubSeq(joined, 1, dir) = SubSeq(path, 1, dir)
                        /\ \A k \in dir + 1 .. Len(path) : path[k] \in Slashes
      BY DEF JoinedPath
  <2> DEFINE S == Chars \cup STRING \cup {"/"}
  <2>1. /\ path \in Seq(S) /\ name \in Seq(S) /\ <<"/">> \in Seq(S)
        /\ name # << >> /\ name[1] \notin Slashes
    <3>1. name \in Seq(STRING) /\ name # << >> /\ name[1] \notin Slashes
        BY WireAssumption
    <3>2. Chars \subseteq S /\ STRING \subseteq S /\ "/" \in S
        BY Zenon
    <3> HIDE DEF S
    <3>3. path \in Seq(S)
        BY <3>2, StringsOver
    <3>4. name \in Seq(S)
        BY <3>1, <3>2, StringsOver
    <3>5. <<"/">> \in Seq(S)
        BY <3>2
    <3> QED BY <3>1, <3>3, <3>4, <3>5
  <2> HIDE DEF S
  <2>2. PICK dir \in 1 .. Len(path) :
          /\ JoinPaths(path, name, Stray) = {SubSeq(path, 1, dir) \o <<"/">> \o name}
          /\ \A k \in dir + 1 .. Len(path) : path[k] \in Slashes
      BY <2>1, JoinPathsRight
  <2> DEFINE front  == SubSeq(path, 1, dir)
             rest   == <<"/">> \o name
             joined == front \o rest
  <2>3. front \in Seq(S) /\ Len(front) = dir /\ dir \in Nat /\ dir >= 1
    <3>1. \A k \in 1 .. dir : path[k] \in S
        BY <2>1, ElementOfSeq, LenProperties
    <3>2. 1 \in Int /\ dir \in Int /\ 1 <= dir
        BY <2>1, LenProperties
    <3> QED BY <3>1, <3>2, SubSeqProperties
  <2>4. rest \in Seq(S) /\ Len(rest) = Len(name) + 1 /\ Len(name) \in Nat
    <3>1. Len(<<"/">>) = 1
        OBVIOUS
    <3>2. Len(name) \in Nat
        BY <2>1, LenProperties
    <3> QED BY <2>1, <3>1, <3>2, ConcatProperties
  <2> HIDE DEF front, rest
  <2>5. SubSeq(path, 1, dir) \o <<"/">> \o name = joined
    <3>1. front \o <<"/">> \o name = front \o (<<"/">> \o name)
        BY <2>1, <2>3, ConcatAssociative
    <3> QED BY <3>1 DEF front, rest
  <2>6. joined \in Seq(S) /\ Len(joined) = dir + Len(name) + 1
    <3>1. Len(joined) = Len(front) + Len(rest)
        BY <2>3, <2>4, ConcatProperties
    <3>2. joined \in Seq(S)
        BY <2>3, <2>4, ConcatProperties
    <3> QED BY <2>3, <2>4, <3>1, <3>2
  <2>7. Len(joined) - Len(name) - 1 = dir
      BY <2>3, <2>4, <2>6
  <2>8. SubSeq(joined, 1, dir) = front
    <3>1. SubSeq(front \o rest, 1, dir) = SubSeq(front, 1, dir)
        BY <2>3, <2>4, SubSeqOfConcat1
    <3>2. SubSeq(front, 1, dir) = front
        BY <2>3, SubSeqFull
    <3> QED BY <3>1, <3>2
  <2>9. SubSeq(joined, dir + 1, Len(joined)) = rest
    <3>1. SubSeq(front \o rest, dir + 1, dir + Len(rest)) = SubSeq(rest, 1, Len(rest))
      <4>1. /\ dir + 1 \in Len(front) + 1 .. Len(front) + Len(rest)
            /\ dir + Len(rest) \in Len(front) + 1 .. Len(front) + Len(rest)
            /\ dir + 1 - Len(front) = 1
            /\ dir + Len(rest) - Len(front) = Len(rest)
          BY <2>3, <2>4
      <4> DEFINE a == dir + 1
                 b == dir + Len(rest)
      <4> HIDE DEF a, b
      <4>2. SubSeq(front \o rest, a, b) = SubSeq(rest, a - Len(front), b - Len(front))
        <5>1. /\ a \in Len(front) + 1 .. Len(front) + Len(rest)
              /\ b \in Len(front) + 1 .. Len(front) + Len(rest)
            BY <4>1 DEF a, b
        <5> QED BY <2>3, <2>4, <5>1, SubSeqOfConcat2, Zenon
      <4> QED BY <4>1, <4>2 DEF a, b
    <3>2. SubSeq(rest, 1, Len(rest)) = rest
        BY <2>4, SubSeqFull
    <3>3. Len(joined) = dir + Len(rest)
        BY <2>3, <2>4, <2>6
    <3> QED BY <3>1, <3>2, <3>3
  <2> HIDE DEF joined
  <2>10. joined \in JoinPaths(path, name, Stray) /\ JoinPaths(path, name, Stray) = {joined}
      BY <2>2, <2>5
  <2> WITNESS joined \in JoinPaths(path, name, Stray)
  <2> QED BY <2>2, <2>7, <2>8, <2>9, <2>10 DEF front, rest
<1> QED BY <1>1, PathIsString, PTL

\* An address of any length that the master publishes between quotes is read
\* back as it was, its last character included.
THEOREM PublishedIsReadBack == WireSpec => []PublishedReadBack
<1>1. path \in Seq(Chars) => PublishedReadBack
  <2> SUFFICES ASSUME path \in Seq(Chars), ~ Has(path, Quotes \cup Blanks)
               PROVE  Clean(<<DoubleQuote>> \o path \o <<DoubleQuote>>) = path
      BY DEF PublishedReadBack
  <2>1. \A k \in 1 .. Len(path) : path[k] \notin Quotes /\ path[k] \notin Blanks
      BY DEF Has
  <2>2. PICK c \in Quotes : c = DoubleQuote
      BY DEF Quotes
  <2>3. RemoveQuotes(<<DoubleQuote>> \o path \o <<DoubleQuote>>) = path
    <3>1. PICK b : b = <<c>>
        OBVIOUS
    <3>2. PICK q : q = b \o path
        OBVIOUS
    <3>3. PICK s : s = q \o b
        OBVIOUS
    <3>4. /\ Len(s) = Len(path) + 2 /\ s[1] = c /\ s[Len(path) + 2] = c
          /\ \A k \in 1 .. Len(path) : s[k + 1] = path[k]
        BY <3>1, <3>2, <3>3, Between
    <3>5. RemoveQuotes(s) = path
        BY <2>1, <3>4, QuotedRead
    <3> QED BY <2>2, <3>1, <3>2, <3>3, <3>5, Zenon
  <2>4. Trim(path) = path
      BY <2>1, TrimRight
  <2> QED BY <2>3, <2>4, Zenon DEF Clean
<1> QED BY <1>1, PathIsString, PTL
=============================================================================
