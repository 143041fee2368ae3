----------------------------- MODULE StringUtil -----------------------------
(***************************************************************************)
(* string_util.c: the functions on which every message and every attribute *)
(* of the job ad depends.  A string is the sequence of its characters up   *)
(* to the terminating NUL.                                                 *)
(***************************************************************************)
EXTENDS Integers, Sequences, FiniteSetsExt

DoubleQuote == "\""
Quotes == {DoubleQuote, "'"}
Blanks == {" ", "\t", "\n", "\r"}
Slashes == {"/", "\\"}
Digits == <<"0", "1", "2", "3", "4", "5", "6", "7", "8", "9">>

\* Mutant: a delimiter at the end still starts a token.
CountTokensEnd(delims, s) ==
  LET Step(st, c) ==
        [n |-> IF c \in delims /\ ~ st.last THEN st.n + 1 ELSE st.n, last |-> c \in delims]
      scan[k \in 0 .. Len(s)] ==
        IF k = 0 THEN [n |-> 1, last |-> FALSE] ELSE Step(scan[k - 1], s[k])
  IN  scan[Len(s)].n

\* The number of tokens, by which strsplit allocates its array.
CountTokens(delims, s) ==
  LET Step(st, c) ==
        [n |-> IF c \in delims /\ ~ st.last THEN st.n + 1 ELSE st.n, last |-> c \in delims]
      scan[k \in 0 .. Len(s)] ==
        IF k = 0 THEN [n |-> 1, last |-> FALSE] ELSE Step(scan[k - 1], s[k])
      end == scan[Len(s)]
  IN  IF end.last THEN end.n - 1 ELSE end.n

\* The tokens that strsplit stores in the array.
Strsplit(delims, s) ==
  LET Step(st, k) ==
        CASE s[k] \notin delims -> [st EXCEPT !.last = FALSE]
          [] s[k] \in delims /\ st.last -> [st EXCEPT !.start = k + 1]
          [] OTHER -> [strings |-> Append(st.strings, SubSeq(s, st.start, k - 1)),
                       start |-> k + 1, last |-> TRUE]
      scan[k \in 0 .. Len(s)] ==
        IF k = 0 THEN [strings |-> << >>, start |-> 1, last |-> FALSE]
        ELSE Step(scan[k - 1], k)
      end == scan[Len(s)]
  IN  IF end.last THEN end.strings
      ELSE Append(end.strings, SubSeq(s, end.start, Len(s)))

\* Mutant: nothing is cut off.
RemoveQuotesUncut(s) ==
  LET Skip(i) == IF s[i] \in Quotes THEN i + 1 ELSE i
      turn[i \in 1 .. Len(s) + 2] ==
        IF i > Len(s) THEN << >> ELSE <<Skip(i)>> \o turn[Skip(i) + 1]
      from == turn[1]
  IN  [k \in 1 .. Len(from) |-> s[IF from[k] > Len(s) THEN k ELSE from[k]]]

\* Each turn of the loop skips at most one quote and copies the character
\* after it, if there is one.  If fewer turns were made than the string has
\* characters, the last turn's character is cut off: it is taken for the
\* turn that found nothing after the closing quote.
RemoveQuotes(s) ==
  LET Skip(i) == IF s[i] \in Quotes THEN i + 1 ELSE i
      turn[i \in 1 .. Len(s) + 2] ==
        IF i > Len(s) THEN << >> ELSE <<Skip(i)>> \o turn[Skip(i) + 1]
      from == turn[1]
  IN  IF Len(from) = Len(s) THEN s
      ELSE [k \in 1 .. Len(from) - 1 |-> s[from[k]]]

Trim(s) ==
  LET kept == {i \in 1 .. Len(s) : s[i] \notin Blanks}
  IN  IF kept = {} THEN << >> ELSE SubSeq(s, Min(kept), Max(kept))

Clean(s) == Trim(RemoveQuotes(s))

IsDigit(c) == \E d \in 1 .. 10 : Digits[d] = c
DigitValue(c) == CHOOSE d \in 0 .. 9 : Digits[d + 1] = c

\* The number that digits stand for.
NumberOf(t) ==
  LET value[k \in 0 .. Len(t)] ==
        IF k = 0 THEN 0 ELSE 10 * value[k - 1] + DigitValue(t[k])
  IN  value[Len(t)]

\* strtol in base 10: blanks, a sign and the digits up to the first other
\* character.  Without a digit parse_integer fails and leaves value alone.
\* (The width of the result is the concern of Arguments.)
ParseInteger(s, value) ==
  LET body   == Min({k \in 1 .. Len(s) : s[k] \notin Blanks} \cup {Len(s) + 1})
      signed == body <= Len(s) /\ s[body] \in {"-", "+"}
      first  == IF signed THEN body + 1 ELSE body
      last   == Min({k \in first .. Len(s) : ~ IsDigit(s[k])} \cup {Len(s) + 1}) - 1
      number == NumberOf(SubSeq(s, first, last))
  IN  IF last < first THEN [ok |-> FALSE, value |-> value]
      ELSE [ok |-> TRUE, value |-> IF s[body] = "-" THEN - number ELSE number]

\* %d
Decimal[n \in Nat] ==
  IF n < 10 THEN <<Digits[n + 1]>> ELSE Append(Decimal[n \div 10], Digits[(n % 10) + 1])

\* The possible results of join_paths.  The terminator is put as many places
\* too far as leading slashes were dropped from the second path; what these
\* places hold was never written.
JoinPaths(path1, path2, garbage) ==
  LET ends   == {i \in 1 .. Len(path1) : i = 1 \/ path1[i] \notin Slashes}
      starts == {i \in 1 .. Len(path2) : path2[i] \notin Slashes}
      start  == IF starts = {} THEN Len(path2) ELSE Min(starts) - 1
      right  == SubSeq(path1, 1, IF ends = {} THEN 0 ELSE Max(ends)) \o <<"/">>
                  \o SubSeq(path2, start + 1, Len(path2))
  IN  {right \o g : g \in UNION {[1 .. n -> garbage] : n \in 0 .. start}}
=============================================================================
