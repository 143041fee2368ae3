-------------------------------- MODULE Wire --------------------------------
(***************************************************************************)
(* What a REGISTER says when it has been formatted, sent, split and parsed *)
(* again.  Its fields are put between colons as they are, so a working     *)
(* directory may hold a delimiter, a quote or a blank and may be too long  *)
(* for the message; the delimiters themselves are an array without its     *)
(* terminator, and what follows it in memory counts as delimiters too.     *)
(***************************************************************************)
EXTENDS StringUtil

CONSTANTS
  Chars,        \* characters of a path
  MaxLen,       \* bound: length of a path
  Ranks, Cpus, Users,  \* what slaves are
  NumProcs,     \* num_procs of the master
  MessageSize,  \* the size of the message, 1024 in the code
  Stray         \* characters that may follow the delimiters in memory

Delims == {":", "|"}

\* A user is a name of the password file, whose fields end at colons, made
\* of the characters that POSIX allows for a name.
ASSUME WireAssumption ==
  /\ MaxLen \in Nat /\ MessageSize \in Nat \ {0} /\ NumProcs \in Nat
  /\ Ranks \subseteq Nat /\ Cpus \subseteq Int
  /\ Users \subseteq Seq(STRING)
  /\ \A u \in Users : /\ u # << >> /\ u[1] \notin Slashes
                      /\ \A k \in 1 .. Len(u) : u[k] \notin Delims \cup Quotes \cup Blanks

MinOf(a, b) == IF a < b THEN a ELSE b

VARIABLES
  path,   \* a directory, as far as it has been chosen
  stage,  \* "path", "sent", "received", "entered" or "rejected"
  reg,    \* what the slave registers with: rank, cpus, user
  msg,    \* the datagram
  extra,  \* the stray delimiters of this listener
  args,   \* its parts
  entry   \* what handle_register enters: rank, iwd, cpus, user

wireVars == <<path, stage, reg, msg, extra, args, entry>>

Nothing == [rank |-> 0, cpus |-> 0, user |-> << >>]
NoEntry == [rank |-> 0, iwd |-> << >>, cpus |-> 0, user |-> << >>]
CMD_REGISTER == 14

WireInit ==
  /\ path = << >> /\ stage = "path" /\ reg = Nothing
  /\ msg = << >> /\ extra = {} /\ args = << >> /\ entry = NoEntry

\* Any path is an input.
Extend(c) ==
  /\ stage = "path" /\ Len(path) < MaxLen
  /\ path' = Append(path, c)
  /\ UNCHANGED <<stage, reg, msg, extra, args, entry>>

\* The text of a REGISTER, "%d:%d:%s:%d:%s", ...
RegisterText(r, n, u) ==
  Decimal[CMD_REGISTER] \o <<":">> \o Decimal[r] \o <<":">> \o path \o <<":">>
    \o Decimal[n] \o <<":">> \o u

\* ... and what snprintf makes of a text: what does not fit is left out.
Format(text) == SubSeq(text, 1, MinOf(Len(text), MessageSize - 1))

\* register_cmd.  getcwd gives an absolute path.
RegisterCmd(r, n, u) ==
  /\ stage = "path" /\ Len(path) > 0 /\ path[1] = "/"
  /\ reg' = [rank |-> r, cpus |-> IF n <= 0 THEN 1 ELSE n, user |-> u]
  /\ msg' = Format(RegisterText(r, reg'.cpus, u))
  /\ stage' = "sent"
  /\ UNCHANGED <<path, extra, args, entry>>

\* The listener splits what it received.
ReceiveRegister(more) ==
  /\ stage = "sent"
  /\ extra' = more
  /\ args' = Strsplit(Delims \cup more, msg)
  /\ stage' = "received"
  /\ UNCHANGED <<path, reg, msg, entry>>

Arg(i, value) == ParseInteger(args[i], value)

\* Mutant: any REGISTER that has all its fields is taken.
AcceptableMore ==
  /\ Len(args) >= 5
  /\ Arg(1, 0).ok /\ Arg(1, 0).value = CMD_REGISTER
  /\ Arg(2, 0).ok /\ Arg(2, 0).value \in 0 .. NumProcs - 1

\* Mutant: the last rank is out of range.
AcceptableLess ==
  /\ Arg(1, 0).ok /\ Arg(1, 0).value = CMD_REGISTER
  /\ Len(args) = 5
  /\ Arg(2, 0).ok /\ Arg(2, 0).value < NumProcs - 1

\* What process_message and handle_register ask of a REGISTER.
Acceptable ==
  /\ Arg(1, 0).ok /\ Arg(1, 0).value = CMD_REGISTER
  /\ Len(args) = 5
  /\ Arg(2, 0).ok /\ Arg(2, 0).value \in 0 .. NumProcs - 1

\* handle_register; Registration has its steps.
EnterRegister ==
  /\ stage = "received"
  /\ \/ /\ Acceptable
        /\ entry' = [rank |-> Arg(2, 0).value, iwd |-> Clean(args[3]),
                     cpus |-> Arg(4, 1).value, user |-> Clean(args[5])]
        /\ stage' = "entered"
     \/ /\ ~ Acceptable
        /\ stage' = "rejected"
        /\ UNCHANGED entry
  /\ UNCHANGED <<path, reg, msg, extra, args>>

WireNext ==
  \/ \E c \in Chars : Extend(c)
  \/ \E r \in Ranks, n \in Cpus, u \in Users : RegisterCmd(r, n, u)
  \/ \E more \in SUBSET Stray : ReceiveRegister(more)
  \/ EnterRegister

WireSpec == WireInit /\ [][WireNext]_wireVars

-----------------------------------------------------------------------------
(***************************************************************************)
(* Properties.                                                             *)
(***************************************************************************)

\* The type invariant.
WireTypeOK ==
  /\ path \in Seq(Chars) /\ Len(path) <= MaxLen
  /\ stage \in {"path", "sent", "received", "entered", "rejected"}
  /\ Len(msg) < MessageSize /\ extra \subseteq Stray
  /\ stage = "entered" => entry.rank \in 0 .. NumProcs - 1

\* Where the longest pieces of s without a delimiter begin, ...
Starts(delims, s) ==
  {k \in 1 .. Len(s) : s[k] \notin delims /\ (k = 1 \/ s[k - 1] \in delims)}

\* ... and the one that begins at k.
Piece(delims, s, k) ==
  LET last == CHOOSE j \in k .. Len(s) :
                /\ \A m \in k .. j : s[m] \notin delims
                /\ j = Len(s) \/ s[j + 1] \in delims
  IN  SubSeq(s, k, last)

\* For every string and whatever characters count as delimiters (those that
\* follow the unterminated array included), strsplit fills exactly the
\* array that count_tokens made it allocate: no handler meets a NULL token
\* and none is stored past the end.  Its tokens are the pieces between the
\* delimiters in their order, after an empty one if the string is empty or
\* begins with a delimiter.
SplitRight ==
  \A s \in {path, msg} : \A more \in SUBSET Stray :
    LET delims == Delims \cup more
        tokens == Strsplit(delims, s)
        starts == Starts(delims, s)
        lead   == IF s = << >> \/ s[1] \in delims THEN 1 ELSE 0
    IN  /\ Len(tokens) = CountTokens(delims, s)
        /\ Len(tokens) = lead + Cardinality(starts)
        /\ lead = 1 => tokens[1] = << >>
        /\ \A k \in starts :
             tokens[lead + Cardinality({j \in starts : j <= k})] = Piece(delims, s, k)

Fits == Len(RegisterText(reg.rank, reg.cpus, reg.user)) < MessageSize

NoStray == \A i \in 1 .. Len(msg) : msg[i] \notin extra

Has(s, chars) == \E i \in 1 .. Len(s) : s[i] \in chars

\* A REGISTER that is accepted is understood.  Its rank is the slave's even
\* if the message was cut off, so that no other rank's entry is taken.  If
\* it was not, cpus and user are right too, although the directory may hold
\* delimiters, and the directory up to delimiters at its end, unless quotes
\* or blanks are in it.  (No stray delimiter may be in the message.)
RegisterIntact ==
  stage = "entered" /\ NoStray =>
    /\ entry.rank = reg.rank
    /\ Fits => entry.cpus = reg.cpus /\ entry.user = reg.user
    /\ \/ ~ Fits \/ Has(path, Quotes \cup Blanks)
       \/ /\ entry.iwd = SubSeq(path, 1, Len(entry.iwd))
          /\ \A k \in Len(entry.iwd) + 1 .. Len(path) : path[k] \in Delims

\* A slave in a directory without delimiters whose REGISTER fits into the
\* message is entered, if the master expects its rank and no stray delimiter
\* is in the message.
PlainEntered ==
  stage = "rejected" /\ Fits /\ NoStray /\ reg.rank < NumProcs => Has(path, Delims)

\* An address that the master publishes between quotes is read back as it
\* was: get_chirp_string removes the quotes and keeps the last character.
PublishedReadBack ==
  ~ Has(path, Quotes \cup Blanks) =>
    Clean(<<DoubleQuote>> \o path \o <<DoubleQuote>>) = path

\* The files of the scratch directory are in it: for a name that does not
\* begin with a slash join_paths has one result, the path, one slash and the
\* name, even if the path ends in slashes or is "/".
JoinedPath ==
  \A name \in Users : path # << >> =>
    \E joined \in JoinPaths(path, name, Stray) :
      LET dir == Len(joined) - Len(name) - 1 IN
      /\ JoinPaths(path, name, Stray) = {joined}
      /\ SubSeq(joined, dir + 1, Len(joined)) = <<"/">> \o name
      /\ dir \in 1 .. Len(path) /\ SubSeq(joined, 1, dir) = SubSeq(path, 1, dir)
      /\ \A k \in dir + 1 .. Len(path) : path[k] \in Slashes
=============================================================================
