---------------------------- MODULE Numbers ----------------------------
(* Destinations, prefixes and the number rules of a carrier.  The code  *)
(* holds five copies of the longest-prefix search; each has its own     *)
(* operator here, so that they can be compared.  A number is a sequence *)
(* of characters, a sender ID too; a table of rows is a sequence, because a SELECT       *)
(* without ORDER BY gives its rows in any order.                        *)
EXTENDS Integers, Sequences, SequencesExt, FiniteSets

Digits == {"0", "1", "2", "3"}

\* The letters a sender ID is written with, and their upper case.
UpperCase == [a |-> "A", b |-> "B"]
Letters == {"a", "b", "A", "B"}

\* The prefix '*' of a row that matches what no other row matches.
CatchAll == <<"*">>

NoRow == [prefix |-> <<>>]

normalizeDestination(to) == SelectSeq(to, LAMBDA c : c \in Digits)

\* A deviation: lengths are not compared, and a later, shorter row wins.
VisitShorter(found, row, dst) ==
  IF row.prefix = CatchAll
  THEN [found EXCEPT !.catchAll = IF @ = NoRow THEN row ELSE @]
  ELSE IF IsPrefix(row.prefix, dst)
       THEN [found EXCEPT !.best = row, !.length = Len(row.prefix)]
       ELSE found

\* One turn of the loop: the first catch-all, and the first of the longest.
Visit(found, row, dst) ==
  IF row.prefix = CatchAll
  THEN [found EXCEPT !.catchAll = IF @ = NoRow THEN row ELSE @]
  ELSE IF IsPrefix(row.prefix, dst) /\ Len(row.prefix) > found.length
       THEN [found EXCEPT !.best = row, !.length = Len(row.prefix)]
       ELSE found

Nothing == [best |-> NoRow, catchAll |-> NoRow, length |-> -1]

Pick(found) == IF found.best # NoRow THEN found.best ELSE found.catchAll

\* What was found after so many rows.
longestPrefix(rows, to) ==
  LET found[i \in 0 .. Len(rows)] ==
        IF i = 0 THEN Nothing
        ELSE Visit(found[i - 1], rows[i], normalizeDestination(to))
  IN  Pick(found[Len(rows)])

longestPrefixRoute(rows, to) == longestPrefix(rows, to)
longestPrefixRate(rows, to) == longestPrefix(rows, to)

\* A deviation: the first row that matches, as if rows came longest first.
FirstMatch(rows, to) ==
  LET fits == SelectSeq(rows, LAMBDA r : r.prefix = CatchAll
                                      \/ IsPrefix(r.prefix, normalizeDestination(to)))
  IN  IF fits = <<>> THEN NoRow ELSE Head(fits)

simulationLongestPrefixRoute(rows, to) == longestPrefix(rows, to)

\* The fifth, used by tests alone, is given inactive rows too.
LongestPrefixMatch(rows, to) ==
  LET found[i \in 0 .. Len(rows)] ==
        IF i = 0 THEN Nothing
        ELSE IF rows[i].status = "active"
             THEN Visit(found[i - 1], rows[i], normalizeDestination(to))
             ELSE found[i - 1]
  IN  Pick(found[Len(rows)])

\* A deviation: the loss check takes the first match it meets.
LossTurnFirst(found, row, dst) ==
  IF found.row = NoRow /\ (row.prefix = CatchAll \/ IsPrefix(row.prefix, dst))
  THEN [row |-> row, length |-> 1] ELSE found

\* The search inside the loss check: a later catch-all replaces an earlier one.
LossTurn(found, row, dst) ==
  IF row.prefix = CatchAll
  THEN IF found.length < 0 THEN [found EXCEPT !.row = row] ELSE found
  ELSE IF IsPrefix(row.prefix, dst) /\ Len(row.prefix) > found.length
       THEN [row |-> row, length |-> Len(row.prefix)]
       ELSE found

\* It is handed the destination already normalized.
LossRow(rows, dst) ==
  LET found[i \in 0 .. Len(rows)] ==
        IF i = 0 THEN [row |-> NoRow, length |-> -1]
        ELSE LossTurn(found[i - 1], rows[i], dst)
  IN  found[Len(rows)].row

---------------------------------------------------------------------------
\* What a rate table and a route table promise: the row of the longest prefix
\* of the digits, and the catch-all only when there is none.
Answers(rows, to, row) ==
  LET dst == normalizeDestination(to)
      fits == {r \in rows : r.prefix # CatchAll /\ IsPrefix(r.prefix, dst)}
  IN  \/ row \in fits /\ \A r \in fits : Len(r.prefix) <= Len(row.prefix)
      \/ fits = {} /\ row \in {r \in rows : r.prefix = CatchAll}
      \/ fits = {} /\ row = NoRow /\ \A r \in rows : r.prefix # CatchAll

\* Two active rows of one prefix: the date windows of a rate may overlap.
HasTwins(rows) ==
  \E r, s \in rows : r # s /\ r.prefix = s.prefix

---------------------------------------------------------------------------
TrimLeft(s, c) ==
  LET first == SelectInSeq(s, LAMBDA d : d # c)
  IN  IF first = 0 THEN <<>> ELSE SubSeq(s, first, Len(s))

\* What a pattern matches, and what it becomes, is a table of the rule.
Rule(rule, number) ==
  CASE rule.type = "strip_leading_plus"  -> TrimLeft(number, "+")
    [] rule.type = "strip_leading_zeros" -> TrimLeft(number, "0")
    [] rule.type = "strip_digits"        -> SelectSeq(number, LAMBDA c : c \notin Digits)
    [] rule.type = "strip_alpha"         -> SelectSeq(number, LAMBDA c : c \notin Letters)
    [] rule.type = "strip_symbols"       -> SelectSeq(number, LAMBDA c : c \in Digits \cup Letters)
    [] rule.type = "uppercase"           -> [i \in DOMAIN number |->
                                               IF number[i] \in DOMAIN UpperCase
                                               THEN UpperCase[number[i]] ELSE number[i]]
    [] rule.type = "regex_replace"       -> IF number \in DOMAIN rule.becomes
                                            THEN rule.becomes[number] ELSE number
    [] rule.type = "add_prefix"          -> IF IsPrefix(rule.prefix, number) THEN number
                                            ELSE rule.prefix \o number

\* A carrier's list, each rule on what the one before it left.
Translate(rules, number) ==
  LET after[i \in 0 .. Len(rules)] ==
        IF i = 0 THEN number ELSE Rule(rules[i], after[i - 1])
  IN  after[Len(rules)]
========================================================================
