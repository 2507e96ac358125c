----------------------------- MODULE MCTokenise -----------------------------
(***************************************************************************)
(* Bounds of the TLC runs of Tokenise, and the words of a text in the      *)
(* order in which they stand, without counting or cutting.                 *)
(***************************************************************************)
EXTENDS Tokenise, FiniteSets

TextsOver(C, lengths) == UNION {[1..n -> C] : n \in lengths}

\* Letters that make operators, names that start like operators, and names.
MCTexts == TextsOver({BLANK, "E", "X"}, 0..8)

\* A name of each admissible length.
MCNames == TextsOver({"x"}, 1..MAX_VAR_LEN) \cup TextsOver({BLANK, "x"}, {7})

WordStarts ==
  {p \in DOMAIN string : /\ string[p] # BLANK
                         /\ p > 1 => string[p-1] = BLANK}

WordAt(p) ==
  LET inside == {q \in p..Len(string) : \A k \in p..q : string[k] # BLANK}
  IN  SubSeq(string, p, CHOOSE q \in inside : \A k \in inside : k <= q)

\* How many words of the text begin no later than the one at p.
Rank(p) == Cardinality({q \in WordStarts : q <= p})

\* tokenize hands out the words of the text, in order; it gives up exactly
\* when one of them has no room.
TokensAreWords ==
  /\ pc \in {"unique", "returned"} =>
       /\ Len(tokens) = Cardinality(WordStarts)
       /\ \A p \in WordStarts : tokens[Rank(p)] = WordAt(p)
  /\ pc = "exit2" => \E p \in WordStarts : Len(WordAt(p)) >= MAX_VAR_LEN
=============================================================================
