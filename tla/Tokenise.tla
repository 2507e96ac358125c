------------------------------ MODULE Tokenise ------------------------------
(***************************************************************************)
(* tokenize and getUniqVars of tokenisation.c, character by character: the *)
(* tokens are counted by one loop and cut out by strtok, and the names are *)
(* compared up to a fixed number of characters.  A character is a string   *)
(* of length one and a C string the sequence of its characters before the  *)
(* terminating NUL.                                                        *)
(***************************************************************************)
EXTENDS Naturals, Sequences

CONSTANTS
  Texts,        \* the arguments: sequences of characters
  MAX_VAR_LEN,
  MAX_OP_LEN

BLANK == " "
NUL == "NUL"

\* Room for the two letters of an operator of CTL and the NUL behind them.
ASSUME Lengths == MAX_VAR_LEN \in Nat \ {0} /\ MAX_OP_LEN \in Nat /\ MAX_OP_LEN > 2

\* A C string ends at its first NUL.
ASSUME Terminated == Texts \subseteq Seq(STRING \ {NUL})

NoToken == <<NUL>>   \* the NULL that strtok returns when nothing is left

Operators ==
  {<<c>> : c \in {"+", ".", "^", "!", "="}}
    \cup {<<q, t>> : q \in {"E", "A"}, t \in {"X", "F", "G", "U"}}

VARIABLES
  string,     \* the copy of the argument
  chr,        \* the next character of the counting loop
  outside, count,
  token,      \* what strtok returned last
  rest,       \* where strtok goes on
  tokens,     \* the tokens stored, i of them
  seenVars,   \* the names getUniqVars has collected
  next,       \* the token getUniqVars looks at
  pc          \* "count", "split", "unique", "returned" or "exit2"

vars == <<string, chr, outside, count, token, rest, tokens, seenVars, next, pc>>

-----------------------------------------------------------------------------
\* strncmp(a, b, n) = 0: nothing is compared behind a NUL.
Compared(s, n) == IF Len(s) < n THEN Append(s, NUL) ELSE SubSeq(s, 1, n)
SameUpTo(a, b, n) == Compared(a, n) = Compared(b, n)

\* strncpy: the string read back from a buffer of n characters.
Copied(s, n) == IF Len(s) < n THEN s ELSE SubSeq(s, 1, n)

\* One character less compared: the NUL behind a two-letter operator is not.
isOperator_NulLeftOut(t) == \E o \in Operators : SameUpTo(t, o, MAX_OP_LEN - 1)

isOperator(t) == \E o \in Operators : SameUpTo(t, o, MAX_OP_LEN)

\* The first position from p on with, or without, a blank.
BlankFrom(p) ==
  CHOOSE q \in p..(Len(string) + 1) :
    /\ q > Len(string) \/ string[q] = BLANK
    /\ \A k \in p..(q-1) : string[k] # BLANK

WordFrom(p) ==
  CHOOSE q \in p..(Len(string) + 1) :
    /\ q > Len(string) \/ string[q] # BLANK
    /\ \A k \in p..(q-1) : string[k] = BLANK

\* strtok(string, " ") from position p: a blank that ends a token is consumed.
Strtok(p) ==
  LET start == WordFrom(p)
      end   == BlankFrom(start)
  IN  IF start > Len(string)
      THEN /\ token' = NoToken
           /\ rest' = start
      ELSE /\ token' = SubSeq(string, start, end - 1)
           /\ rest' = IF end > Len(string) THEN end ELSE end + 1

-----------------------------------------------------------------------------
Init ==
  /\ string \in Texts
  /\ chr = 1 /\ outside = TRUE /\ count = 0
  /\ token = NoToken /\ rest = 1
  /\ tokens = <<>>
  /\ seenVars = <<>> /\ next = 1
  /\ pc = "count"

\* outside never set again, so that only the first token is counted.
CountChar_StaysInside ==
  /\ pc = "count"
  /\ chr <= Len(string)
  /\ chr' = chr + 1
  /\ count' = IF outside /\ string[chr] # BLANK THEN count + 1 ELSE count
  /\ outside' = (outside /\ string[chr] = BLANK)
  /\ UNCHANGED <<string, token, rest, tokens, seenVars, next, pc>>

\* A blank counted as well as the word before it.
CountChar_BlanksCounted ==
  /\ pc = "count"
  /\ chr <= Len(string)
  /\ chr' = chr + 1
  /\ count' = IF outside # (string[chr] = BLANK) THEN count + 1 ELSE count
  /\ outside' = (string[chr] = BLANK)
  /\ UNCHANGED <<string, token, rest, tokens, seenVars, next, pc>>

CountChar ==
  /\ pc = "count"
  /\ chr <= Len(string)
  /\ chr' = chr + 1
  /\ count' = IF outside /\ string[chr] # BLANK THEN count + 1 ELSE count
  /\ outside' = (string[chr] = BLANK)
  /\ UNCHANGED <<string, token, rest, tokens, seenVars, next, pc>>

CountDone ==
  /\ pc = "count"
  /\ chr > Len(string)
  /\ Strtok(1)
  /\ pc' = "split"
  /\ UNCHANGED <<string, chr, outside, count, tokens, seenVars, next>>

\* While tokens are due, strtok must have one: with NULL nothing that follows
\* is defined (see TokensKeepUp).

Store ==
  /\ pc = "split"
  /\ Len(tokens) < count
  /\ token # NoToken
  /\ Len(token) < MAX_VAR_LEN
  /\ tokens' = Append(tokens, Copied(token, MAX_VAR_LEN))
  /\ Strtok(rest)
  /\ UNCHANGED <<string, chr, outside, count, seenVars, next, pc>>

TooLong ==
  /\ pc = "split"
  /\ Len(tokens) < count
  /\ token # NoToken
  /\ Len(token) >= MAX_VAR_LEN
  /\ pc' = "exit2"
  /\ UNCHANGED <<string, chr, outside, count, token, rest, tokens, seenVars, next>>

SplitDone ==
  /\ pc = "split"
  /\ Len(tokens) = count
  /\ pc' = "unique"
  /\ UNCHANGED <<string, chr, outside, count, token, rest, tokens, seenVars, next>>

\* One turn of the loop of getUniqVars, which main.c and check call next.
Collect ==
  /\ pc = "unique"
  /\ next <= Len(tokens)
  /\ next' = next + 1
  /\ seenVars' =
       IF \/ isOperator(tokens[next])
          \/ \E k \in DOMAIN seenVars : SameUpTo(seenVars[k], tokens[next], MAX_VAR_LEN)
       THEN seenVars
       ELSE Append(seenVars, Copied(tokens[next], MAX_VAR_LEN))
  /\ UNCHANGED <<string, chr, outside, count, token, rest, tokens, pc>>

CollectDone ==
  /\ pc = "unique"
  /\ next > Len(tokens)
  /\ pc' = "returned"
  /\ UNCHANGED <<string, chr, outside, count, token, rest, tokens, seenVars, next>>

Next ==
  \/ CountChar \/ CountDone \/ Store \/ TooLong \/ SplitDone
  \/ Collect \/ CollectDone

Spec == Init /\ [][Next]_vars

-----------------------------------------------------------------------------
\* The counting loop and strtok agree on what a token is, wherever the blanks
\* are: strtok never runs out of tokens that were counted, and none that it
\* could find is left when the count is reached (tokenisation.c:73).
TokensKeepUp ==
  /\ pc = "split" => (Len(tokens) < count <=> token # NoToken)
  /\ pc \in {"unique", "returned"} => \A p \in rest..Len(string) : string[p] = BLANK

\* The bounded comparisons lose nothing: a token is taken for an operator only
\* if it is one, and two names only if they are the same name.
ComparisonsAreExact ==
  pc = "returned" =>
    /\ {seenVars[k] : k \in DOMAIN seenVars}
         = {tokens[k] : k \in DOMAIN tokens} \ Operators
    /\ \A j, k \in DOMAIN seenVars : seenVars[j] = seenVars[k] => j = k

-----------------------------------------------------------------------------
\* The characters strcpy and strcat put into the buffer at main.c:170-172 for
\* the primed counterpart of a name, the NUL among them.
PrimedSize(name) == Len(name) + 2

\* "maximum number of characters per variable name" (tokenisation.h:7): a name
\* that tokenize accepts has a counterpart that the buffer for it can hold.
PrimedNameFits ==
  \A k \in DOMAIN tokens :
    tokens[k] \notin Operators => PrimedSize(tokens[k]) <= MAX_VAR_LEN
=============================================================================
