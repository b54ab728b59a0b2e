------------------------------- MODULE Parser -------------------------------
(***************************************************************************)
(* Parser::parse: a line becomes a command and its parameters.  A line is  *)
(* a sequence of characters; of the letters one is enough, in both cases.  *)
(***************************************************************************)
EXTENDS Integers, Sequences, SequencesExt

CONSTANT MaxParams   \* MAX_PARAMS, 15 in the code

ASSUME ParserAssumption == MaxParams \in Nat \ {0}

ToUpper(s) == [k \in DOMAIN s |-> IF s[k] = "a" THEN "A" ELSE s[k]]

(* The loops that advance pos to a space, or past the spaces.              *)
Reach(line, p, stops) ==
  LET q == SelectInSubSeq(line, p, Len(line), LAMBDA c : c \in stops)
  IN  IF q = 0 THEN Len(line) + 1 ELSE q
SpaceFrom(line, p) == Reach(line, p, {" "})
WordFrom(line, p)  == Reach(line, p, Range(line) \ {" "})

(* Where the command starts: behind a prefix, but never behind spaces.     *)
CommandStart(line) ==
  IF line # <<>> /\ line[1] = ":" THEN WordFrom(line, SpaceFrom(line, 1)) ELSE 1

BadEnough(n) == n >= MaxParams - 1
Enough(n)    == n >= MaxParams

BadTrailing(line, p) == SubSeq(line, p, Len(line))
Trailing(line, p)    == SubSeq(line, p + 1, Len(line))

(* The parameters from position p on, when n have been read already.       *)
Params(line, start) ==
  LET from[n \in 0..MaxParams] == [p \in 1..Len(line) + 1 |->
        LET q == WordFrom(line, p)
            r == SpaceFrom(line, q)
        IN  IF q > Len(line) \/ Enough(n) THEN <<>>
            ELSE IF line[q] = ":" THEN <<Trailing(line, q)>>
            ELSE <<SubSeq(line, q, r - 1)>> \o from[n + 1][r]]
  IN  from[0][start]

NoMessage == [command |-> <<>>, params |-> <<>>]

Parse(line) ==
  LET start == CommandStart(line)
      end   == SpaceFrom(line, start)
  IN  IF end = start THEN NoMessage
      ELSE [command |-> ToUpper(SubSeq(line, start, end - 1)),
            params  |-> Params(line, end)]
=============================================================================
