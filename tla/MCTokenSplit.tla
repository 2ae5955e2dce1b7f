--------------------------- MODULE MCTokenSplit ---------------------------
(* Instances of TokenSplit: documents as the lengths of their words and    *)
(* the spaces their text has beside one between each two words, counted by *)
(* the fallback heuristic of three characters a token.                     *)
EXTENDS TokenSplit, FiniteSetsExt

CONSTANTS Lengths, MaxWords, Pads, Sample

Texts == [lens : UNION {[1 .. n -> Lengths] : n \in 0 .. MaxWords},
          pad : Pads]

WordsOf == [d \in Texts |-> Len(d.lens)]

AtLeastOne(n) == IF n > 1 THEN n ELSE 1

(* Characters of words i+1 .. j, joined by single spaces.                  *)
Chars(d, i, j) ==
    IF i >= j THEN 0
    ELSE MapThenSumSet(LAMBDA k : d.lens[k], i + 1 .. j) + j - i - 1

Heuristic ==
    [d \in Texts |->
        [i \in 0 .. MaxWords |-> [j \in 0 .. MaxWords |->
            IF j > Len(d.lens) THEN 0 ELSE AtLeastOne(Chars(d, i, j) \div 3)]]]

WholeOf ==
    [d \in Texts |->
        AtLeastOne((Chars(d, 0, Len(d.lens)) + d.pad) \div 3)]

(* The guess: the budget over the tokens per word of the first words.      *)
GuessOf ==
    [d \in Texts |->
        LET n == IF Len(d.lens) < Sample THEN Len(d.lens) ELSE Sample
            w == AtLeastOne(n)
        IN  AtLeastOne((MaxTokens * w)
                          \div AtLeastOne(Chars(d, 0, n) \div 3))]
=============================================================================
