----------------------------- MODULE TokenSplit -----------------------------
(***************************************************************************)
(* split.py: finalizing one document so that no chunk is over the token    *)
(* budget of the embedder.  A document is known by its words and by what   *)
(* the embedder counts for a run of them; the guess of how many words fit  *)
(* is refined by a binary search, one step of which is one step here.      *)
(***************************************************************************)
EXTENDS Integers, Sequences

CONSTANTS
    Docs,        \* documents
    Words,       \* how many words each document has
    Tokens,      \* of each document, the tokens of its words i+1 .. j
    WholeTokens, \* the tokens of its whole text, with its own white space
    Guess,       \* per_chunk_words, guessed from its first words
    MaxTokens    \* max_input_tokens of the embedder

ASSUME BudgetAssumption == MaxTokens \in Nat \ {0}

ASSUME DocsAssumption ==
    /\ Words \in [Docs -> Nat]
    /\ WholeTokens \in [Docs -> Nat]
    /\ Guess \in [Docs -> Nat \ {0}]

(* A longer run of words never counts for fewer tokens.                    *)
ASSUME TokensAssumption ==
    \A d \in Docs : \A i \in 0 .. Words[d] : \A j \in i .. Words[d] :
       /\ Tokens[d][i][j] \in Nat
       /\ \A k \in j .. Words[d] : Tokens[d][i][j] <= Tokens[d][i][k]

VARIABLES
    doc,    \* the document being split
    pc,
    start,  \* the words before `start` are in chunks
    lo, hi, \* the binary search
    chunks  \* the chunks made so far, each the end points of its words

vars == << doc, pc, start, lo, hi, chunks >>

----------------------------------------------------------------------------
Length     == Words[doc]
Fits(i, j) == Tokens[doc][i][j] <= MaxTokens
Part       == IF Guess[doc] < Length - start THEN Guess[doc]
              ELSE Length - start

(* Mutant of Mid: the search rounds down.                                  *)
LowerMid == (lo + hi) \div 2

Mid        == (lo + hi + 1) \div 2

Init ==
    /\ doc \in Docs
    /\ pc = "doc"
    /\ start = 0 /\ lo = 0 /\ hi = 0
    /\ chunks = << >>

(* split_oversized: a document within the budget, or without a word, is    *)
(* kept as it is.                                                          *)
KeepDoc ==
    /\ pc = "doc" /\ (WholeTokens[doc] <= MaxTokens \/ Length = 0)
    /\ pc' = "kept"
    /\ UNCHANGED << doc, start, lo, hi, chunks >>

SplitDoc ==
    /\ pc = "doc" /\ WholeTokens[doc] > MaxTokens /\ Length > 0
    /\ pc' = "chunk"
    /\ UNCHANGED << doc, start, lo, hi, chunks >>

(* Mutant of Emit: the next chunk begins with the last word of this one.   *)
EmitOverlapping(take) ==
    /\ chunks' = Append(chunks, << start, start + take >>)
    /\ start' = IF take > 1 THEN start + take - 1 ELSE start + take

Emit(take) ==
    /\ chunks' = Append(chunks, << start, start + take >>)
    /\ start' = start + take

(* Mutant of TakeGuess: the guess is not measured.                         *)
TakeGuessUnmeasured ==
    /\ pc = "chunk" /\ start < Length
    /\ Emit(Part)
    /\ UNCHANGED << doc, pc, lo, hi >>

TakeGuess ==
    /\ pc = "chunk" /\ start < Length /\ Fits(start, start + Part)
    /\ Emit(Part)
    /\ UNCHANGED << doc, pc, lo, hi >>

Refine ==
    /\ pc = "chunk" /\ start < Length /\ ~Fits(start, start + Part)
    /\ pc' = "search"
    /\ lo' = 0 /\ hi' = Part
    /\ UNCHANGED << doc, start, chunks >>

SearchUp ==
    /\ pc = "search" /\ lo < hi /\ Fits(start, start + Mid)
    /\ lo' = Mid
    /\ UNCHANGED << doc, pc, start, hi, chunks >>

(* Mutant of SearchDown: one step too far.                                 *)
SearchTooFarDown ==
    /\ pc = "search" /\ lo < hi /\ ~Fits(start, start + Mid)
    /\ hi' = Mid - 2
    /\ UNCHANGED << doc, pc, start, lo, chunks >>

SearchDown ==
    /\ pc = "search" /\ lo < hi /\ ~Fits(start, start + Mid)
    /\ hi' = Mid - 1
    /\ UNCHANGED << doc, pc, start, lo, chunks >>

(* A single word over the budget is taken all the same.                    *)
TakeFound ==
    /\ pc = "search" /\ lo = hi
    /\ Emit(IF lo > 1 THEN lo ELSE 1)
    /\ pc' = "chunk"
    /\ UNCHANGED << doc, lo, hi >>

Finish ==
    /\ pc = "chunk" /\ start = Length
    /\ pc' = "split"
    /\ UNCHANGED << doc, start, lo, hi, chunks >>

Ended == pc \in {"kept", "split"} /\ UNCHANGED vars

Next ==
    \/ KeepDoc \/ SplitDoc \/ TakeGuess \/ Refine
    \/ SearchUp \/ SearchDown \/ TakeFound \/ Finish \/ Ended

Spec == Init /\ [][Next]_vars /\ WF_vars(Next)

----------------------------------------------------------------------------
(* Properties.                                                             *)

SplitTypeOK ==
    /\ doc \in Docs
    /\ pc \in {"doc", "kept", "chunk", "search", "split"}
    /\ start \in 0 .. Length /\ lo \in 0 .. Length /\ hi \in 0 .. Length
    /\ chunks \in Seq((0 .. Length) \X (0 .. Length))

(* split_to_budget: the search never leaves the largest prefix within the  *)
(* budget behind: what is below lo fits, what is above hi does not.        *)
LargestPrefixInReach ==
    pc = "search" =>
       /\ lo <= hi /\ hi <= Part
       /\ lo = 0 \/ Fits(start, start + lo)
       /\ \A k \in hi + 1 .. Part : ~Fits(start, start + k)

(* Every chunk is within the budget, or is one word that is not.           *)
ChunksWithinBudget ==
    \A n \in DOMAIN chunks :
       \/ Fits(chunks[n][1], chunks[n][2])
       \/ chunks[n][2] = chunks[n][1] + 1

(* The chunks hold every word once, in order.                              *)
WordsKept ==
    /\ \A n \in DOMAIN chunks :
          /\ chunks[n][1] = IF n = 1 THEN 0 ELSE chunks[n - 1][2]
          /\ chunks[n][1] < chunks[n][2]
    /\ start = IF chunks = << >> THEN 0 ELSE chunks[Len(chunks)][2]
    /\ pc = "split" => start = Length

(* The splitting comes to an end, whatever the words count for.            *)
Terminates == <>(pc \in {"kept", "split"})

(* split_oversized: every chunk is at or under the limit.                  *)
EveryChunkWithinLimit ==
    /\ pc = "kept" => WholeTokens[doc] <= MaxTokens
    /\ \A n \in DOMAIN chunks : Fits(chunks[n][1], chunks[n][2])
=============================================================================
