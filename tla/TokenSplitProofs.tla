-------------------------- MODULE TokenSplitProofs --------------------------
(***************************************************************************)
(* For every set of documents, every monotone count of tokens and every    *)
(* budget: the types of TokenSplit, its binary search and its chunks.      *)
(***************************************************************************)
EXTENDS TokenSplit, SequenceTheorems, TLAPS

USE DocsAssumption, BudgetAssumption

(* A pass is at a chunk, or searches one, only before the document's end.  *)
SearchInside == pc = "search" => start < Length

IInv == SplitTypeOK /\ SearchInside /\ LargestPrefixInReach
                    /\ ChunksWithinBudget

----------------------------------------------------------------------------
(* The part of the document the guess offers is inside the document.       *)
LEMMA PartInside ==
    ASSUME SplitTypeOK, start < Length
    PROVE  Part \in 1 .. Length - start
  BY DEF Part, SplitTypeOK, Length

(* Counts of the document's words are numbers, and grow with the run.      *)
LEMMA Monotone ==
    ASSUME SplitTypeOK,
           NEW i \in 0 .. Length, NEW j \in i .. Length, NEW k \in j .. Length
    PROVE  /\ Tokens[doc][i][j] \in Nat /\ Tokens[doc][i][k] \in Nat
           /\ Tokens[doc][i][j] <= Tokens[doc][i][k]
  BY TokensAssumption DEF SplitTypeOK, Length

(* The middle of a search that goes on is above lo and not above hi.       *)
LEMMA MidInside ==
    ASSUME SplitTypeOK, lo < hi
    PROVE  Mid \in lo + 1 .. hi
  BY DEF SplitTypeOK, Mid, Length

(* What taking a chunk of a legal size leaves.                             *)
LEMMA EmitKeeps ==
    ASSUME SplitTypeOK, ChunksWithinBudget,
           NEW take \in 1 .. Length - start,
           Fits(start, start + take) \/ take = 1,
           Emit(take), doc' = doc
    PROVE  /\ start' \in 0 .. Length'
           /\ chunks' \in Seq((0 .. Length') \X (0 .. Length'))
           /\ ChunksWithinBudget'
<1> DEFINE c == << start, start + take >>
<1>1. Length' = Length /\ start \in 0 .. Length /\ start + take \in 0 .. Length
  BY DEF SplitTypeOK, Length
<1>2. chunks' = Append(chunks, c) /\ start' = start + take
  BY DEF Emit
<1>3. chunks \in Seq((0 .. Length) \X (0 .. Length))
  BY DEF SplitTypeOK
<1>4. c \in (0 .. Length) \X (0 .. Length)
  BY <1>1
<1>5. chunks' \in Seq((0 .. Length) \X (0 .. Length))
  BY <1>2, <1>3, <1>4
<1>6. ChunksWithinBudget'
  <2> DEFINE Good(k) == \/ Tokens[doc][k[1]][k[2]] <= MaxTokens
                        \/ k[2] = k[1] + 1
  <2>1. \A n \in DOMAIN chunks : Good(chunks[n])
    BY DEF ChunksWithinBudget, Fits
  <2>2. Good(c)
    BY <1>1 DEF Fits
  <2>3. ASSUME NEW n \in DOMAIN chunks' PROVE Good(chunks'[n])
    <3> HIDE DEF Good, c
    <3>1. CASE n \in DOMAIN chunks
      <4>1. chunks'[n] = chunks[n]
        BY <1>2, <1>3, <3>1
      <4>2. QED
        BY <2>1, <3>1, <4>1
    <3>2. CASE n \notin DOMAIN chunks
      <4>1. chunks'[n] = c
        BY <1>2, <1>3, <1>4, <3>2, <2>3
      <4>2. QED
        BY <2>2, <4>1
    <3>3. QED
      BY <3>1, <3>2
  <2>4. QED
    BY <2>3 DEF ChunksWithinBudget, Fits
<1>7. QED
  BY <1>1, <1>2, <1>5, <1>6

----------------------------------------------------------------------------
LEMMA IInvInit == Init => IInv
<1> SUFFICES ASSUME Init PROVE IInv
  OBVIOUS
<1>1. SplitTypeOK
  BY DEF Init, SplitTypeOK, Length
<1>2. QED
  BY <1>1 DEF Init, IInv, SearchInside, LargestPrefixInReach,
              ChunksWithinBudget

LEMMA IInvNext == IInv /\ [Next]_vars => IInv'
<1> SUFFICES ASSUME IInv, [Next]_vars PROVE IInv'
  OBVIOUS
<1> USE DEF IInv
<1>1. CASE KeepDoc \/ SplitDoc \/ Finish \/ Ended \/ UNCHANGED vars
  BY <1>1 DEF KeepDoc, SplitDoc, Finish, Ended, vars, SplitTypeOK, SearchInside,
              LargestPrefixInReach, ChunksWithinBudget, Fits, Length, Part
<1>2. CASE TakeGuess
  <2>1. Part \in 1 .. Length - start
    BY <1>2, PartInside DEF TakeGuess
  <2>2. /\ start' \in 0 .. Length'
        /\ chunks' \in Seq((0 .. Length') \X (0 .. Length'))
        /\ ChunksWithinBudget'
    BY <1>2, <2>1, EmitKeeps DEF TakeGuess
  <2>3. QED
    BY <1>2, <2>2 DEF TakeGuess, SplitTypeOK, SearchInside,
                      LargestPrefixInReach, Length
<1>3. CASE Refine
  <2>1. Part \in 1 .. Length - start
    BY <1>3, PartInside DEF Refine
  <2>2. Part' = Part /\ Length' = Length
    BY <1>3 DEF Refine, Part, Length
  <2>3. SplitTypeOK' /\ SearchInside'
    BY <1>3, <2>1, <2>2 DEF Refine, SplitTypeOK, SearchInside, Length
  <2>4. LargestPrefixInReach'
    BY <1>3, <2>1, <2>2 DEF Refine, LargestPrefixInReach, SplitTypeOK
  <2>5. QED
    BY <1>3, <2>3, <2>4 DEF Refine, ChunksWithinBudget, Fits
<1>4. CASE SearchUp
  <2>1. Mid \in lo + 1 .. hi
    BY <1>4, MidInside DEF SearchUp
  <2>2. Part' = Part /\ Length' = Length
    BY <1>4 DEF SearchUp, Part, Length
  <2>3. SplitTypeOK' /\ SearchInside' /\ ChunksWithinBudget'
    BY <1>4, <2>1, <2>2
    DEF SearchUp, SplitTypeOK, SearchInside, ChunksWithinBudget, Fits, Length
  <2>4. LargestPrefixInReach'
    BY <1>4, <2>1, <2>2
    DEF SearchUp, LargestPrefixInReach, SplitTypeOK, Fits, Length
  <2>5. QED
    BY <2>3, <2>4
<1>5. CASE SearchDown
  <2>1. Mid \in lo + 1 .. hi
    BY <1>5, MidInside DEF SearchDown
  <2>2. Part' = Part /\ Length' = Length
    BY <1>5 DEF SearchDown, Part, Length
  <2>3. SplitTypeOK' /\ SearchInside' /\ ChunksWithinBudget'
    BY <1>5, <2>1, <2>2
    DEF SearchDown, SplitTypeOK, SearchInside, ChunksWithinBudget, Fits, Length
  <2>4. Part \in 1 .. Length - start
    BY <1>5, PartInside DEF SearchDown, SearchInside
  <2>5. ASSUME NEW k \in Mid .. Part
        PROVE  ~Fits(start, start + k)
    <3>1. /\ start \in 0 .. Length
          /\ start + Mid \in start .. Length
          /\ start + k \in start + Mid .. Length
      BY <1>5, <2>1, <2>4 DEF SearchDown, SplitTypeOK, LargestPrefixInReach,
                              Length
    <3>2. /\ Tokens[doc][start][start + Mid] \in Nat
          /\ Tokens[doc][start][start + k] \in Nat
          /\ Tokens[doc][start][start + Mid] <= Tokens[doc][start][start + k]
      BY <3>1, Monotone
    <3>3. QED
      BY <1>5, <3>2 DEF SearchDown, Fits
  <2>6. lo' = lo /\ hi' = Mid - 1 /\ start' = start /\ doc' = doc
    BY <1>5 DEF SearchDown
  <2>7. lo <= hi' /\ hi' <= Part /\ (lo = 0 \/ Fits(start, start + lo))
    BY <1>5, <2>1, <2>4, <2>6 DEF SearchDown, LargestPrefixInReach, SplitTypeOK,
                                  Length
  <2>8. \A k \in hi' + 1 .. Part : ~Fits(start, start + k)
    BY <2>1, <2>5, <2>6 DEF SplitTypeOK
  <2>9. LargestPrefixInReach'
    BY <2>2, <2>6, <2>7, <2>8 DEF LargestPrefixInReach, Fits
  <2>10. QED
    BY <2>3, <2>9
<1>6. CASE TakeFound
  <2> DEFINE take == IF lo > 1 THEN lo ELSE 1
  <2>1. Part \in 1 .. Length - start
    BY <1>6, PartInside DEF TakeFound, SearchInside
  <2>2. take \in 1 .. Length - start
    <3>1. lo \in Nat /\ lo <= Part
      BY <1>6 DEF TakeFound, LargestPrefixInReach, SplitTypeOK, Length
    <3>2. start \in Nat /\ Length \in Nat
      BY DEF SplitTypeOK, Length
    <3>3. QED
      BY <2>1, <3>1, <3>2
  <2>3. Fits(start, start + take) \/ take = 1
    BY <1>6 DEF TakeFound, LargestPrefixInReach, SplitTypeOK, Length
  <2>4. /\ start' \in 0 .. Length'
        /\ chunks' \in Seq((0 .. Length') \X (0 .. Length'))
        /\ ChunksWithinBudget'
    <3> HIDE DEF take
    <3>1. Emit(take) /\ doc' = doc
      BY <1>6 DEF TakeFound, take
    <3>2. QED
      BY <2>2, <2>3, <3>1, EmitKeeps
  <2>5. QED
    BY <1>6, <2>4 DEF TakeFound, SplitTypeOK, SearchInside,
                      LargestPrefixInReach, Length
<1>7. QED
  BY <1>1, <1>2, <1>3, <1>4, <1>5, <1>6 DEF Next

(* Every state of a split is well typed.                                   *)
THEOREM SplitTypeCorrect == Spec => []SplitTypeOK
<1>1. IInv => SplitTypeOK
  BY DEF IInv
<1>2. QED
  BY <1>1, IInvInit, IInvNext, PTL DEF Spec

(* split_to_budget's binary search: whatever the count, as long as it is   *)
(* monotone, the largest prefix within the budget stays between its bounds.*)
THEOREM SearchIsSound == Spec => []LargestPrefixInReach
<1>1. IInv => LargestPrefixInReach
  BY DEF IInv
<1>2. QED
  BY <1>1, IInvInit, IInvNext, PTL DEF Spec

(* Every chunk made is within the budget, but for one word that is not.    *)
THEOREM ChunksFit == Spec => []ChunksWithinBudget
<1>1. IInv => ChunksWithinBudget
  BY DEF IInv
<1>2. QED
  BY <1>1, IInvInit, IInvNext, PTL DEF Spec

----------------------------------------------------------------------------
(* A chunk that begins where the last one ended continues the document.    *)
LEMMA EmitContinues ==
    ASSUME SplitTypeOK, WordsKept, NEW take \in 1 .. Length - start,
           Emit(take), doc' = doc, pc' # "split"
    PROVE  WordsKept'
<1> DEFINE Begins(c, n) == c[n][1] = (IF n = 1 THEN 0 ELSE c[n - 1][2])
           last == << start, start + take >>
           count == Len(chunks)
<1>1. /\ chunks' = Append(chunks, last) /\ start' = start + take
      /\ start \in Nat /\ take \in Nat /\ take >= 1
  BY DEF Emit, SplitTypeOK, Length
<1>2. /\ chunks \in Seq((0 .. Length) \X (0 .. Length))
      /\ last \in Nat \X Nat /\ last[1] = start /\ last[2] = start + take
  BY <1>1 DEF SplitTypeOK
<1>3. chunks \in Seq(Nat \X Nat)
  BY <1>2, SeqMonotonic
<1> HIDE DEF last
<1>4. /\ count \in Nat /\ Len(chunks') = count + 1
      /\ DOMAIN chunks = 1 .. count /\ DOMAIN chunks' = 1 .. count + 1
      /\ \A n \in 1 .. count : chunks'[n] = chunks[n]
      /\ chunks'[count + 1] = last
  BY <1>1, <1>2, <1>3
<1>5. start = IF count = 0 THEN 0 ELSE chunks[count][2]
  BY <1>3 DEF WordsKept
<1>6. ASSUME NEW n \in 1 .. count + 1
      PROVE  Begins(chunks', n) /\ chunks'[n][1] < chunks'[n][2]
  <2>1. CASE n \in 1 .. count
    <3>1. n # 1 => n - 1 \in 1 .. count
      BY <2>1
    <3>2. Begins(chunks, n) /\ chunks[n][1] < chunks[n][2]
      BY <1>4, <2>1 DEF WordsKept
    <3> QED BY <1>4, <2>1, <3>1, <3>2
  <2>2. CASE n = count + 1
    <3> HIDE DEF count
    <3>1. chunks'[n][1] = start /\ chunks'[n][2] = start + take
      BY <1>2, <1>4, <2>2
    <3>2. chunks'[n][1] < chunks'[n][2]
      BY <1>1, <3>1
    <3>3. CASE count = 0
      BY <1>5, <2>2, <3>1, <3>3
    <3>4. CASE count # 0
      <4>1. count \in 1 .. count /\ n # 1 /\ n - 1 = count
        BY <1>4, <2>2, <3>4
      <4>2. chunks'[count] = chunks[count]
        BY <1>4, <4>1
      <4> QED BY <1>5, <3>1, <3>4, <4>1, <4>2
    <3> QED BY <3>2, <3>3, <3>4
  <2> QED BY <1>4, <2>1, <2>2
<1>7. start' = chunks'[Len(chunks')][2]
  <2>1. chunks'[Len(chunks')] = last
    BY <1>4
  <2> QED BY <1>1, <1>2, <2>1
<1>8. chunks' # << >>
  <2>1. Len(chunks') # 0
    BY <1>4
  <2> QED BY <2>1
<1> QED BY <1>4, <1>6, <1>7, <1>8 DEF WordsKept

LEMMA WordsKeptNext == IInv /\ WordsKept /\ [Next]_vars => WordsKept'
<1> SUFFICES ASSUME IInv, WordsKept, [Next]_vars PROVE WordsKept'
  OBVIOUS
<1> USE DEF IInv
<1>1. CASE \/ KeepDoc \/ SplitDoc \/ Refine \/ SearchUp \/ SearchDown
           \/ Finish \/ Ended \/ UNCHANGED vars
  BY <1>1 DEF KeepDoc, SplitDoc, Refine, SearchUp, SearchDown, Finish, Ended,
              vars, WordsKept, Length
<1>2. CASE TakeGuess
  <2>1. Part \in 1 .. Length - start
    BY <1>2, PartInside DEF TakeGuess
  <2> QED BY <1>2, <2>1, EmitContinues DEF TakeGuess
<1>3. CASE TakeFound
  <2> DEFINE take == IF lo > 1 THEN lo ELSE 1
  <2>1. Part \in 1 .. Length - start
    BY <1>3, PartInside DEF TakeFound, SearchInside
  <2>2. take \in 1 .. Length - start
    <3>1. lo \in Nat /\ lo <= Part /\ start \in Nat /\ Length \in Nat
      BY <1>3 DEF TakeFound, LargestPrefixInReach, SplitTypeOK, Length
    <3> QED BY <2>1, <3>1
  <2>3. Emit(take) /\ doc' = doc /\ pc' # "split"
    BY <1>3 DEF TakeFound
  <2> HIDE DEF take
  <2> QED BY <2>2, <2>3, EmitContinues
<1> QED BY <1>1, <1>2, <1>3 DEF Next

(* No word is lost or repeated: the chunks follow on one another from the  *)
(* first word, none is empty, and those of a finished split reach the end. *)
THEOREM NoWordLost == Spec => []WordsKept
<1>1. Init => WordsKept
  BY DEF Init, WordsKept
<1> QED BY <1>1, IInvInit, IInvNext, WordsKeptNext, PTL DEF Spec
=============================================================================
