\* Documents of up to five words, short, long and over the budget, with a
\* budget of three tokens; the rate is sampled on the first two words.
SPECIFICATION Spec

CONSTANTS
    Docs <- Texts
    Words <- WordsOf
    Tokens <- Heuristic
    WholeTokens <- WholeOf
    Guess <- GuessOf
    MaxTokens = 3
    Lengths = {1, 4, 13}
    MaxWords = 5
    Pads = {0, 9}
    Sample = 2

INVARIANTS
    SplitTypeOK
    LargestPrefixInReach
    ChunksWithinBudget
    WordsKept
PROPERTIES
    Terminates
