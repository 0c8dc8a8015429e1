SPECIFICATION MCSpec
CONSTANTS
 Texts <- MCTexts
 Methods = {"GET", "POST"}
 Capacity = 32
 Numerals <- MCNumerals
 Half = 128
 Wrap = 65536
 Bits = 9
 Lowest <- MCLowest
 Highest = 30
 TenPowers <- MCTenPowers
 IntLimit = 100
 Precision = 3
 NumberRoom = 10
 FirstCapacity = 4
 MaxDigits = 4
 Ascii <- MCAscii
 Values <- MCValues
 Bodies <- MCBodies
 AcceptHeaders <- MCHeaders
 Translations <- MCTranslations
 Weights <- MCWeights
 Rank <- MCRank
 MaxHeader = 16
INVARIANTS TypeOK ParseMatchesText StringsEndInBuffer ReadsWhatIsWritten TextIsTheValue BestLanguageIsWritten
 EntrySaysWhatTheFileSays UnchangedUnlessNoCommand
PROPERTY RequestReturns
CHECK_DEADLOCK FALSE
