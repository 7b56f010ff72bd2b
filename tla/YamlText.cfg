SPECIFICATION TextSpec
CONSTANTS
  Texts <- MCTexts
  Letters <- MCLetters
  KeyLength = 6
  None = None
  Documents <- MCDocuments
INVARIANTS TokensSound BlocksAreIndents LoadedAsWritten DumpedIsLoaded
PROPERTIES ScannerAdvances
