SPECIFICATION Spec
CONSTANTS
  Symbols <- MCSymbols
  Credentials <- MCCredentials
  Arguments <- MCArguments
  Replies <- MCReplies
  ErrorTexts <- MCErrorTexts
  MaxText = 3
  MaxKey = 2
  MaxDepth = 3
  MaxNodes = 6
  MaxItems = 2
  MaxArray = 2
  MaxNesting = 4
  MaxStores <- MCMaxStores
INVARIANTS TypeOK NoSecretEscapes OnlySecretsHidden RefusedExactly SecondPassAgrees
