INIT SubnetsInit
NEXT SubnetsNext
CONSTANTS
  Key <- AllKeys
  Null = Null
  CharSum <- MCCharSum
  CharPoly <- MCCharPoly
  HashMin = 4
  HashStep = 5
  HashMax = 17
  File = {"main", "inc"}
  MainFile = "main"
  Contents <- AndText
  Environment <- TheEnvironment
  MaxInclude = 1
  IgnoreSize = 3
  InNet <- TheNet
  Delim <- Plain
INVARIANT AndIsConjunction
