CONSTANTS
  Id = {a}
  NoId = NoId
  MaxAdds = 1
  MaxCalls = 1
SPECIFICATION FairSpec
PROPERTY IoServes
