SPECIFICATION ImageSpec
CONSTANTS
  Uploaders = {xiaoe, afanti}
  Callers = {c1}
  MaxIssued = 3
  Xiaoe = xiaoe
  Afanti = afanti
INVARIANTS TypeOK InStep ExpiryOwed NeverExpired OneAnswer LostOnlyWhenOvertaken
PROPERTIES VoidTokenLeaves EveryUploadEnds EveryImageReplied
CHECK_DEADLOCK FALSE
