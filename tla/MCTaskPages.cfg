SPECIFICATION FairSpec
CONSTANTS
  One = t1
  Other = t2
  Word = word
  Blank = blank
  Tasks = {t1, t2}
  NULL = NULL
  Sent = Sent
  Texts = {blank, word}
  Matching <- FindsOne
  PageSize = 1
  MaxActs = 4
  MaxFaults = 1
  Slots = {s1, s2}
  MaxForms = 2
INVARIANTS
  PagesTypeOK
  SelectionOfOnePage
  CreatedAsTyped
PROPERTIES
  ListSettles
  OwnAnswerCloses
CHECK_DEADLOCK FALSE
