SPECIFICATION Spec
CONSTANTS
  Scanner <- MCScanner
  File <- MCFile
  Image <- MCImage
  Content <- MCContent
  NoFile = NoFile
  NameMatch <- MCNameMatch
  LabelMatch <- MCLabelMatch
  HintMatch <- MCHintMatch
  Media <- MCMedia
  Wish <- MCWish
  MaxChanges = 3
  MaxScans = 2
INVARIANTS
  HashIsCurrent
  NameDecides
