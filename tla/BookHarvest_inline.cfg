CONSTANTS
  book = book  chapter = chapter  other = other
  Monographs = {book}
  Parts = {chapter}
  Monograph <- OnePart
  Workers = {w1}
  MaxKills = 1
  Inline = TRUE
  Limit = 2
  FirstSeq = 1
  LastSeq = 3
SPECIFICATION FairSpec
INVARIANTS NothingSilentlyLost SuccessIsIndexed
PROPERTIES EveryChangeSettles
