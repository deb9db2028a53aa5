CONSTANTS
  book = book  chapter = chapter  other = other
  Monographs = {book}
  Parts = {chapter}
  Monograph <- OnePart
  Workers = {w1, w2}
  MaxKills = 0
  Inline = FALSE
  Limit = 2
  FirstSeq = 2
  LastSeq = 3
SPECIFICATION Spec
INVARIANT SeqIsCovered
SYMMETRY SameWorkers
CONSTRAINT TwoAtOnce
