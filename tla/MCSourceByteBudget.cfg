\* Two tasks, two stages: every access of both interleaved.  One size asked
\* for takes the sum past MaxWord, and parks for good.
SPECIFICATION Spec
CONSTANTS
  Tasks = {t1, t2}
  Stages = {"source", "decode"}
  Capacity = 3
  MaxWord = 15
  Sizes = {0, 2, 3, 14}
  Actuals = {0, 1, 4}
INVARIANTS IInv BytesConserved OversubscriptionBounded NoMissedNotify
PROPERTIES ParkedIsWoken
