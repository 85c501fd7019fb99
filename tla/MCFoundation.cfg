\* Nine durations of two blocks: one more than the later plan needs.
SPECIFICATION FoundationSpec
CONSTANTS
  Early = e
  Late = l
  Account = {e, l}
  Fund <- MCFund
  Duration = 2
  Amount = {1, 2}
  LastBlock = 18
INVARIANTS
  OnSchedule
