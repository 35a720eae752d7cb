SPECIFICATION AcademySpec
CONSTANTS
  Lessons = {l1, l2}
  Rows = {r1, r2}
  Clicks = {c1, c2}
  MaxAttempts = 2
INVARIANT
  CompletionAnnounced
CHECK_DEADLOCK FALSE
