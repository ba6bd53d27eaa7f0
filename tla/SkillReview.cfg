SPECIFICATION MCSpec
CONSTANTS
  Experiences = {e1, e2, e3}
  Admins = {admin}
  low = low
  high = high
  procedure = procedure
  Handoffs = {low, high}
  LevelOf <- MCLevelOf
  Texts = {procedure}
  Windows <- MCWindows
  Forever = Forever
  None = None
  MaxTime = 1
  MaxReviews = 4
  Skills = {s}
  Submissions = {r1, r2}
  Evidenced = {low, high}
  LockOf <- MCLockOf
  Procedures = {procedure}
SYMMETRY Symmetric
INVARIANTS
  ReviewIsSound
PROPERTIES
  SkillOnlyAdvances
  SuppressedStaysOut
  GuardsNeverRefuse
CHECK_DEADLOCK FALSE
