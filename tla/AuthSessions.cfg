SPECIFICATION Spec
CONSTANTS
  Users = {u1, u2}
  Browsers = {b1, b2}
  Tokens = {t1, t2, t3}
  Calls = {c1, c2}
  MaxTokens = 1
  None = None
CHECK_DEADLOCK FALSE
SYMMETRY AuthSymmetry
INVARIANTS
  TypeOK
  RevokedMeansRefused
  LogoutEndsSession
  PruneBounds
  AnswersLiveToken
