\* Two workers and sessions; every statement may fail.
CONSTANTS
  Workers = {w1, w2}
  Sessions = {s1, s2}
  Commands <- MCCommands
  FirstRows <- MCFirstRows
  ValidEmails = {"a@", "r@"}
  Digits <- MCDigits
  MaxRequests = 5
  Faulty = {"getUserByID", "getAuthLevel", "select", "update", "verifyName",
            "verifyEmail", "insert", "lastInsertId"}
SYMMETRY Symmetric
SPECIFICATION Spec
INVARIANT RegistrationIsSound
PROPERTY LoginNeedsPassword
PROPERTY RightsAreCurrent
CHECK_DEADLOCK FALSE
