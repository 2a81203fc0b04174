SPECIFICATION Spec
CONSTANTS
  r1 = r1
  r2 = r2
  v1 = v1
  v2 = v2
  Kind = {"BUYER", "APPLICANT", "ONBOARDED", "ADMIN"}
  Request = {r1, r2}
  Approval = {v1, v2}
  MaxUid = 2
  MaxCode = 2
  MaxAttempts = 2
  MaxFaults = 1
SYMMETRY Requests
INVARIANTS
  AccountWhole
  MailedCodeWorks
  InvitePasswordHeld
CHECK_DEADLOCK FALSE
