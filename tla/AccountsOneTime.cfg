SPECIFICATION Spec
CONSTANTS
  Users = {ann}
  Owner = ann
  Roles <- SomeRoles
  Passwords = {p1, p2}
  Threads = {t1, t2}
  Sessions = {s1, s2}

PROPERTY InvitationIsOneTime
