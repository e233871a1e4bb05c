SPECIFICATION CallSpec
CONSTANTS
  Paths = {p1}
  Values = {v1}
  Passwords = {pw1, pw2}
  Nil = Nil
  Absent = Absent
  Torn = Torn
  TornWrites = FALSE
  MaxSalts = 2
  MaxFaults = 1
INVARIANT
  SecretsFollowPassword
