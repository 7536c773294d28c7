SPECIFICATION Spec
CONSTANTS
  m1 = m1
  m2 = m2
  t1 = t1
  t2 = t2
  t3 = t3
  row = row
  other = other
  Mine = {m1, m2}
  Theirs = {t1, t2, t3}
  Deletes = {t3}
  Rows = {row}
  FileOf <- MCFileOf
  NoEdit = NoEdit
  MaxKills = 1
PROPERTIES HeadReturns
