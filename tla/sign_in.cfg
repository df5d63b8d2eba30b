SPECIFICATION Spec
CONSTANTS
  Browser = {b1, b2}
  State = {s1, s2, s3}
  Thread = {t1, t2}
  Cap = 1
  TTL = 1
  b1 = b1
  b2 = b2
  s1 = s1
  s2 = s2
  s3 = s3
  t1 = t1
  t2 = t2
  None = None
SYMMETRY Interchangeable
INVARIANTS RefusedDeserved
PROPERTIES UsedOnce DropsDeserved
