SPECIFICATION MCSpec
CONSTANTS
  s1 = s1
  s2 = s2
  s3 = s3
  a1 = a1
  a2 = a2
  a3 = a3
  b1 = b1
  c1 = c1
  t1 = t1
  t2 = t2
  Sessions = {s1, s2, s3}
  Handlers = {a1, a2, a3, b1, c1}
  Tables = {t1, t2}
  Owner <- Owners
  TableOf <- TablesOf
  Addr <- Addresses
INVARIANTS
  TypeOK
  ReadsNeverBlock
  NoWriteCountExact
  WriteExcludes
CHECK_DEADLOCK TRUE
