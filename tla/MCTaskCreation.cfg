\* Two clients of one key and one of another, slow calls, one fault.
SPECIFICATION Spec
CONSTANTS
  c1 = c1  c2 = c2  c3 = c3  k1 = k1  k2 = k2  n1 = n1  n2 = n2
  Keys = {k1, k2}
  Callers = {c1, c2, c3}
  KeyOf <- MCKeyOf
  ClaimNames = {n1, n2}
  ClaimOf <- MCClaimOf
  Nobody = Nobody
  GuardEnabled = TRUE
  ShortTTL = TRUE
  MaxIds = 3
  MaxCreateFaults = 1
INVARIANTS CreationTypeOK RepliesAgree RowsHaveArchive LeftoversFromFaults
PROPERTY EveryKeyServed
