CONSTANTS
  Owner = {o1, o2}
  ApiKey = {k1}
  Connection = {c1, c2}
  Call = {r1, r2}
  Instant <- Instants
  Ttl <- Ttls
  NoConnection = none
  MaxRows = 2
SPECIFICATION SessionSpec
PROPERTIES OnlyAcquireGrants
SYMMETRY Symmetry
