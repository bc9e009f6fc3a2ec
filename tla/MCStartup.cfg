SPECIFICATION MCSpec
CONSTANTS
  Requests = {r1, r2, r3}
  Names <- SeedsAndGuest
  Seats = 2
  Products = {p1}
  Created = Created
  MaxFaults = 2
INVARIANTS
  TypeOK
  UsernamesAreUnique
  AdministratorFirst
  HallIsSeededOnce
PROPERTIES
  SeedingKeepsAccounts
  ComesUp
