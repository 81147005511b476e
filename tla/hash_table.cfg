SPECIFICATION FairSpec
CONSTANTS
  HashSize = 4
  Window = 0
  Keys <- CollidingKeys
  MaxCredits = 7
INVARIANTS
  TypeOK
  LookupFinds
  EvidenceConserved
 
