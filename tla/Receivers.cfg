\* Secrets, users and failures beside the passes that copy the secrets.
CONSTANTS
  MaxAddresses = 2
  v1 = v1
  v2 = v2
  Version <- Versions
  Hazards <- AllHazards
  MaxHazards = 2
SPECIFICATION FairSpec
INVARIANTS
  TypeOK
  AlertsReach
  AddressesFollow
PROPERTIES
  ReceiversConverge
