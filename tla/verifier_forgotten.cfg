SPECIFICATION FairSpec
CONSTANTS
  Track = {t1}
  Person = {p1}
  Nobody = Nobody
  Window = 2
  YunetN = 1
  EmbedN = 2
  PersistN = 2
  SpoofN = 2
  IngestCooldown = 2
PROPERTIES
  AskedAgain
CHECK_DEADLOCK FALSE
