SPECIFICATION FairSpec
CONSTANTS
  Tasks = {t1, t2, t3}
  NoTask = NoTask
  MaxVersion = 2
  NoCatalog = NoCatalog
INVARIANTS
  TypeOK
PROPERTIES
  OneFetchPerTTL
  HeldCatalogServes
  ImplementsAtomicCatalog
  RequestsEnd
CHECK_DEADLOCK FALSE
