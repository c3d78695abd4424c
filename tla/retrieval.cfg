\* A document ingested, searched and deleted meanwhile, with notes of its
\* tenant, and with statements and sources that fail.
CONSTANTS
  ChunkSize = 10
  ChunkOverlap = 3
  Texts <- SomeTexts
  Callers <- SomeCallers
  Docs = {"d1"}
  Tenants = {"ann", "bob"}
  Owner <- SomeOwner
  Writers = {"ann"}
  BatchSize = 2
  TopK = 3
  Faulty = TRUE
SPECIFICATION FairSpec
INVARIANTS
  TypeOK
  TextIsCovered
  ChunksBounded
  FailsOver
  IndexedIsComplete
  ToldIsTrue
  SearchIsSound
  SearchIsThorough
  NotesAreKept
PROPERTIES
  CatalogueSpec
  EveryIngestReturns
CHECK_DEADLOCK FALSE
