\* Two threads, one device, nested searches, three searches for a history of two.
SPECIFICATION FairSpec
CONSTANTS
  t1 = t1  t2 = t2
  Thread = {t1, t2}
  Nobody = Nobody
  Devices <- MCDevices
  Object = {"0", "1", "2", "3"}
  Root = "0"
  IsContainer <- MCIsContainer
  IsSearchable <- MCIsSearchable
  HasFile <- MCHasFile
  NameOf <- MCNameOf
  MetaName <- MCMetaName
  Kids <- MCKids
  Hits <- MCHits
  Plain = {"a"}
  HasCaps = TRUE
  Queries <- MCQueries
  ShowDebug = TRUE
  ShowMetadata = TRUE
  HistSize = 2
INVARIANTS HistoryExact CriteriaAlive ResultByPath ListedIsFound 
PROPERTIES QueryReturns
