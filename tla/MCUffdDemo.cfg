SPECIFICATION FairSpec
CONSTANTS
  MaxPages = 6
  BUFPOOLSIZE = 5
  Letters = 3
  ReadsPerPage = 4
  Failures = {"kernel", "memalign", "ptedit", "umem", "table"}
INVARIANTS
  HandledSeparately
  HandlerServesItself
PROPERTIES
  PagingSpec
  ReadsToEnd
