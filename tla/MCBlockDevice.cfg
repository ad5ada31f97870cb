SPECIFICATION FairSpec
CONSTANTS
  Tag = {t1, t2}
  Value = {v0, v1}
  Zero = v0
  Beats = 2
  ReqDepth = 1
  DataDepth = 1
  RespDepth = 1
  AckDepth = 1
  SameCycle = FALSE
INVARIANT TypeOK
INVARIANT DataIsExpected
PROPERTY ActsAsStore
PROPERTY TransactionsEnd
