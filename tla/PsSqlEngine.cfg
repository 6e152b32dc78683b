SPECIFICATION FairSpec
CONSTANTS
  Threads = {t1, t2}
  Calls = {k1, k2, k3}
  Conns = {c1, c2}
  Ops = {"begin", "end", "execute", "batch", "close"}
  NoCall = NoCall
INVARIANTS
  HandleInvariant
  NoStrayTransaction
  CloseIsFinal
PROPERTIES
  CallersTransactionKept
  AnsweredOnce
  EveryCallAnswered
