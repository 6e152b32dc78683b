SPECIFICATION ClientFairSpec
CONSTANTS
  AppCalls = {k1, k2, k3}
  Ops = {"read", "write", "refresh", "close"}
  Readers = 2
  NoCall = NoCall
  Calls = {c1}
  Binds <- Values
  MaxSafe = 3
  MaxFrames = 3
  Bodies <- AllBodies
INVARIANTS
  LockInvariant
  CloseReachesAll
  AnswersSurvive
  MapFollowsHandler
  WhatTheServerSent
  DecodersInStep
PROPERTIES
  EveryCallSettles
  CallsSettle
