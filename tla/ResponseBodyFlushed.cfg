SPECIFICATION BodySpec
CONSTANTS
  Bodies <- FlushedBodies
INVARIANTS
  WhatTheServerSent
