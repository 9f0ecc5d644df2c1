CONSTANTS
  Chats = {s1}
  Viewers = {u1}
  Tabs = {b1, b2}
  Threads = {h1}
  MaxQueue = 1
  MaxEvents = 2
  AgentSpans = {p1, p2}
  Traces = {t1, t2}
  MaxNow = 1
  StoreFails = TRUE
  Rows = {w1, w2, w3}
  MaxBuffer = 2
  WriteFaults = {"error", "timeout"}
  Spans = {q1, q2}
  MaxWorkers = 2
  Nil = Nil
SPECIFICATION TelemetrySpec
INVARIANT RowsAreAccountedFor
PROPERTIES   PromptLogIsSafe WhatWaitsIsServed
CHECK_DEADLOCK FALSE
