\* Two users who send, read and clear; limits cut down to the sends there are.
CONSTANTS
  u1 = u1
  u2 = u2
  m1 = m1
  m2 = m2
  m3 = m3
  m4 = m4
  x1 = x1
  x2 = x2
  Users = {u1, u2}
  Sends = {m1, m2, m3}
  Acts = {x1, x2}
  Open = {u1}
  OneTab = {u1}
  StrangerLimit = 1
  OneWayLimit = 2
  UserLimit = 2
  SessionLimit = 2
  MaxWeek = 1
  Actors = {1}
  Objects = {1}
  Calls = {x1, x2}
  MaxMessages = 3
  Members = {x1}
  Topics = {"t"}
  Asks = {m1, m2, m3, m4}
  NoRow = NoRow
  MaxNotices = 1
  MaxTime = 1
SPECIFICATION TalkSpec
SYMMETRY Symmetric
INVARIANTS TypesOK LimitsKept UnreadRight ToldOnceAndSeen UserChoicesStay
PROPERTIES ClearedStaysCleared
CHECK_DEADLOCK FALSE
