SPECIFICATION BoardSpec
CONSTANTS
  NoSession = NoSession
  Absent = Absent
  Nothing = Nothing
  Sessions = {s1, s2}
  Commands = {c1}
  MaxShells = 1
  root = root
  boss = boss
  NoRow = NoRow
  Staff = {root, boss}
  DemoRole <- SeededRole
  SecondFactor = {boss}
  MaxColumns = 1
  MaxAsked = 2
  MaxCalls = 2
  MaxFailures = 1
  AlertRows = {a1, a2}
  Robots = {r1}
  Days = 2
  MaxRecent = 1
  MaxDay = 2
  MaxChanges = 2
  m1 = m1
  p1 = p1
  Movers = {m1}
  Places = {p1}
  MaxPayload = 2
  MaxWire = 2
  MaxVisits = 2
INVARIANTS BoardInv TrailShows Figures
PROPERTIES QuietEnds SuspensionTakes
CHECK_DEADLOCK FALSE
