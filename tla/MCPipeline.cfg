SPECIFICATION Spec
CONSTANTS
  a = a
  b = b
  Endpoint = {a, b}
  Precedes <- MCPrecedes
  HighRisk <- MCHighRisk
  Harmless <- MCHarmless
  CodeQualifier = {"status"}
  NoSchema = NoSchema
  Nil = Nil
  Untyped = Untyped
  Unnamed = Unnamed
  Empty = Empty
  Finding <- MCFinding
  AuditReply <- MCAuditReply
  NoList = NoList
  Absent = Absent
  Unreached = Unreached
  MaxRuns = 3
INVARIANTS TypeOK LinesExact RugPullSeen DangerTrue ReportRepeatsRender
