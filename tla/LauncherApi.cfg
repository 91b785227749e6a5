SPECIFICATION FairSpec
CONSTANTS
  Requests = {r1, r2, r3}
  Ips = {ip1}
  Users = {u1, u2}
  FAILTTL = 1
  KEYTTL = 2
  Never = Never
  None = None
INVARIANTS CounterExpires ToldKeyWorks ReportedRight
PROPERTIES ServedWithFreshKey RequestsEnd
CHECK_DEADLOCK FALSE
