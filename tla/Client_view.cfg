SPECIFICATION ClientSpec
CONSTANTS
  u1 = u1
  u2 = u2
  Uuid = {u1, u2}
  DescribedBy <- Overlapping
  MaxInbox = 5
INVARIANTS ClientTypeOK CaughtUp NoGhosts
PROPERTIES LearnsDevices
