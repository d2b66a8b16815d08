SPECIFICATION FairSpec
CONSTANTS
  Sender = {s1, s2}
  Ip = {ip1, ip2}
  Mac = {m1}
  Packet = {p1, p2}
  MaxAttempts = 3
  EntryTimeout = 4
  None = None
INVARIANTS TypeOK ExactlyOnce Attended
PROPERTIES GivesUpLast Settled
