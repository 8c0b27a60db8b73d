\* Short times in the order of the code's, two failures or crashes.
SPECIFICATION FairSpec
CONSTANTS
  Caller = {c1, c2}
  Refresher = refresher
  TicketTTL = 3
  TokenTTL = 6
  Interval = 4
  MaxFaults = 2
INVARIANTS CInv TokenReady
PROPERTIES RefresherStops TokenRecovers
