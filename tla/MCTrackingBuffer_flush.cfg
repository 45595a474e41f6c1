\* One replica, two deliveries of different tenants.
SPECIFICATION FairTrackSpec
CONSTANTS
  r1 = r1  d1 = d1  d2 = d2  t1 = t1  t2 = t2
  Replicas <- OneReplica
  Deliveries <- TwoDeliveries
  TenantOf <- TwoTenants
  MaxBuffer = 2
  Tracked = {"open"}
  MaxRecords = 3
  MaxOutages = 1
INVARIANTS TrackTypeOK EveryEventCounted FirstsHaveEvents CloseFlushes
PROPERTIES CloseReturns
