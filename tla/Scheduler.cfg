CONSTANTS
  Hosts = {h1, h2}
  Ticks = {t1}
  Nobody = nobody
  Fires = {1, 2, 3}
  NoFire = 0
  MaxErrors = 1
SPECIFICATION FairSpec
INVARIANTS TypeOK OneTimelyRun
PROPERTY DueIsServed
