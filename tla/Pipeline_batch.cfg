SPECIFICATION Spec
CONSTANTS
  t1 = t1
  t2 = t2
  e1 = e1
  e2 = e2
  e3 = e3
  e4 = e4
  Threads = {t1}
  Envs = {e1, e2, e3, e4}
  Contents = {"c1", "c2", "d1"}
  Sources = {"s1", "s2"}
  Tenants = {"n1", "n2"}
  Content <- MCContent
  SourceOf <- MCSourceOf
  TenantOf <- MCTenantOf
  Entry <- MCBatch
  Undecodable = {}
  MaxBatch = 3
  MaxFaults = 2
  Unrec = Unrec
  NoEnv = NoEnv
INVARIANT TypeOK
INVARIANT OneOriginal
CHECK_DEADLOCK FALSE
