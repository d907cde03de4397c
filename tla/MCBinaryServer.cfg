CONSTANTS
  Producers = {"p1", "p2", "p3"}
  Tasks = {"t1", "t2", "t3", "t4", "t5"}
  Owner <- MCOwner
  Socks = {"s1", "s2"}
SPECIFICATION Spec
INVARIANT TypeOK
PROPERTY TasksEventuallyRun
