\* A daemon and two commands; every save succeeds and nothing is killed in one.
SPECIFICATION Spec
CONSTANTS
  d1 = d1
  c1 = c1
  c2 = c2
  Daemons <- MCDaemons
  Clis <- MCClis
  MaxAdds = 2
  Faults = FALSE
SYMMETRY CliSymmetry
INVARIANT AckedCommandsHold
