CONSTANTS
  Harts = {0, 1, 2}
  Boot = 0
  Sources = {s1, s2}
  Builds <- MCBuilds
  Punctual = TRUE
SPECIFICATION BootFairSpec
INVARIANTS SectionsReady ServedByRegistered
 
