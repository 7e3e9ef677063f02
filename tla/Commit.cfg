\* With and without a reservation, on disks that flush a folder and disks that do not.
SPECIFICATION Spec
CONSTANTS
  Sources = {1, 2, 3}
  Projected = 3
  Margin = 1
  Finals = {2, 3, 4}
  Frees = {2, 3, 4, 5}
  Limits = {3, 9}
CHECK_DEADLOCK FALSE
INVARIANTS TypeOK SurvivesPowerLoss NeverTorn ExactLength SpaceLasts
