SPECIFICATION MixedSpec
CONSTANTS
  LeafMaxCells = 3
  Keys = {19, 20, 21, 22}
  Builds = {3, 7}
  Tables = 1
  Filled = 16
INVARIANT
  HalvesHaveRoom
