\* Two connections of one device, two measurements of two blocks each, and one
\* statement that fails or one crash.
SPECIFICATION Spec
CONSTANTS
  h1 = h1
  h2 = h2
  d1 = d1
  m1 = m1
  m2 = m2
  Nobody = Nobody
  Handler <- TwoHandlers
  Device <- OneDevice
  Measurement <- TwoMeasurements
  Blocks <- TwoBlocks
  MaxTransfers = 2
  MaxMishaps = 1
SYMMETRY HandlerMeasurementSymmetry
INVARIANTS TypeOK SetsMatch ColumnKeptUntilStored AskedOnlyAfterMishap
CHECK_DEADLOCK FALSE
