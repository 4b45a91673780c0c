CONSTANTS
  Rates <- AllRates
  Types <- EveryType
  Lengths <- MCLengths
  Rooms <- TwoRooms
  MaxFed = 1440
SPECIFICATION Spec
INVARIANTS TypeOK FiltersInStep ChannelsAligned WritesAll UnderTheRatioAsked
