\* Three calls of up to two units over three prices: levels opened between
\* others, partial fills, skipped orders, cancels whenever the mutex is free.
CONSTANTS
  Orders = {o1, o2, o3}
  Users = {alice, bob}
  MinPrice = 1
  MaxPrice = 3
  MaxQty = 2
  Subscribers = {}
  FeedCap = 0
  NoOne = NoOne
SPECIFICATION ASpec
SYMMETRY Symmetry
CHECK_DEADLOCK FALSE
INVARIANTS
  BookWellFormed
  BookAtRest
  NeverOverfilled
  QuantitiesAddUp
  OnlySkippedLosePlace
PROPERTIES
  PriceTimePriority
  CallsAreAtomic
  ImplementsPriceBook
