\* PlaceOrder calls compete for the mutex, with cancels, and skip own orders;
\* their events go into a channel of two slots that is read slowly or not.
CONSTANTS
  Orders = {1, 2, 3}
  Users = {1, 2}
  MinPrice = 1
  MaxPrice = 1
  MaxQty = 2
  Subscribers = {s1}
  FeedCap = 2
  NoOne = NoOne
SPECIFICATION FairSpec
CONSTRAINT Explored
CHECK_DEADLOCK FALSE
INVARIANTS
  FeedKeepsTakerOrder
PROPERTIES
  PlaceOrderReturns
