SPECIFICATION Spec
CONSTANTS
  laptop = laptop
  phone = phone
  ann = ann
  ben = ben
  p1 = p1
  p2 = p2
  l1 = l1
  first = first
  second = second
  Devices = {laptop}
  Peers = {phone}
  Updates <- MCUpdates
  MemberOf <- MCMembers
  AuthorOf <- MCAuthors
  Deks = {first, second}
  DekOf <- MCRotated
  PageSize = 2
  RingCapacity = 1
  Live = TRUE
  MaxSeq = 3
  MaxInbox = 3
  MaxFaults = 1
INVARIANTS TypeOK MergedBehindCursor LiveNotDropped OneSubscription
CHECK_DEADLOCK FALSE
