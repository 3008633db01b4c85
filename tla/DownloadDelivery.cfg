SPECIFICATION FairSpec
CONSTANTS
  laptop = laptop
  phone = phone
  ann = ann
  ben = ben
  p1 = p1
  p2 = p2
  l1 = l1
  first = first
  second = second
  Devices = {laptop}
  Peers = {phone}
  Updates <- MCUpdates
  MemberOf <- MCMembers
  AuthorOf <- MCAuthors
  Deks = {first}
  DekOf <- MCOneKey
  PageSize = 1
  RingCapacity = 1
  Live = FALSE
  MaxSeq = 2
  MaxInbox = 2
  MaxFaults = 2
PROPERTIES Delivered Reconnects
CHECK_DEADLOCK FALSE
