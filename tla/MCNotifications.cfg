SPECIFICATION Spec
CONSTANTS
  ann = ann
  bob = bob
  m1 = m1
  m2 = m2
  hello1 = hello1
  hello2 = hello2
  room = room
  s1 = s1
  s2 = s2
  phone = phone
  None = None
  Sessions = {s1, s2}
  Users = {ann, bob}
  Endpoints = {phone}
  Inputs = {m1, m2, hello1, hello2}
  Welcomes = {hello1, hello2}
  OwnerOf <- MCOwnerOf
  RoomOf <- MCRoomOf

SYMMETRY Symmetry
INVARIANTS OneUnreadWhileDue BothLanguagesAgree NeverToStranger
CHECK_DEADLOCK FALSE
