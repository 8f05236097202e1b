CONSTANTS
  NULL = NULL
  Players = {ann, bob, cid}
  Addresses = {a1, a2}
  VocationIds = {1, 2}
SPECIFICATION Spec
SYMMETRY MCSymmetry
INVARIANTS
  MembershipAgrees
  InvitationsAgree
  BonusIsCurrent
CHECK_DEADLOCK FALSE
