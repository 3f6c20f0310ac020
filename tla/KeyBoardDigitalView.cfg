CONSTANTS
  field1 = field1
  field2 = field2
  field3 = field3
  foot1 = foot1
  foot2 = foot2
  Field = {field1, field2, field3}
  NoField = NoField
  Foot = {foot1, foot2}
  NoFoot = NoFoot
  FootOf <- MCFootOf
  HomeFoot = {foot1}
  MaxPanels = 4
SPECIFICATION FairSpec
INVARIANTS
  TypeOK
  ServesFocus
  FootIsSafe
  LetsGo
PROPERTY
  ComesHome
CHECK_DEADLOCK FALSE
