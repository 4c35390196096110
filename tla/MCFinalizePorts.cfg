CONSTANTS
  NodeRecord <- NodeRecords
  InfoRecord <- InfoRecords
  PortRecord <- PortRecords
  MaxRecords = 2
SPECIFICATION Spec
INVARIANTS
  PortsAreStorable
