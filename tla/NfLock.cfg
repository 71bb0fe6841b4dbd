SPECIFICATION FairSpec
CONSTANT N = 3
INVARIANTS  Exclusion TokenOwners
PROPERTIES RWSpec SomePacketFinishes
