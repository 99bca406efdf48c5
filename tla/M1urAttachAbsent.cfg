\* The EEPROM check reading 0 during an attach.
SPECIFICATION Spec
INVARIANT AbsentFailsAttach
