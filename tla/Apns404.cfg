SPECIFICATION Spec
INVARIANT Apns404KeepsDevice
CHECK_DEADLOCK FALSE
