SPECIFICATION Spec
PROPERTY MpRight KeyRight CryptoRight
CHECK_DEADLOCK FALSE
