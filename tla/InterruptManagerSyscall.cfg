CONSTANTS
  Words = {3, 6}
  Calls = {3, 6}
  Wrap = 4
SPECIFICATION Spec
PROPERTY SyscallNumberInEAX
