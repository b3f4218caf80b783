SPECIFICATION Spec
CONSTANTS
  Threads = {t, u}
  NumBuffers = 3
  NoBuffer = NoBuffer
INVARIANT OneOwner
