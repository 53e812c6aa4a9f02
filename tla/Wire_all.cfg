\* Two frames of the client in every form, read in every possible way; or three
\* connections that send and close while their buffers go through the pool; or two
\* calls on one connection.
SPECIFICATION WriteSpec
CONSTANTS
  c1 = c1
  c2 = c2
  c3 = c3
  c4 = c4
  g1 = g1
  g2 = g2
  g3 = g3
  g4 = g4
  Xor <- ByteXor
  Inputs <- ClientFrames
  MaxInputs = 2
  MaxMessageSize = 14
  Conns = {c1, c2, c3, c4}
  Calls = {g1, g2, g3, g4}
  ConnOf <- Senders
  Settings <- Runs
INVARIANT Unmasked
INVARIANT OwnBytesOnly
INVARIANT HeaderIsRead
SYMMETRY Symmetry
CHECK_DEADLOCK FALSE
