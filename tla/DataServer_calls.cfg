\* Two clients that allocate, copy and free buffers, one length not a whole
\* number of beats, under fair scheduling; one does not wait for the server and
\* may fail to map a buffer.
SPECIFICATION FairSpec
CONSTANTS
  c1 = c1
  c2 = c2
  Client = {c1, c2}
  Lens = {3, 8}
  Beat = 2
  MaxBeats = 3
  Addrs = {0, 8, 16, 24}
  MaxCalls = 4
  Early = {c1}
  Failers = {c1}
INVARIANTS
  BuffersMapped
  NoThrow
  CopyWhole
  AnswersCaller

  
CHECK_DEADLOCK FALSE
