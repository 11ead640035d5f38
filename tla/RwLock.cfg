\* A writer, a reader that waits for it, and a second reader.
SPECIFICATION Spec
CONSTANTS
  Cores = {c1, c2, c3}
  InitialReaders = 0
INVARIANT ReadersExcludeWriters
