\* One thread fetches and takes.  Serial numbers are negative ints from the
\* fourth on, the sixth operation cannot be read, an answer holds three.
CONSTANTS
  Enqueuers = {}
  Dequeuers = {poller}
  Clearers = {}
  Fetchers = {poller}
  CallerOps = {}
  MaxSerial = 6
  Half = 4
  Unreadable = {6}
  MaxAnswer = 3
  None = None
SPECIFICATION Spec
INVARIANT FetchedExactlyOnce
PROPERTY StuckStays
