\* Bytes of three bits, so that runs of five ones cross their ends, twice over.
SPECIFICATION CaptureSpec
CONSTANTS
  ByteBits = 3
  MaxSent = 9
  Formats <- ShortFormats
  LooksLike <- Lookalikes
INVARIANTS
  TypeOK
  Unstuffed
  ManchesterDecodes
  PulseWidthDecodes
  LineShowsCapture
CHECK_DEADLOCK FALSE
