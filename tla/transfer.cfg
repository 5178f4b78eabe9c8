\* Four files of two packets each, any one fault, any delay.
CONSTANTS
  Transfers <- ListOrArchive
  Blocks = 2
  Faults = {"open_fails", "write_fails", "flush_fails", "zip_fails",
            "archive_fails", "frontend_dies"}
SPECIFICATION FairSpec
INVARIANTS
  InStep
  SilenceIsSuccess
PROPERTIES
  HeldUntimedOnly
  TransferEnds
CHECK_DEADLOCK FALSE
