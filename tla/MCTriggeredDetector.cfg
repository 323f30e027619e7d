SPECIFICATION Spec
CONSTANTS
  Byte <- MCByte
  Zero = "-"
  Signatures <- MCSignatures
  MaxChanges = 7
INVARIANTS
  TypeOK
  ShownIsReported
  ReportedIsScattered
  ShortSignaturesExact
  OpenMatchResumes
  DoubledStartNeverReported
