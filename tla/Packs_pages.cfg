SPECIFICATION Spec
CONSTANTS
  None = None
  q1 = q1
  q2 = q2
  t1 = t1
  pa = pa
  pb = pb
  Packs = {pa, pb}
  Names = {"x", "y"}
  Queries = {q1, q2}
  Usable = {q1}
  Texts = {t1}
  Numerals = {t1}
  Truthy = {}
  Contents <- MCContents
  Installed <- MCInstalled
  CodeSpecs <- MCSpecs
  MaxLeft = 1
  MaxSubmits = 1
  Deletable = {pb}
CHECK_DEADLOCK FALSE
INVARIANTS TypeOK OneAtATime OnlyItsOwn RunsAsConfirmed EvidenceIsOfItsList ShownIsSent NoticeIsOfThisSpec AsksTheSame
