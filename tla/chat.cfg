\* A viewer, two languages and two messages for which the server and the browser leave
\* out different languages, one of them sent at a time, or two read from the history.
\* Every part may come to an end: messages, calls, requests and changes are bounded.
SPECIFICATION Spec
CONSTANTS
  LastMessage = 2
  ServerSkips <- SkippedByServer
  ViewerSkips <- SkippedByViewer
  Langs = {ko, en}
  AccountLang = ko
  Off = Off
  Unset = Unset
  ScanItems = 1
  BatchItems = 1
  Retries = 1
  MaxChanges = 1
  MaxDrops = 1
  Calls = {c1, c2, c3, c4, c5}
  Concurrency = 2
  Rpm = 3
  QueueWindow = 2
  PartCount = 4
  Sizes = {2, 3, 6, 7}
  Budget = 6
  Asks = {a1, a2, a3}
  Texts = {t1, t2, t3}
  MemoryMax = 2
  NoAsk = NoAsk
  Rows = {m1, m2, m3}
  Runs = {r1, r2}
  DeleteBatch = 2
  Characters <- SomeCharacters
  MaxText = 5
INVARIANTS
  TypeOK
  ViewerServed
  PipelineSound
  SqlSound
PROPERTIES
  TranslationsEnd
CHECK_DEADLOCK FALSE
