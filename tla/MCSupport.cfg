SPECIFICATION MCSpec
CONSTANTS
  Parts = {"block", "table", "cached", "bloom", "twolevel", "cache", "tables", "writable", "manifest", "crc", "varint", "framing", "static", "pointer", "nested", "encode", "coding", "comparator", "answer", "sent", "base64", "calls", "batches", "objects"}
  Nothing = Nothing
INVARIANTS
  BlocksRight
  TablesRight
  CodecsRight
  MessagesRight
PROPERTY
  CachesRight
CHECK_DEADLOCK FALSE
