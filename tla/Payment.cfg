CONSTANTS
  f1 = f1 f2 = f2
  s1 = s1 s2 = s2 s3 = s3
  q1 = q1 q2 = q2 q3 = q3
  Flow = {f1}
  Store = {"store", "store1", "store2"}
  StoreOf <- OwnStore
  Session = {s1, s2, s3}
  Quote = {q1, q2}
  NoSession = NoSession
  NoQuote = NoQuote
  NoPrice = NoPrice
  NoHash = NoHash
SYMMETRY Symmetric
SPECIFICATION Spec
INVARIANTS TypeOK SettlesItsOwnPayment ConvertsAtOwnPrice SessionServesRun

PROPERTY PaysAQuoteOnce
