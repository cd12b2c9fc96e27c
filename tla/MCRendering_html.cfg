SPECIFICATION FairSpec
CONSTANTS
  a = a
  A = A
  b = b
  ta = ta
  tb = tb
  u = u
  v = v
  plain = plain
  linked = linked
  undefined = undefined
  toB = toB
  toA = toA
  defining = defining
  broken = broken
  None = None
  Labels = {a, A, b}
  Tags = {ta, tb}
  normalize_tag <- MCTag
  Urls = {u, v}
  Bodies = {plain, linked, undefined, toB, toA, defining, broken}
  BodyOf <- MCBodyOf
  InlineBodies <- MCInlineBodies
  Documents <- MCDocuments
  Writer = "html"
  userReferences = None
  MaxDocs = 1
INVARIANTS NumbersUnique PromisedNotesDelivered
PROPERTIES LinksResolve Renders Terminates
CHECK_DEADLOCK FALSE
