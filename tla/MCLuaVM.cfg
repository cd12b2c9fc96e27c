SPECIFICATION Spec
CONSTANTS
 MAXINDEXRK = 1
 MAXARG_C = 1
 LFIELDS_PER_FLUSH = 2
 STACKSIZE = 40
 MAXTAGLOOP = 4
 LUA_MAXCAPTURES = 3
 Charset <- MCCharset
 Ctype <- MCCtype
 Lower <- MCLower
 Programs <- MCPrograms
 Results <- MCResults
 Collation <- MCCollation
INVARIANTS AssertionsHold CodeMeansSource
