CONSTANTS
  k1 = k1
  k2 = k2
  v1 = v1
  v2 = v2
  v3 = v3
  Key <- MCKey
  Elem <- MCElem
  Absent = Absent
  MaxLen = 3
  Args <- MCArgs
  Indices <- MCIndices
  Counts <- MCCounts
  SizeRange = 256
  NumberOf <- MCNumberOf
  Uppercase <- MCUppercase
  Lines <- MCLines
  Symbols <- MCSymbols
  MaxLine = 5
  Texts <- MCTexts
  Stray = "stray"
SPECIFICATION SSpec
PROPERTY PopsOneByDefault
