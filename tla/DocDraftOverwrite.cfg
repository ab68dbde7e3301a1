\* The doc the user never saw is overwritten after an answer named its version.
CONSTANTS
  Texts = {t0, t1}
  MaxVersion = 4
  MaxOpens = 1
SPECIFICATION DocSpec
PROPERTY RefinesStrict
CHECK_DEADLOCK FALSE
