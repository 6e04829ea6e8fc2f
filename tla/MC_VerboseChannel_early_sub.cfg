\* One verbose write then one verbose read; BILLION scaled to 2, readings
\* up to 1 second.
CONSTANTS
  Billion = 2
  NumRepeat = 1
  MaxSec = 1
  StackGarbage <- StackValues
SPECIFICATION Spec
INVARIANT AssertsNeverFire
