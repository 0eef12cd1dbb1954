------------------------------ MODULE SizeFormat ------------------------------
(***************************************************************************)
(* HumanReadableSize (utils.cpp): a size of at most five characters and a  *)
(* suffix, printed into a buffer of eight.  The text is a record: the      *)
(* number shown, in tenths; whether the decimal is shown; the suffix.      *)
(***************************************************************************)
EXTENDS Integers, Sequences

CONSTANT Kibi     \* 1024

ASSUME KibiAssumption == Kibi \in Nat \ {0, 1}

\* TiB is missing.
suffixes == <<"b", "KiB", "MiB", "GiB", "PiB">>

\* What the units stand for.
Exponent == [b |-> 0, KiB |-> 1, MiB |-> 2, GiB |-> 3, TiB |-> 4, PiB |-> 5]

\* int(log2(bytes)) / 10, for bytes > 0
Log(bytes) ==
  LET log[n \in Nat] == IF n < Kibi THEN 0 ELSE 1 + log[n \div Kibi]
  IN  log[bytes]

\* The tenths of bytes / unit as printf rounds them: to the nearest, a tie to
\* the even one.
Tenths(bytes, unit) ==
  LET down == (10 * bytes) \div unit
      rest == 2 * ((10 * bytes) % unit)
  IN  IF rest > unit \/ (rest = unit /\ down % 2 = 1) THEN down + 1 ELSE down

\* Fault: the first digit behind the point is never rounded.
HumanReadableCut(bytes) ==
  IF bytes = 0 THEN [tenths |-> 0, decimal |-> FALSE, suffix |-> ""]
  ELSE LET k == Log(bytes)
           unit == Kibi ^ k
           whole == k = 0 \/ bytes \div unit >= 100
       IN  [tenths  |-> IF whole THEN 10 * (bytes \div unit) ELSE (10 * bytes) \div unit,
            decimal |-> ~whole,
            suffix  |-> suffixes[k + 1]]

HumanReadableSize(bytes) ==
  IF bytes = 0 THEN [tenths |-> 0, decimal |-> FALSE, suffix |-> ""]
  ELSE LET k == Log(bytes)
           unit == Kibi ^ k
           whole == k = 0 \/ bytes \div unit >= 100
       IN  [tenths  |-> IF whole THEN 10 * (bytes \div unit) ELSE Tenths(bytes, unit),
            decimal |-> ~whole,
            suffix  |-> suffixes[k + 1]]

DigitsOf(n) ==
  LET digits[i \in Nat] == IF i < 10 THEN 1 ELSE 1 + digits[i \div 10]
  IN  digits[n]

\* How many characters the text has.
Width(text) ==
  DigitsOf(text.tenths \div 10) + (IF text.decimal THEN 2 ELSE 0) +
  (IF text.suffix = "" THEN 0 ELSE IF text.suffix = "b" THEN 1 ELSE 3)
==============================================================================
