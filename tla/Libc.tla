-------------------------------- MODULE Libc --------------------------------
(***************************************************************************)
(* Functions of libc and libnmath against what they are meant to compute,  *)
(* on every small input: atol of strton.c, the conversions of printf.c,    *)
(* the line editing of scanf.c and arithmetic.c.  The loops of the code    *)
(* are the recursive operators here; the reference definitions (Ref...)    *)
(* have none.                                                              *)
(***************************************************************************)
EXTENDS Integers, Sequences, FiniteSets, SequencesExt, FiniteSetsExt

CONSTANTS
  AtolLen,    \* longest string given to atol
  KeyLen,     \* longest line typed into scanf
  Numbers,    \* numbers printed
  MaxNum      \* largest argument of the functions of arithmetic.c

ASSUME LibcConstants == AtolLen \in Nat /\ KeyLen \in Nat /\ MaxNum \in Nat

-----------------------------------------------------------------------------
(* strton.c: atol of a string over digits, signs, a space and a letter. *)
Digits == 0 .. 9
AtolChars == {0, 1, 7} \cup {10, 11, 12, 13}   \* 10 "-", 11 "+", 12 " ", 13 "x"
At(s, i) == IF i <= Len(s) THEN s[i] ELSE 14   \* 14: the terminator
RECURSIVE TrailWhitespace(_, _), IntegerTraverse(_, _, _)
TrailWhitespace(s, i) == IF At(s, i) = 12 THEN TrailWhitespace(s, i + 1) ELSE i
IntegerTraverse(s, i, a) == IF At(s, i) \in Digits THEN IntegerTraverse(s, i + 1, a * 10 + At(s, i)) ELSE a
\* Mutant of Atol: a sign is skipped before the spaces only.
AtolSignFirst(s) ==
  LET i == IF At(s, 1) \in {10, 11} THEN 2 ELSE 1
      a == IntegerTraverse(s, TrailWhitespace(s, i), 0)
  IN IF At(s, 1) = 10 /\ a # 0 THEN -a ELSE a
Atol(s) ==
  LET i == TrailWhitespace(s, 1)
      j == IF At(s, i) \in {10, 11} THEN i + 1 ELSE i
      a == IntegerTraverse(s, j, 0)
  IN IF At(s, i) = 10 /\ a # 0 THEN -a ELSE a

\* The value of a sequence of digits.
Value(ds) == FoldLeft(LAMBDA a, d : a * 10 + d, 0, ds)
\* Spaces, a sign or none, then the digits up to the first other character.
RefAtol(s) ==
  LET p == Min({k \in 1 .. Len(s) + 1 : At(s, k) # 12})
      q == IF At(s, p) \in {10, 11} THEN p + 1 ELSE p
      e == Min({k \in q .. Len(s) + 2 : At(s, k) \notin Digits})
  IN Value(SubSeq(s, q, e - 1)) * (IF At(s, p) = 10 THEN -1 ELSE 1)

-----------------------------------------------------------------------------
(* printf.c.  A character of a format is a digit or one of the following; one
   that is printed may also be a hexadecimal digit, 0 .. 15. *)
Pct == 20
D == 21
X == 22
U == 23
L == 24
Text == 25
Newline == 26
CarriageReturn == 27
Minus == 28

RECURSIVE RevDigits(_, _)
RevDigits(n, radix) ==
  IF n < radix THEN <<n>> ELSE <<n % radix>> \o RevDigits(n \div radix, radix)
\* Mutant of Unumprint: the padding does not count the digits.
UnumprintPadsMore(n, radix, padc, padn) ==
  [i \in 1 .. padn |-> padc] \o Reverse(RevDigits(n, radix))
Unumprint(n, radix, padc, padn) ==
  LET buf == RevDigits(n, radix)
  IN [i \in 1 .. padn - Len(buf) |-> padc] \o Reverse(buf)
\* __fputc to stdout or to the log.
Putc(c) == IF c = Newline THEN <<Newline, CarriageReturn>> ELSE <<c>>

\* vprintf: the characters it prints.  Conversion is the switch after a "%", at
\* the label loop; padc is kept from one conversion to the next.
RECURSIVE Vprintf(_, _, _), Conversion(_, _, _, _), Width(_, _, _)
Vprintf(fmt, args, padc) ==
  IF fmt = <<>> THEN <<>>
  ELSE IF Head(fmt) = Pct THEN Conversion(Tail(fmt), args, padc, 0)
  ELSE Putc(Head(fmt)) \o Vprintf(Tail(fmt), args, padc)
Conversion(fmt, args, padc, padn) ==
  LET f == IF fmt = <<>> THEN -1 ELSE Head(fmt)
      rest == Vprintf(Tail(fmt), Tail(args), padc)
      num == Head(args)
  IN CASE f = D /\ num < 0  -> <<Minus>> \o Unumprint(-num, 10, padc, padn - 1) \o rest
       [] f = D /\ num >= 0 -> Unumprint(num, 10, padc, padn) \o rest
       [] f = U -> Unumprint(num, 10, padc, padn) \o rest
       [] f = X -> Unumprint(num, 16, padc, padn) \o rest
       [] f = L -> Conversion(Tail(fmt), args, padc, padn)
       [] f = 0 -> Width(Tail(fmt), args, 0)
       [] f = Pct -> <<Pct>> \o Vprintf(Tail(fmt), args, padc)
       [] OTHER -> <<>>                                    \* return -1
Width(fmt, args, padn) ==
  IF fmt # <<>> /\ Head(fmt) \in Digits THEN Width(Tail(fmt), args, padn * 10 + Head(fmt))
  ELSE Conversion(fmt, args, 0, padn)

\* The directives a format is made of, and what each should print.
Directives == [conv : {D, X, U}, width : {0, 1, 3, 10}, long : BOOLEAN]
              \cup [conv : {Pct, Text, Newline}, width : {0}, long : {FALSE}]
FmtOf(d) ==
  CASE d.conv \in {Text, Newline} -> <<d.conv>>
    [] d.conv = Pct -> <<Pct, Pct>>
    [] OTHER -> <<Pct>> \o (IF d.width = 0 THEN <<>> ELSE IF d.width = 10 THEN <<0, 1, 0>> ELSE <<0, d.width>>)
                \o (IF d.long THEN <<L>> ELSE <<>>) \o <<d.conv>>
RefDigits(n, radix) ==
  LET k == Min({j \in 1 .. 6 : n < radix^j}) IN [i \in 1 .. k |-> (n \div radix^(k - i)) % radix]
Absolute(n) == IF n < 0 THEN -n ELSE n
RefPrint(d, n) ==
  LET ds == RefDigits(Absolute(n), IF d.conv = X THEN 16 ELSE 10)
      sign == IF n < 0 THEN <<Minus>> ELSE <<>>
  IN CASE d.conv = Newline -> <<Newline, CarriageReturn>>
       [] d.conv \in {Text, Pct} -> <<d.conv>>
       [] OTHER -> sign \o [i \in 1 .. d.width - Len(ds) - Len(sign) |-> 0] \o ds
\* A format of two directives, the second with its own number.
PrintCalls(d, e, n, k) ==
  LET num(f, v) == IF f.conv \in {D, X, U} THEN <<v>> ELSE <<>>
  IN (d.conv \in {U, X} => n >= 0) /\ (e.conv \in {U, X} => k >= 0) =>
       Vprintf(FmtOf(d) \o FmtOf(e), num(d, n) \o num(e, k) \o <<0>>, 0) = RefPrint(d, n) \o RefPrint(e, k)

-----------------------------------------------------------------------------
(* scanf.c: %d and %s of what is typed up to a space. *)
Backspace == 15
Keys == {0, 5, 10, 13, Backspace}     \* two digits, "-", a letter and the backspace
RECURSIVE ScanDigits(_, _, _), ScanChars(_, _, _)
ScanDigits(ks, i, a) ==
  IF i > Len(ks) THEN a
  ELSE ScanDigits(ks, i + 1, IF ks[i] \in Digits THEN a * 10 + ks[i]
                             ELSE IF ks[i] = Backspace /\ a # 0 THEN a \div 10 ELSE a)
ScanInt(ks) ==
  LET a == ScanDigits(ks, 2, IF ks[1] \in Digits THEN ks[1] ELSE 0)
  IN IF ks[1] = 10 THEN -a ELSE a
ScanChars(ks, i, s) ==
  IF i > Len(ks) THEN s
  ELSE ScanChars(ks, i + 1, IF ks[i] = Backspace /\ s # <<>> THEN Front(s) ELSE Append(s, ks[i]))
ScanString(ks) == ScanChars(ks, 2, <<ks[1]>>)

\* A line editor: a backspace takes away the key before it.
Edit(keep, ks) ==
  FoldLeft(LAMBDA s, k : IF k = Backspace THEN (IF s = <<>> THEN s ELSE Front(s))
                         ELSE IF k \in keep THEN Append(s, k) ELSE s, <<>>, ks)
Count(ks, j, P(_)) == Cardinality({i \in 1 .. j : P(ks[i])})
NeverEmpty(ks) ==
  \A j \in 1 .. Len(ks) : Count(ks, j, LAMBDA k : k = Backspace) <= Count(ks, j, LAMBDA k : k # Backspace)
ScanCalls(ks) ==
  /\ ScanInt(ks) = Value(Edit(Digits, IF ks[1] = 10 THEN Tail(ks) ELSE ks)) * (IF ks[1] = 10 THEN -1 ELSE 1)
  /\ NeverEmpty(ks) => ScanString(ks) = Edit(Keys, ks)

-----------------------------------------------------------------------------
(* arithmetic.c *)
RECURSIVE Clog2(_), Gcd(_, _)
Clog2(n) == IF n > 1 THEN 1 + Clog2(IF n % 2 = 1 THEN (n + 1) \div 2 ELSE n \div 2) ELSE 0
Gcd(a, b) == IF b = 0 THEN a ELSE Gcd(b, a % b)
ArithmeticCalls(a, b) ==
  /\ a > 0 => Clog2(a) = Min({k \in 0 .. a : 2^k >= a})
  /\ a + b > 0 => Gcd(a, b) = Max({d \in 1 .. a + b : a % d = 0 /\ b % d = 0})

-----------------------------------------------------------------------------
(* A behaviour is one call: its arguments are chosen, then it is made. *)
VARIABLES job, good
libcVars == <<job, good>>

LibcInit ==
  /\ good = "unknown"
  /\ \/ \E n \in 0 .. AtolLen : \E s \in [1 .. n -> AtolChars] : job = [f |-> "atol", s |-> s]
     \/ \E d, e \in Directives : job = [f |-> "printf", d |-> d, e |-> e]
     \/ \E n \in 1 .. KeyLen : \E ks \in [1 .. n -> Keys] : job = [f |-> "scanf", ks |-> ks]
     \/ \E a \in 0 .. MaxNum, b \in 0 .. MaxNum : job = [f |-> "arithmetic", a |-> a, b |-> b]

Returned(ok) == good = "unknown" /\ good' = (IF ok THEN "yes" ELSE "no") /\ UNCHANGED job
CallAtol == job.f = "atol" /\ Returned(Atol(job.s) = RefAtol(job.s))
CallPrintf ==
  job.f = "printf" /\ Returned(\A n, k \in Numbers : PrintCalls(job.d, job.e, n, k))
CallScanf == job.f = "scanf" /\ Returned(ScanCalls(job.ks))
CallArithmetic == job.f = "arithmetic" /\ Returned(ArithmeticCalls(job.a, job.b))

LibcNext == CallAtol \/ CallPrintf \/ CallScanf \/ CallArithmetic
LibcSpec == LibcInit /\ [][LibcNext]_libcVars

\* atol, the conversions of vprintf with their padding, the line editing of
\* vscanf, clog2 and gcd: every call on the bounded inputs, the empty ones
\* included, gives what its reference gives.
LibcExact == good # "no"
=============================================================================
