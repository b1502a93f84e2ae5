-------------------------------- MODULE Suma ---------------------------------
(***************************************************************************)
(* The conversions between numbers and text of the user program suma.c, on *)
(* ints from INT_MIN to INT_MAX.  A text is a sequence of characters,      *)
(* without the zero that ends it.                                          *)
(***************************************************************************)
EXTENDS Integers, SequencesExt

CONSTANT INT_MAX    \* 2^31 - 1

ASSUME SumaAssumption == INT_MAX \in Nat

INT_MIN == -INT_MAX - 1

\* What an int holds after a computation whose result is n.
AsInt(n) == ((n - INT_MIN) % (2 * (INT_MAX + 1))) + INT_MIN

DigitChars == <<"0", "1", "2", "3", "4", "5", "6", "7", "8", "9">>
Digits == {DigitChars[k] : k \in 1..10}
DigitValue(c) == (CHOOSE k \in 1..10 : DigitChars[k] = c) - 1

Spaces == {" ", "\t"}

\* The characters of s from k on, as long as they are in set.
Run(s, k, set) ==
    SubSeq(s, k, CHOOSE last \in (k - 1)..Len(s) :
                    /\ \A j \in k..last : s[j] \in set
                    /\ last < Len(s) => s[last + 1] \notin set)

str_to_int(s) ==
    LET spaces == Len(Run(s, 1, Spaces))
        signed == Len(s) > spaces /\ s[spaces + 1] \in {"-", "+"}
        digits == Run(s, spaces + (IF signed THEN 2 ELSE 1), Digits)
        resultado[n \in 0..Len(digits)] ==
            IF n = 0 THEN 0 ELSE AsInt(resultado[n - 1] * 10 + DigitValue(digits[n]))
        num == resultado[Len(digits)]
    IN  IF signed /\ s[spaces + 1] = "-" THEN AsInt(-num) ELSE num

\* The digits of a positive num, the last one first; otherwise nothing.
Backwards[num \in 0..INT_MAX] ==
    IF num = 0 THEN <<>>
    ELSE <<DigitChars[(num % 10) + 1]>> \o Backwards[num \div 10]

\* Mutant: the last pass of the loop is left out.
int_to_str_DigitLost(num) ==
    LET n == IF num < 0 THEN AsInt(-num) ELSE num
    IN  CASE num = 0 -> <<"0">>
          [] n > 0 -> (IF num < 0 THEN <<"-">> ELSE <<>>)
                          \o Reverse(Backwards[IF n > 9 THEN n % 10 ELSE n])
          [] OTHER -> <<"-">>

\* INT_MIN is its own negative: its text is a "-" and no digit.
int_to_str(num) ==
    LET n == IF num < 0 THEN AsInt(-num) ELSE num
    IN  CASE num = 0 -> <<"0">>
          [] n > 0 -> (IF num < 0 THEN <<"-">> ELSE <<>>) \o Reverse(Backwards[n])
          [] OTHER -> <<"-">>

-----------------------------------------------------------------------------
\* What a text means, apart from what the program makes of it.
Unsigned(s) == IF s # <<>> /\ s[1] = "-" THEN Tail(s) ELSE s
IsNumeral(s) == Unsigned(s) # <<>> /\ \A k \in DOMAIN Unsigned(s) : Unsigned(s)[k] \in Digits

\* Every digit makes what is before it worth ten times as much.
Magnitude(u) ==
    LET upto[n \in 0..Len(u)] ==
            IF n = 0 THEN 0 ELSE 10 * upto[n - 1] + DigitValue(u[n])
    IN  upto[Len(u)]

Meaning(s) == IF Unsigned(s) = s THEN Magnitude(s) ELSE -Magnitude(Unsigned(s))
=============================================================================
