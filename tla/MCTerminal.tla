----------------------------- MODULE MCTerminal ------------------------------
(* Terminal on a screen of a few cells, with texts of a character or two. *)
EXTENDS Terminal

MCDemoRow == [t \in Task |-> t]
MCScancodes == {"4", "-", "BS", "\n", NoChar, Release}

MCText == [name \in Texts |->
    CASE name = "banner"    -> <<"#", "\n">>
      [] name = "prompt"    -> <<">">>
      [] name = "enter"     -> <<"<">>
      [] name = "output"    -> <<"o", "\n">>
      [] name = "loading"   -> <<>>
      [] name = "ask"       -> <<"\n", ":">>
      [] name = "again"     -> <<":">>
      [] name = "a"         -> <<"\n">>
      [] name = "b"         -> <<"\n", "+">>
      [] name = "sum"       -> <<"\n", "=">>
      [] name = "end"       -> <<"\n", "(">>
      [] name = "ended"     -> <<")", "\n">>]

\* Edited without following the keys: a character is left unless, at some place
\* behind it, more backspaces than other characters have come since.
Count(s, from, to, erasing) ==
    Cardinality({k \in from..to : (s[k] = "BS") = erasing})
Survives(s, k) ==
    /\ s[k] # "BS"
    /\ \A m \in (k + 1)..Len(s) : Count(s, k + 1, m, TRUE) <= Count(s, k + 1, m, FALSE)
Left(s) ==
    LET rest == SetToSortSeq({k \in DOMAIN s : Survives(s, k)}, <)
    IN  [k \in DOMAIN rest |-> s[rest[k]]]

\* What a sequence of digits is worth, digit by digit.
Worth(u) ==
    MapThenFoldSet(+, 0, LAMBDA k : DigitValue(u[k]) * 10^(Len(u) - k),
                   LAMBDA S : CHOOSE k \in S : TRUE, DOMAIN u)

\* Edited and Magnitude agree with them, on every text of up to six characters
\* and every number of up to five digits of some values.
ASSUME ReferenceAssumption ==
    /\ \A s \in BoundedSeq({"4", "-", "BS"}, 6) : Edited(s) = Left(s)
    /\ \A u \in BoundedSeq({"0", "1", "4", "9"}, 5) : Magnitude(u) = Worth(u)
=============================================================================
