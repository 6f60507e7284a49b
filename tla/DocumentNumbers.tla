---------------------------- MODULE DocumentNumbers ----------------------------
(***************************************************************************)
(* The check of a document number before anybody is asked about it:        *)
(* ValidateDocumentNumber, for the documents that carry a check character. *)
(* A number that passes is hashed and looked up, and opens a file when the *)
(* hash is new: a mistyped number that passes is somebody else.            *)
(*                                                                         *)
(* A document's number and what the desk typed for it go through the loop  *)
(* of the check side by side, one digit a step, each with its own sum, so  *)
(* every number there is and every slip of the desk in it is looked at.    *)
(* Spaces, dashes and lower case are gone before the check, and an NRIC    *)
(* whose first letter is not one of its five does not fit the pattern.     *)
(* The documents without a check character are left out: they pass when    *)
(* their pattern matches, mistyped or not.                                 *)
(***************************************************************************)
EXTENDS Integers, Sequences, SequencesExt

CONSTANT Documents   \* "aadhaar", "emirates_id", "nric", or some of them

ASSUME DocumentsAssumption == Documents \subseteq {"aadhaar", "emirates_id", "nric"}

Digits == 0..9

verhoeffD == <<
    <<0, 1, 2, 3, 4, 5, 6, 7, 8, 9>>, <<1, 2, 3, 4, 0, 6, 7, 8, 9, 5>>,
    <<2, 3, 4, 0, 1, 7, 8, 9, 5, 6>>, <<3, 4, 0, 1, 2, 8, 9, 5, 6, 7>>,
    <<4, 0, 1, 2, 3, 9, 5, 6, 7, 8>>, <<5, 9, 8, 7, 6, 0, 4, 3, 2, 1>>,
    <<6, 5, 9, 8, 7, 1, 0, 4, 3, 2>>, <<7, 6, 5, 9, 8, 2, 1, 0, 4, 3>>,
    <<8, 7, 6, 5, 9, 3, 2, 1, 0, 4>>, <<9, 8, 7, 6, 5, 4, 3, 2, 1, 0>> >>

verhoeffP == <<
    <<0, 1, 2, 3, 4, 5, 6, 7, 8, 9>>, <<1, 5, 7, 6, 2, 8, 3, 0, 9, 4>>,
    <<5, 8, 0, 3, 7, 9, 6, 1, 4, 2>>, <<8, 9, 1, 6, 0, 4, 3, 5, 2, 7>>,
    <<9, 4, 5, 3, 1, 2, 6, 8, 7, 0>>, <<4, 2, 8, 6, 5, 7, 3, 9, 0, 1>>,
    <<2, 7, 9, 3, 8, 0, 6, 4, 1, 5>>, <<7, 0, 4, 6, 9, 1, 3, 2, 5, 8>> >>

weights == <<2, 7, 6, 5, 4, 3, 2>>

\* An NRIC has a prefix before its digits and a check letter after them.
FirstLetters == {"S", "T", "F", "G", "M"}

PrefixAdds(p) == CASE p \in {"T", "G"} -> 4 [] p = "M" -> 3 [] OTHER -> 0

LetterTable(p) ==
    CASE p \in {"S", "T"} -> <<"J", "Z", "I", "H", "G", "F", "E", "D", "C", "B", "A">>
      [] p \in {"F", "G"} -> <<"X", "W", "U", "T", "R", "Q", "P", "N", "M", "L", "K">>
      [] p = "M"          -> <<"X", "W", "U", "T", "R", "Q", "P", "N", "J", "L", "K">>

\* The letters of the tables, and one ("O") for the rest of the alphabet.
Letters == UNION {Range(LetterTable(p)) : p \in FirstLetters} \cup {"O"}

\* How many digits the pattern asks for.
Length(document) ==
    CASE document = "aadhaar" -> 12 [] document = "emirates_id" -> 15 [] document = "nric" -> 7

\* Where the digit stands that the loop reads after i others: Verhoeff and
\* Luhn go from right to left.
Place(document, i) == IF document = "nric" THEN i + 1 ELSE Length(document) - i

\* The digits the pattern lets stand there.
Fitting(document, place) ==
    CASE document = "aadhaar" /\ place = 1      -> 2..9
      [] document = "emirates_id" /\ place <= 3 -> {<<7, 8, 4>>[place]}
      [] OTHER                                  -> Digits

\* Verhoeff: the digits are permuted, differently from place to place.
Permuted(i, d) == verhoeffP[(i % 8) + 1][d + 1]

\* Seeded fault: a doubled digit of two figures is not reduced to one.
DoubledUnreduced(i, d) == IF i % 2 = 1 THEN 2 * d ELSE d

\* Luhn: every second digit is doubled, and the figures of the double added.
Doubled(i, d) ==
    LET e == IF i % 2 = 1 THEN 2 * d ELSE d IN IF e > 9 THEN e - 9 ELSE e

\* The body of the loop.  Luhn's and the NRIC's sums are kept modulo what
\* they are divided by in the end.
Add(document, s, i, d) ==
    CASE document = "aadhaar"     -> verhoeffD[s + 1][Permuted(i, d) + 1]
      [] document = "emirates_id" -> (s + Doubled(i, d)) % 10
      [] document = "nric"        -> (s + d * weights[i + 1]) % 11

\* What the check says of the sum of all digits.
Passes(document, s, p, letter) ==
    IF document = "nric" THEN letter = LetterTable(p)[((s + PrefixAdds(p)) % 11) + 1]
                         ELSE s = 0

VARIABLES
    doc,        \* what is presented
    prefix,     \* of the number on the document, if it is an NRIC
    sum,        \* of the digits of that number read so far, 0..10
    typedPrefix,
    typed,      \* sum of the digits as typed, 0..10
    fits,       \* what was typed matches the pattern so far
    at,         \* digits read
    slip,       \* what the desk got wrong: "none", "character", "swap", "swap 0 9"
    verdict     \* does the number on the document pass, does the typed one

vars == <<doc, prefix, sum, typedPrefix, typed, fits, at, slip, verdict>>

Unread == [genuine |-> FALSE, typed |-> FALSE]

\* What may be presented, as it is and as its first letter is typed.
Presented ==
    {<<d, p, q>> \in Documents \X FirstLetters \X FirstLetters : d = "nric" \/ (p = "S" /\ q = "S")}

FirstSlip(p, q) == IF p = q THEN "none" ELSE "character"

Init ==
    /\ \E <<d, p, q>> \in Presented : doc = d /\ prefix = p /\ typedPrefix = q
    /\ slip = FirstSlip(prefix, typedPrefix)
    /\ sum = 0 /\ typed = 0 /\ at = 0
    /\ fits = TRUE /\ verdict = Unread

Reading == at < Length(doc)

\* The next digit of the document, and what the desk typed for it.
ReadDigit(d, e) ==
    /\ Reading
    /\ d \in Fitting(doc, Place(doc, at))
    /\ sum' = Add(doc, sum, at, d)
    /\ typed' = Add(doc, typed, at, e)
    /\ fits' = (fits /\ e \in Fitting(doc, Place(doc, at)))
    /\ at' = at + 1
    /\ UNCHANGED <<doc, prefix, typedPrefix, verdict>>

Copy(d) == ReadDigit(d, d) /\ UNCHANGED slip

Mistype(d, e) ==
    /\ slip = "none" /\ d # e
    /\ ReadDigit(d, e)
    /\ slip' = "character"

\* Two neighbours change places.
Swap(d, e) ==
    /\ slip = "none" /\ d # e
    /\ at + 1 < Length(doc)
    /\ d \in Fitting(doc, Place(doc, at)) /\ e \in Fitting(doc, Place(doc, at + 1))
    /\ sum' = Add(doc, Add(doc, sum, at, d), at + 1, e)
    /\ typed' = Add(doc, Add(doc, typed, at, e), at + 1, d)
    /\ fits' = (fits /\ e \in Fitting(doc, Place(doc, at)) /\ d \in Fitting(doc, Place(doc, at + 1)))
    /\ at' = at + 2
    /\ slip' = IF {d, e} = {0, 9} THEN "swap 0 9" ELSE "swap"
    /\ UNCHANGED <<doc, prefix, typedPrefix, verdict>>

\* All digits are read; an NRIC's letter was the last to be typed.
Conclude(letter, other) ==
    /\ at = Length(doc)
    /\ \/ letter = other /\ UNCHANGED slip
       \/ doc = "nric" /\ letter # other /\ slip = "none" /\ slip' = "character"
    /\ verdict' = [genuine |-> Passes(doc, sum, prefix, letter),
                   typed   |-> fits /\ Passes(doc, typed, typedPrefix, other)]
    /\ at' = at + 1
    /\ UNCHANGED <<doc, prefix, sum, typedPrefix, typed, fits>>

\* The next guest at the desk.
Present ==
    /\ at > Length(doc)
    /\ \E <<d, p, q>> \in Presented :
           /\ doc' = d /\ prefix' = p /\ typedPrefix' = q
           /\ slip' = FirstSlip(p, q)
    /\ sum' = 0 /\ typed' = 0 /\ at' = 0
    /\ fits' = TRUE /\ verdict' = Unread

Next ==
    \/ \E d \in Digits : Copy(d)
    \/ \E d, e \in Digits : Mistype(d, e)
    \/ \E d, e \in Digits : Swap(d, e)
    \/ \E letter, other \in Letters : Conclude(letter, other)
    \/ Present

Spec == Init /\ [][Next]_vars

-----------------------------------------------------------------------------
\* A genuine number with one character mistyped, the NRIC's letters included,
\* or with two neighbouring digits in the wrong order does not pass: it is
\* never taken for another person's (ValidateDocumentNumber, "A typo caught
\* locally costs nothing").  Luhn has one blind spot, which the Emirates ID
\* shares: a 0 and a 9 next to each other.
SlipIsCaught ==
    slip # "none" /\ ~(slip = "swap 0 9" /\ doc = "emirates_id") =>
        ~(verdict.genuine /\ verdict.typed)
=============================================================================
