-------------------------------- MODULE Utf8 --------------------------------
(***************************************************************************)
(* Texts as bytes: how the parser of offline/tinyxml2.cc writes a          *)
(* character and how lib/cppjieba/Unicode.hpp reads it.                    *)
(***************************************************************************)
EXTENDS Integers, SequencesExt

(* The bytes of a text given as a string; a dot keeps the place of a quote,
   a backslash and a backquote, which no such string has.                  *)
Printable ==
    " !.#$%&'()*+,-./0123456789:;<=>?@ABCDEFGHIJKLMNOPQRSTUVWXYZ[.]^_.abcdefghijklmnopqrstuvwxyz{|}~"
Bytes(string) ==
    [i \in 1 .. Len(string) |->
        31 + CHOOSE n \in 1 .. 95 :
                SubSeq(Printable, n, n) = SubSeq(string, i, i)]

LF == 10
CR == 13

IsLetter(b) == b \in 65 .. 90 \/ b \in 97 .. 122
IsDigit(b) == b \in 48 .. 57
-----------------------------------------------------------------------------
(* XMLUtil::ConvertUTF32ToUTF8; a number that is too large has no bytes.   *)

Utf8Length(rune) == CASE rune < 128 -> 1
                      [] rune \in 128 .. 2047 -> 2
                      [] rune \in 2048 .. 65535 -> 3
                      [] rune \in 65536 .. 2097151 -> 4
                      [] OTHER -> 0

FirstByteMark == <<0, 192, 224, 240>>

ConvertUTF32ToUTF8(rune) ==
    LET n == Utf8Length(rune)
    IN  [i \in 1 .. n |->
            IF i = 1 THEN FirstByteMark[n] + rune \div 64 ^ (n - 1)
            ELSE 128 + ((rune \div 64 ^ (n - i)) % 64)]
-----------------------------------------------------------------------------
(* DecodeRuneInString and DecodeRunesInString                              *)

(* How many bytes the first one announces.  A byte that only continues a   *)
(* rune is taken for the first of two.                                     *)
Announced(b) == CASE b < 128 -> 1
                  [] b \in 128 .. 223 -> 2
                  [] b \in 224 .. 239 -> 3
                  [] b \in 240 .. 247 -> 4
                  [] OTHER -> 0

FirstByteMask == <<128, 32, 16, 8>>

RuneOf(bytes) ==
    LET low(rune, b) == 64 * rune + (b % 64)
    IN  FoldLeft(low, Head(bytes) % FirstByteMask[Len(bytes)], Tail(bytes))

(* RuneStr: a rune and where it stands in the text, here its bytes.        *)
RuneStr(bytes) == [rune |-> RuneOf(bytes), bytes |-> bytes]

(* A rune that is cut off, or begun by 0xf8 or more, loses the whole text. *)
Decode(s) ==
    LET none == [ok |-> FALSE, runes |-> << >>]
        from[i \in 1 .. Len(s) + 1] ==
            IF i > Len(s) THEN [ok |-> TRUE, runes |-> << >>]
            ELSE LET n == Announced(s[i])
                 IN  IF n = 0 \/ i + n - 1 > Len(s) THEN none
                     ELSE LET rest == from[i + n]
                          IN  IF ~rest.ok THEN none
                              ELSE [rest EXCEPT !.runes =
                                      <<RuneStr(SubSeq(s, i, i + n - 1))>> \o @]
    IN  from[1]

Decodes(s) == Decode(s).ok
DecodeRunes(s) == Decode(s).runes

(* IsSingleWord: one rune takes all the bytes, or there are none.          *)
IsSingleWord(s) ==
    IF s = << >> THEN TRUE ELSE Announced(Head(s)) = Len(s)

(* GetStringsFromWords: the bytes of some runes.                           *)
StringOf(runes) == FlattenSeq([i \in DOMAIN runes |-> runes[i].bytes])

(* The runes alone, which is what dictionaries are searched for.           *)
Unicode(runes) == [i \in DOMAIN runes |-> runes[i].rune]
=============================================================================
