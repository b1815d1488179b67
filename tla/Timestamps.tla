----------------------------- MODULE Timestamps -----------------------------
(***************************************************************************)
(* Points in time and the RFC 3339 texts the service compares.             *)
(*                                                                         *)
(* The database keeps an instant as a number of ticks (microseconds in the *)
(* real system); a tick count is written as a text by Go's RFC3339Nano     *)
(* layout in UTC, which drops the trailing zeros of the fraction and the   *)
(* whole fraction when it is zero.  A client writes its own texts: any     *)
(* number of fraction digits, and the time of any zone.  Push compares the *)
(* two TEXTS, character by character, not the instants.                    *)
(*                                                                         *)
(* A text is modelled as a sequence: the date-and-second part it shows,    *)
(* whose place among the server's is a number of seconds, then the         *)
(* characters that follow: the fraction, and "Z" or the sign of an offset  *)
(* (the digits of an offset never decide: the server's texts end in "Z").  *)
(* Characters are numbers in the order of their codes:                     *)
(* "+", "-" < "." < digits < "Z".                                          *)
(***************************************************************************)
EXTENDS Integers, Sequences

CONSTANTS Base,          \* digits of the fraction are 0 .. Base - 1
          Digits         \* fraction digits the database keeps

TicksPerSecond == Base ^ Digits

(* That a power of Base is a positive number is stated here because the    *)
(* proof system knows no law of ^.                                         *)
ASSUME TimestampAssumption ==
    /\ Base \in Nat \ {0, 1}
    /\ Digits \in Nat
    /\ TicksPerSecond \in Nat \ {0}

Sec(t) == t \div TicksPerSecond

Frac(t) == t % TicksPerSecond

(* What a client may send: at least the date and the time. *)
Texts == {x \in Seq(Int) : x # <<>>}

(* The second a text shows, whatever instant it stands for. *)
Shown(text) == text[1]

Sign == -1
Dot == 0
DigitChar(d) == d + 1
Zulu == Base + 1

(* The i-th fraction digit of instant t. *)
FracDigit(t, i) ==
    IF i > Digits THEN 0 ELSE (Frac(t) \div (Base ^ (Digits - i))) % Base

(* The last fraction digit of t that is not zero, 0 when there is none. *)
LastDigit(t) ==
    CHOOSE n \in 0 .. Digits :
        /\ n > 0 => FracDigit(t, n) # 0
        /\ \A i \in (n + 1) .. Digits : FracDigit(t, i) = 0

TextWith(second, t, n, end) ==
    <<second>> \o (IF n = 0
                   THEN <<>>
                   ELSE <<Dot>> \o [i \in 1 .. n |-> DigitChar(FracDigit(t, i))])
               \o <<end>>

(* time.Time.Format(time.RFC3339Nano): trailing zeros are trimmed. *)
ServerText(t) == TextWith(Sec(t), t, LastDigit(t), Zulu)

(* A text that stands for instant t in the zone that is offset seconds     *)
(* ahead, with n digits: what the parser of clientModifiedAt accepts.      *)
ClientText(t, offset, n) ==
    TextWith(Sec(t) + offset, t, n, IF offset = 0 THEN Zulu ELSE Sign)

(* Go's a > b on strings. *)
TextAfter(a, b) ==
    \E i \in DOMAIN a :
        /\ i \in DOMAIN b => a[i] > b[i]
        /\ \A j \in 1 .. (i - 1) : j \in DOMAIN b /\ a[j] = b[j]
=============================================================================
