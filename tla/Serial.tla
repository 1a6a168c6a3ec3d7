------------------------------ MODULE Serial ------------------------------
(***************************************************************************)
(* The serial log, Serial/serial.c: serial_fwrite, which walks a format    *)
(* and writes one line, and the conversions of numbers.  The statics of    *)
(* serial_i2s, its buffer and the cache of the last value, live from one   *)
(* call to the next; the log id of each line goes through them.            *)
(*                                                                         *)
(* A line and a buffer are sequences of characters.  A format is given by  *)
(* its pieces, directives and other characters; serial_fwrite sees only    *)
(* its text.  Numbers have no width: the overflows of -INT_MIN and of the  *)
(* log id are left out, and so is the case of hexadecimal digits.          *)
(***************************************************************************)
EXTENDS Integers, Sequences, SequencesExt

CONSTANTS
    Formats,    \* the formats of the calls, sequences of pieces
    Ints,       \* the values that are printed with %d, %i, %lld
    Words,      \* the values that are printed with %u, %o, %x, %llu and %p
    HexCells,   \* the length of buf in serial_write_hex: 16
    MaxLines    \* bound: the calls of a behaviour

ASSUME SerialAssumption ==
    /\ Ints \subseteq Int /\ Words \subseteq Nat
    /\ HexCells \in Nat \ {0, 1} /\ MaxLines \in Nat

VARIABLES
    serial_log_id,
    i2s,        \* the statics of serial_i2s: temp, last_value, initialized
    fmt,        \* the format of the last call
    p,          \* the index of the character it looks at, 0 when it returned
    args,       \* the arguments that va_arg has not returned yet
    out,        \* what was written since the call began
    overrun,    \* whether serial_write_hex stored behind its buf in this call
    given       \* history: what the caller gave for each piece of fmt

serialVars == <<serial_log_id, i2s, fmt, p, args, out, overrun, given>>

SerialInit ==
    /\ serial_log_id = 0
    /\ i2s = [temp |-> <<>>, last_value |-> 0, initialized |-> FALSE]
    /\ fmt = <<>> /\ p = 0 /\ args = <<>>
    /\ out = <<>>
    /\ overrun = FALSE
    /\ given = <<>>

-----------------------------------------------------------------------------
(* The conversions.                                                        *)
Digit(d) == <<"0", "1", "2", "3", "4", "5", "6", "7", "8", "9",
              "a", "b", "c", "d", "e", "f">>[d + 1]

(* What the loops store, lowest digit first.                               *)
Digits(value, base) ==
    LET rest[v \in 0 .. value] ==
            IF v = 0 THEN <<>> ELSE <<Digit(v % base)>> \o rest[v \div base]
    IN  rest[value]

Noughts(n) == [i \in 1 .. n |-> "0"]

(* Digits and sign, filled up to four characters, and reversed.            *)
Padded(stored) == Reverse(stored \o Noughts(4 - Len(stored)))

Absolute(v) == IF v < 0 THEN -v ELSE v
Sign(v) == IF v < 0 THEN <<"-">> ELSE <<>>
Decimal(v) == Padded(Digits(Absolute(v), 10) \o Sign(v))
Unpadded(stored) == IF stored = <<>> THEN <<"0">> ELSE Reverse(stored)

(* Mutant of serial_i2s: the cache keeps its first value.                  *)
serial_i2sStale(value) ==
    IF i2s.initialized /\ value # 0
    THEN i2s
    ELSE [temp |-> Decimal(value), last_value |-> value, initialized |-> TRUE]

(* The statics after a call.                                               *)
serial_i2s(value) ==
    IF i2s.initialized /\ value = i2s.last_value
    THEN i2s
    ELSE [temp |-> Decimal(value), last_value |-> value, initialized |-> TRUE]

-----------------------------------------------------------------------------
(* serial_fwrite.                                                          *)
TextOf(f) == FlattenSeq(f)
At(i) == IF i <= Len(TextOf(fmt)) THEN TextOf(fmt)[i] ELSE "NUL"

(* The pieces a caller passes an argument for.                             *)
IsDirective(piece) == Len(piece) > 1 /\ piece[1] = "%" /\ piece[2] # "%"

Strings == {<<"h", "i">>, <<>>}
ValuesOf(piece) ==
    CASE ~IsDirective(piece) -> {"nothing"}
      [] piece \in {<<"%", "d">>, <<"%", "i">>, <<"%", "l", "l", "d">>} -> Ints
      [] piece = <<"%", "s">> -> Strings
      [] piece = <<"%", "c">> -> {"x"}
      [] OTHER -> Words

(* What callers can give for the pieces of f.                              *)
Givens(f) ==
    LET upTo[n \in 0 .. Len(f)] ==
            IF n = 0 THEN {<<>>} ELSE {Append(g, v) : g \in upTo[n - 1], v \in ValuesOf(f[n])}
    IN  upTo[Len(f)]

(* The arguments that pass it: those of the last n pieces, for n from 0.   *)
Arguments(f, g) ==
    LET last[n \in 0 .. Len(f)] ==
            LET i == Len(f) - n + 1
            IN  IF n = 0 THEN <<>>
                ELSE IF IsDirective(f[i]) THEN <<g[i]>> \o last[n - 1]
                ELSE last[n - 1]
    IN  last[Len(f)]

(* The line starts with its id.                                            *)
serial_fwrite(f, g) ==
    /\ p = 0 /\ serial_log_id < MaxLines
    /\ fmt' = f /\ p' = 1
    /\ args' = Arguments(f, g) /\ given' = g
    /\ i2s' = serial_i2s(serial_log_id)
    /\ serial_log_id' = serial_log_id + 1
    /\ out' = <<"[">> \o i2s'.temp \o <<"]", " ">>
    /\ overrun' = FALSE

(* The loop's body writes chars, having read n characters and k arguments. *)
Write(chars, n, k) ==
    /\ out' = out \o chars
    /\ p' = p + n
    /\ args' = SubSeq(args, k + 1, Len(args))
    /\ UNCHANGED <<serial_log_id, fmt, given>>

Plain ==
    /\ p > 0 /\ At(p) \notin {"%", "NUL"}
    /\ Write(<<At(p)>>, 1, 0)
    /\ UNCHANGED <<i2s, overrun>>

Is(chars) == p > 0 /\ At(p) = "%" /\ At(p + 1) \in chars

WriteInt ==
    /\ Is({"d", "i"})
    /\ i2s' = serial_i2s(Head(args))
    /\ Write(i2s'.temp, 2, 1)
    /\ UNCHANGED overrun

(* buf[i] = '\0' is stored whatever i is; what it overwrites behind buf is  *)
(* taken to hold nothing of the call.                                      *)
WriteHex ==
    /\ Is({"x", "X", "p"})
    /\ Write(Unpadded(Digits(Head(args), 16)), 2, 1)
    /\ overrun' = (overrun \/ Len(Digits(Head(args), 16)) >= HexCells)
    /\ UNCHANGED i2s

WriteOther ==
    /\ \/ Is({"u"}) /\ Write(Padded(Digits(Head(args), 10)), 2, 1)
       \/ Is({"o"}) /\ Write(Unpadded(Digits(Head(args), 8)), 2, 1)
       \/ Is({"c"}) /\ Write(<<Head(args)>>, 2, 1)
       \/ Is({"s"}) /\ Write(Head(args), 2, 1)
       \/ Is({"%"}) /\ Write(<<"%">>, 2, 0)
    /\ UNCHANGED <<i2s, overrun>>

(* Mutant of WriteLong: four characters are read behind a single l, too.   *)
WriteLongFour ==
    /\ Is({"l"})
    /\ \/ At(p + 2) # "l" /\ Write(<<>>, 4, 0)
       \/ At(p + 2) = "l" /\ Write(Unpadded(Digits(Absolute(Head(args)), 10)), 4, 1)
    /\ UNCHANGED <<i2s, overrun>>

(* %llu and %lld; every other directive with an l is skipped.              *)
WriteLong ==
    /\ Is({"l"})
    /\ \/ At(p + 2) # "l" /\ Write(<<>>, 3, 0)
       \/ /\ At(p + 2) = "l"
          /\ \/ /\ At(p + 3) = "u"
                /\ Write(Unpadded(Digits(Head(args), 10)), 4, 1)
             \/ /\ At(p + 3) = "d"
                /\ Write(Unpadded(Digits(Absolute(Head(args)), 10) \o Sign(Head(args))), 4, 1)
             \/ At(p + 3) \notin {"u", "d"} /\ Write(<<>>, 4, 0)
    /\ UNCHANGED <<i2s, overrun>>

(* default: the two characters as they are.                                *)
WriteUnknown ==
    /\ p > 0 /\ At(p) = "%"
    /\ ~Is({"d", "i", "u", "o", "x", "X", "c", "s", "p", "l", "%"})
    /\ Write(<<"%", At(p + 1)>>, 2, 0)
    /\ UNCHANGED <<i2s, overrun>>

(* The terminator.  (Behind it the loop would read on in other memory: what*)
(* it does there is not modelled.)                                         *)
Return ==
    /\ p = Len(TextOf(fmt)) + 1
    /\ out' = Append(out, "newline")
    /\ p' = 0
    /\ UNCHANGED <<serial_log_id, i2s, fmt, args, overrun, given>>

Call == \E f \in Formats : \E g \in Givens(f) : serial_fwrite(f, g)

SerialNext ==
    Call \/ Plain \/ WriteInt \/ WriteHex \/ WriteOther \/ WriteLong \/ WriteUnknown
         \/ Return

SerialSpec == SerialInit /\ [][SerialNext]_serialVars

-----------------------------------------------------------------------------
(* The reference: a numeral digit by digit from its value.                 *)
Power(base, n) ==
    LET power[i \in 0 .. n] == IF i = 0 THEN 1 ELSE base * power[i - 1]
    IN  power[n]

NumDigits(v, base) ==
    CHOOSE n \in 1 .. v + 1 : Power(base, n) > v /\ (n = 1 \/ Power(base, n - 1) <= v)
Numeral(v, base, width) ==
    LET n == IF NumDigits(v, base) > width THEN NumDigits(v, base) ELSE width
    IN  [i \in 1 .. n |-> Digit((v \div Power(base, n - i)) % base)]

Signed(v) == Sign(v) \o Numeral(Absolute(v), 10, 1)

(* The pieces that the switch has a case for.                              *)
HasCase(piece) ==
    \/ piece \in {<<"%", c>> : c \in {"d", "i", "u", "o", "x", "X", "c", "s", "p", "%"}}
    \/ piece \in {<<"%", "l", "l", c>> : c \in {"u", "d"}}

(* What the log has for a directive with the value v.  The padding of a    *)
(* negative number is in front of its sign; a directive the switch has no  *)
(* case for is written as it is, or skipped if it starts with an l.        *)
Written(piece, v) ==
    LET conv == Last(piece)
    IN  CASE Len(piece) = 2 /\ conv \in {"d", "i"} ->
                IF v < 0 THEN Noughts(4 - Len(Signed(v))) \o Signed(v)
                         ELSE Numeral(v, 10, 4)
          [] Len(piece) = 2 /\ conv = "u" -> Numeral(v, 10, 4)
          [] Len(piece) = 2 /\ conv = "o" -> Numeral(v, 8, 1)
          [] Len(piece) = 2 /\ conv \in {"x", "X", "p"} -> Numeral(v, 16, 1)
          [] Len(piece) = 2 /\ conv = "c" -> <<v>>
          [] Len(piece) = 2 /\ conv = "s" -> v
          [] Len(piece) = 4 /\ piece[3] = "l" /\ conv = "u" -> Numeral(v, 10, 1)
          [] Len(piece) = 4 /\ piece[3] = "l" /\ conv = "d" -> Signed(v)
          [] piece[2] = "l" /\ ~HasCase(piece) -> <<>>
          [] OTHER -> piece

Shown(piece, v) ==
    IF IsDirective(piece) THEN Written(piece, v)
    ELSE IF piece = <<"%", "%">> THEN <<"%">> ELSE piece

LineOf(f, g) == FlattenSeq([i \in 1 .. Len(f) |-> Shown(f[i], g[i])])

(* The other pieces.                                                       *)
HasNoCase(piece) ==
    /\ ~HasCase(piece) /\ piece[1] = "%"
    /\ \/ Len(piece) = 2 /\ piece[2] # "l"
       \/ Len(piece) = 3 /\ piece[2] = "l" /\ piece[3] # "l"
       \/ Len(piece) = 4 /\ piece[2] = "l" /\ piece[3] = "l"
IsCharacter(piece) == Len(piece) = 1 /\ piece[1] # "%"
Incomplete == {<<"%">>, <<"%", "l">>, <<"%", "l", "l">>}

(* What is assumed of the callers' formats: a directive that has no case   *)
(* takes no argument, so none that needs one may follow it; the kernel's   *)
(* only one, %016X, is followed by characters.                             *)
ASSUME FormatsAssumption ==
    \A f \in Formats :
        /\ f \in Seq(Seq(STRING))
        /\ \A i \in 1 .. Len(f) :
              /\ \A j \in 1 .. Len(f[i]) : f[i][j] # "NUL"
              /\ \/ IsCharacter(f[i]) \/ HasCase(f[i])
                 \/ HasNoCase(f[i]) /\ \A j \in i + 1 .. Len(f) : ~IsDirective(f[j])
                 \/ f[i] \in Incomplete /\ i = Len(f)

(* When serial_fwrite returns, the line holds its own id and then the      *)
(* format with every directive replaced by its argument, whatever values   *)
(* the cache and the buffer of serial_i2s have seen in the calls before.   *)
LineIsRight ==
    p = 0 /\ serial_log_id > 0 =>
        out = <<"[">> \o Numeral(serial_log_id - 1, 10, 4) \o <<"]", " ">>
                 \o LineOf(fmt, given) \o <<"newline">>

(* serial_fwrite does not look behind the terminator of its format unless  *)
(* the format ends inside a directive, and serial_write_hex does not store *)
(* behind its buffer unless a value needs all of the digits it has room    *)
(* for, as the addresses of the kernel's half do.                          *)
StaysInside ==
    /\ p > Len(TextOf(fmt)) + 1 => Last(fmt) \in Incomplete
    /\ overrun => \E i \in 1 .. Len(fmt) :
          /\ IsDirective(fmt[i]) /\ Last(fmt[i]) \in {"x", "X", "p"}
          /\ given[i] >= Power(16, HexCells - 1)
=============================================================================
