------------------------------- MODULE Format -------------------------------
(***************************************************************************)
(* printk() of kernel/printk.c and its twin printf() of user/printf.c: the *)
(* loop over the format string and the conversions.  They differ in %s:    *)
(* uart_puts() writes a carriage return before a newline.                  *)
(*                                                                         *)
(* Numbers have LongBits bits, those of type int IntBits.                  *)
(***************************************************************************)
EXTENDS Integers, Sequences, SequencesExt

CONSTANTS
    LongBits, IntBits,
    BufSize,        \* char buf[20]: what 64 bits need
    Cases,          \* the calls: a format and its arguments
    NULL            \* the null string

VARIABLES
    who,        \* "printk" or "printf"
    fmt, args,
    i,          \* the place in fmt
    k,          \* the arguments taken
    out,
    at          \* "on", "done", or "beyond": fmt is past its end

vars == <<who, fmt, args, i, k, out, at>>

NUL == "NUL"

(* A call is free of a lone %l at the end of the format, after which the   *)
(* code goes on behind the string.  No caller has one.                     *)
ASSUME FormatAssumption ==
    /\ LongBits \in Nat /\ IntBits \in Nat /\ IntBits <= LongBits
    /\ LongBits % 4 = 0
    /\ \A c \in Cases : ~IsSuffix(<<"%", "l">>, c.fmt)

Char(j) == IF j <= Len(fmt) THEN fmt[j] ELSE NUL

Digit(n) == <<"0", "1", "2", "3", "4", "5", "6", "7", "8", "9",
              "a", "b", "c", "d", "e", "f">>[n + 1]

-----------------------------------------------------------------------------
(* The conversions.                                                        *)

Unsigned(x, bits) == x % 2 ^ bits
Signed(x, bits) == LET u == Unsigned(x, bits)
                   IN  IF u >= 2 ^ (bits - 1) THEN u - 2 ^ bits ELSE u

(* The buffer of print_dec() and print_udec(): the last digit first.       *)
Buf[x \in Nat] == IF x = 0 THEN << >>
                  ELSE <<Digit(x % 10)>> \o Buf[x \div 10]

print_udec(x) == IF x = 0 THEN <<"0">> ELSE Reverse(Buf[x])

(* Fault: the magnitude is kept in a signed variable.                      *)
print_dec_signed(value) ==
    IF value = -(2 ^ (LongBits - 1)) THEN <<"-">>
    ELSE IF value < 0 THEN <<"-">> \o print_udec(-value)
    ELSE print_udec(value)

(* The magnitude wraps like an unsigned long: that of the smallest number  *)
(* is 2^(LongBits - 1).                                                    *)
print_dec(value) ==
    IF value < 0 THEN <<"-">> \o print_udec(Unsigned(-value, LongBits))
    ELSE print_udec(value)

(* From the first nibble that is not 0 on, but at least the last.          *)
print_hex(x) ==
    LET n == LongBits \div 4
        nibbles == [j \in 1..n |-> (x \div 16 ^ (n - j)) % 16]
        first   == Min({j \in 1..n : nibbles[j] # 0 \/ j = n})
    IN  [j \in 1..(n - first + 1) |-> Digit(nibbles[first + j - 1])]

(* uart_puts() and puts()                                                  *)
puts(s) ==
    IF who = "printf" THEN s
    ELSE FlattenSeq([j \in DOMAIN s |-> IF s[j] = "newline"
                                        THEN <<"return", s[j]>>
                                        ELSE <<s[j]>>])

Numeric == {"d", "u", "x", "p", "ld", "lu", "lx"}
Taking  == Numeric \union {"c", "s"}

(* What a conversion of argument a writes.                                 *)
Converted(c, a) ==
    CASE c = "d"  -> print_dec(Signed(a, IntBits))
      [] c = "ld" -> print_dec(Signed(a, LongBits))
      [] c = "u"  -> print_udec(Unsigned(a, IntBits))
      [] c = "lu" -> print_udec(a)
      [] c = "x"  -> print_hex(Unsigned(a, IntBits))
      [] c = "lx" -> print_hex(a)
      [] c = "p"  -> <<"0", "x">> \o print_hex(a)
      [] c = "c"  -> <<a>>
      [] c = "s"  -> puts(IF a = NULL THEN <<"(", "n", ")">> ELSE a)

(* The conversion after the % at i, and the characters of it.              *)
Conversion == IF Char(i + 1) = "l"
              THEN (CASE Char(i + 2) = "d" -> "ld"
                      [] Char(i + 2) = "u" -> "lu"
                      [] Char(i + 2) = "x" -> "lx"
                      [] OTHER -> "l?")
              ELSE Char(i + 1)
Length == IF Char(i + 1) = "l" THEN 3 ELSE 2

-----------------------------------------------------------------------------
Init ==
    /\ who \in {"printk", "printf"}
    /\ \E c \in Cases : fmt = c.fmt /\ args = c.args
    /\ i = 1 /\ k = 0
    /\ out = << >>
    /\ at = "on"

(* Writes s and goes on n characters further.                              *)
Emit(s, n) ==
    /\ out' = out \o s
    /\ i' = i + n
    /\ at' = IF i + n > Len(fmt) + 1 THEN "beyond" ELSE "on"
    /\ UNCHANGED <<who, fmt, args>>

literal ==
    /\ at = "on" /\ Char(i) \notin {"%", NUL}
    /\ Emit(<<Char(i)>>, 1)
    /\ UNCHANGED k

end_of_format ==
    /\ at = "on" /\ Char(i) = NUL
    /\ at' = "done"
    /\ UNCHANGED <<who, fmt, args, i, k, out>>

(* Fault: a last % is like any other unknown conversion.                   *)
percent_at_end_default ==
    /\ at = "on" /\ Char(i) = "%" /\ Char(i + 1) = NUL
    /\ Emit(<<"%", NUL>>, 2)
    /\ UNCHANGED k

percent_at_end ==
    /\ at = "on" /\ Char(i) = "%" /\ Char(i + 1) = NUL
    /\ out' = out \o <<"%">>
    /\ at' = "done"
    /\ UNCHANGED <<who, fmt, args, i, k>>

convert ==
    /\ at = "on" /\ Char(i) = "%" /\ Conversion \in Taking
    /\ Emit(Converted(Conversion, args[k + 1]), Length)
    /\ k' = k + 1

(* %% and conversions the code does not know are written as they are.      *)
copy ==
    /\ at = "on" /\ Char(i) = "%"
    /\ Conversion \notin Taking \union {NUL}
    /\ Emit(IF Conversion = "%" THEN <<"%">>
            ELSE [j \in 1..Length |-> Char(i + j - 1)], Length)
    /\ UNCHANGED k

Finished == at # "on" /\ UNCHANGED vars

Next == literal \/ end_of_format \/ percent_at_end \/ convert \/ copy
        \/ Finished

Spec == Init /\ [][Next]_vars /\ WF_vars(Next)

-----------------------------------------------------------------------------
(* The loop ends at the NUL of the format and never steps over it, also    *)
(* with a % as the last character.                                         *)
StopsAtEnd == <>(at = "done" /\ i <= Len(fmt) + 1)

(* The number that a sequence of digits is read as.                        *)
ReadAs(s, base) ==
    LET Value(ch) == CHOOSE n \in 0..15 : Digit(n) = ch
    IN  FoldLeft(LAMBDA n, ch : n * base + Value(ch), 0, s)

(* s is n to the base, without superfluous zeros.                          *)
Shows(s, n, base) ==
    /\ s # << >> /\ (Len(s) > 1 => s[1] # "0")
    /\ ReadAs(s, base) = n

(* Each conversion writes its own argument, in order, and what it writes   *)
(* reads back as the number that was passed, with the smallest and the     *)
(* largest ones, and fits the buffer.                                      *)
PrintsArguments ==
    [][(k' # k /\ Conversion \in Numeric) =>
           LET a == args[k + 1]
               s == SubSeq(out', Len(out) + 1, Len(out'))
               v == CASE Conversion = "d"  -> Signed(a, IntBits)
                      [] Conversion = "ld" -> Signed(a, LongBits)
                      [] Conversion \in {"u", "x"} -> Unsigned(a, IntBits)
                      [] OTHER -> a
           IN  CASE Conversion \in {"x", "lx"} -> Shows(s, v, 16)
                 [] Conversion = "p" -> /\ SubSeq(s, 1, 2) = <<"0", "x">>
                                        /\ Shows(SubSeq(s, 3, Len(s)), v, 16)
                 [] v < 0 -> /\ s[1] = "-" /\ Shows(Tail(s), -v, 10)
                             /\ Len(s) <= BufSize + 1
                 [] OTHER -> Shows(s, v, 10) /\ Len(s) <= BufSize]_vars
=============================================================================
