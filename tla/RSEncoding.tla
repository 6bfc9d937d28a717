----------------------------- MODULE RSEncoding -----------------------------
(***************************************************************************)
(* Burst addresses: Encode writes an account id in base 32, adds four      *)
(* Reed-Solomon symbols over GF(32) and permutes the result; Decode undoes *)
(* it.  An account id is the sequence of its decimal digits, as FormatUint *)
(* gives them; a symbol is its position in the alphabet.                   *)
(*                                                                         *)
(* The state machine is an address on its way: written, perhaps mistyped   *)
(* or cut, and read again.                                                 *)
(***************************************************************************)
EXTENDS Integers, Sequences, SequencesExt, FiniteSets, Bitwise

CONSTANTS
  Ids,         \* account ids, as decimal digits
  Mistyped,    \* those whose address is mistyped
  Messages,    \* 13 base 32 digits, the least significant first, of any address
  Deltas,      \* what an error does to a symbol: its XOR
  MoreDeltas,  \* those of addresses with more than two errors
  MaxErrors,   \* bound on the symbols that are changed
  Dash, Error

base32Len == 13
initialCodewordLen == 17

\* Tables, which the source indexes from 0.
gexp == <<1, 2, 4, 8, 16, 5, 10, 20, 13, 26, 17, 7, 14, 28, 29, 31,
          27, 19, 3, 6, 12, 24, 21, 15, 30, 25, 23, 11, 22, 9, 18, 1>>
golg == <<0, 0, 1, 18, 2, 5, 19, 11, 3, 29, 6, 27, 20, 8, 12, 23, 4, 10, 30, 17,
          7, 22, 28, 26, 21, 25, 9, 16, 13, 14, 24, 15>>
codewordMap == <<3, 2, 1, 0, 7, 6, 5, 4, 13, 14, 15, 16, 12, 8, 9, 10, 11>>
initialCodeword == <<1, 0, 0, 0, 0, 0, 0, 0, 0, 0, 0, 0, 0, 0, 0, 0, 0>>

gmult(x, y) == IF x = 0 \/ y = 0 THEN 0 ELSE gexp[((golg[x + 1] + golg[y + 1]) % 31) + 1]

\* The quotient so far and its next digit; leading zeros are left out.
Quotient(quot, d, to) ==
  IF d >= to THEN Append(quot, d \div to)
  ELSE IF quot # <<>> THEN Append(quot, 0) ELSE <<>>

\* One pass of a conversion divides a number written in base "from", the most
\* significant digit first, by "to"; the digits of the new number are what the
\* passes leave, the least significant first.
RECURSIVE Divide(_, _, _, _, _)
Divide(digits, from, to, quot, rest) ==
  IF digits # <<>>
    THEN LET d == rest * from + Head(digits)
         IN  Divide(Tail(digits), from, to, Quotient(quot, d, to), d % to)
  ELSE IF quot # <<>> THEN <<rest>> \o Divide(quot, from, to, <<>>, 0)
  ELSE <<rest>>

Converted(digits, from, to) == Divide(digits, from, to, <<>>, 0)

Padded(s) == [i \in 1 .. base32Len |-> IF i <= Len(s) THEN s[i] ELSE 0]

\* The four parity symbols of a message, which is gone through from its end.
RECURSIVE ParityFrom(_, _, _)
ParityFrom(message, i, p) ==
  IF i = 0 THEN p
  ELSE LET fb == message[i] ^^ p[4]
       IN  ParityFrom(message, i - 1,
             <<gmult(17, fb), p[1] ^^ gmult(9, fb), p[2] ^^ gmult(6, fb), p[3] ^^ gmult(30, fb)>>)

Parity(message) == ParityFrom(message, base32Len, <<0, 0, 0, 0>>)

\* Symbols in the order of the address, with a dash after three groups of four.
Written(codeword) ==
  LET symbol(i) == codeword[codewordMap[i] + 1]
      group(k)  == [i \in 1 .. 4 |-> symbol(4 * k + i)]
  IN  group(0) \o <<Dash>> \o group(1) \o <<Dash>> \o group(2) \o <<Dash>>
        \o group(3) \o <<symbol(17)>>

AddressOf(message) == Written(message \o Parity(message))

Encode(id) == AddressOf(Padded(Converted(id, 10, 32)))

\* The syndrome for the i-th power of the generator; the positions 13 .. 26 of
\* the full code are zero and left out.
RECURSIVE SyndromeFrom(_, _, _)
SyndromeFrom(codeword, i, pos) ==
  IF pos > initialCodewordLen THEN 0
  ELSE LET j == IF pos <= base32Len THEN pos - 1 ELSE pos + 13
       IN  gmult(codeword[pos], gexp[((i * j) % 31) + 1]) ^^ SyndromeFrom(codeword, i, pos + 1)

\* Mutant: only the last syndrome counts.
isLastValid(codeword) == SyndromeFrom(codeword, 4, 1) = 0

isCodewordValid(codeword) == \A i \in 1 .. 4 : SyndromeFrom(codeword, i, 1) = 0

MaxInt64  == <<9, 2, 2, 3, 3, 7, 2, 0, 3, 6, 8, 5, 4, 7, 7, 5, 8, 0, 7>>
MaxUint64 == <<1, 8, 4, 4, 6, 7, 4, 4, 0, 7, 3, 7, 0, 9, 5, 5, 1, 6, 1, 5>>

\* Numbers without leading zeros, as digits.
AtMost(digits, max) ==
  \/ Len(digits) < Len(max)
  \/ digits = max
  \/ /\ Len(digits) = Len(max)
     /\ \E k \in DOMAIN max : /\ digits[k] < max[k]
                             /\ \A j \in 1 .. k - 1 : digits[j] = max[j]

\* Mutant: the number may be larger than a uint64.
ParseUintAny(digits) == digits

\* Mutant: the number is read as an int64.
ParseInt(digits) == IF AtMost(digits, MaxInt64) THEN digits ELSE Error

\* strconv.ParseUint(_, 10, 64).
ParseUint(digits) == IF AtMost(digits, MaxUint64) THEN digits ELSE Error

\* The symbols at their places; what is missing keeps the initial symbol.
RECURSIVE Placed(_, _, _)
Placed(symbols, k, codeword) ==
  IF k > Len(symbols) THEN codeword
  ELSE Placed(symbols, k + 1, [codeword EXCEPT ![codewordMap[k] + 1] = symbols[k]])

\* Characters outside of the alphabet are skipped.
Decode(text) ==
  LET symbols  == SelectSeq(text, LAMBDA x : x # Dash)
      codeword == Placed(symbols, 1, initialCodeword)
  IN  IF Len(symbols) # initialCodewordLen THEN Error
      ELSE IF ~isCodewordValid(codeword) THEN Error
      ELSE ParseUint(Reverse(Converted(Reverse(SubSeq(codeword, 1, base32Len)), 32, 10)))

----------------------------------------------------------------------------
VARIABLES
  source,   \* the id that was written, or the message of an address from elsewhere
  address,
  errors,   \* positions of the address that were changed, each with its delta
  resized,  \* a character was left out or doubled
  result    \* what Decode returned, or Unread

vars == <<source, address, errors, resized, result>>

Unread == <<>>

Init ==
  /\ \/ source \in [id : Ids] /\ address = Encode(source.id)
     \/ source \in [message : Messages] /\ address = AddressOf(source.message)
  /\ errors = {} /\ resized = FALSE /\ result = Unread

Typed == "id" \in DOMAIN source /\ source.id \in Mistyped /\ result = Unread /\ ~resized

\* A symbol is mistyped; errors are made from left to right.
Mistype(i, delta) ==
  /\ Typed
  /\ Cardinality(errors) < MaxErrors
  /\ Cardinality(errors) >= 2 => \A e \in errors \cup {<<i, delta>>} : e[2] \in MoreDeltas
  /\ address[i] # Dash /\ \A e \in errors : e[1] < i
  /\ address' = [address EXCEPT ![i] = @ ^^ delta]
  /\ errors' = errors \cup {<<i, delta>>}
  /\ UNCHANGED <<source, resized, result>>

\* A symbol is left out.
Omit(i) ==
  /\ Typed /\ errors = {} /\ address[i] # Dash
  /\ address' = RemoveAt(address, i)
  /\ resized' = TRUE
  /\ UNCHANGED <<source, errors, result>>

\* A symbol is typed twice.
Double(i) ==
  /\ Typed /\ errors = {} /\ address[i] # Dash
  /\ address' = InsertAt(address, i, address[i])
  /\ resized' = TRUE
  /\ UNCHANGED <<source, errors, result>>

Read ==
  /\ result = Unread
  /\ result' = Decode(address)
  /\ UNCHANGED <<source, address, errors, resized>>

Next ==
  \/ \E i \in DOMAIN address :
       \/ \E delta \in Deltas : Mistype(i, delta)
       \/ Omit(i) \/ Double(i)
  \/ Read

Spec == Init /\ [][Next]_vars

----------------------------------------------------------------------------
Intact == errors = {} /\ ~resized

\* Decode undoes Encode for ids of every length, up to the greatest uint64:
\* conversion, parity, permutation and back give the digits one started with.
RoundTrip ==
  result # Unread /\ Intact /\ "id" \in DOMAIN source => result = source.id

\* An address with up to MaxErrors wrong symbols, or with one too few or too
\* many, is refused: a mistyped subscription never shows another account.
ErrorsDetected == result # Unread /\ ~Intact => result = Error

\* An address that is accepted is the one Encode writes for the account, and an
\* address whose number does not fit 64 bits is refused: every account has one
\* address.
OneAddress ==
  result \notin {Unread, Error} =>
    /\ Encode(result) = address
    /\ "message" \in DOMAIN source => source.message[base32Len] < 16
=============================================================================
