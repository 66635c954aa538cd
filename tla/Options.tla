------------------------------- MODULE Options -------------------------------
(***************************************************************************)
(* DHCP options as bytes and as lists: the scan the server does for the    *)
(* message type (get_dhcp_message_type) and the library of options.c,      *)
(* which keeps options in a list, reads them from bytes and writes them to *)
(* bytes.  options.c is in no build rule (and does not compile as it is);  *)
(* its caller here calls its operations in any order.                      *)
(*                                                                         *)
(* A byte is one of Radix numbers, the largest being END.  The four bytes  *)
(* of the magic cookie are counted and compared, not spelled out.          *)
(***************************************************************************)
EXTENDS Integers, SequencesExt

CONSTANTS
  Radix,        \* the values of a byte (256)
  MessageType,  \* the option that holds the message type (53)
  BufferSize,   \* the option bytes behind the cookie in main's buffer (272)
  ScanLimit,    \* those get_dhcp_message_type goes up to (308)
  MaxReceived,  \* bound of the model: option bytes in a datagram
  MaxOptions,   \* bound of the model: options in the list
  MaxRoom       \* bound of the model: bytes to write options to

ASSUME RadixAssumption == Radix \in Nat /\ MessageType \in 1 .. Radix - 2
ASSUME ScanAssumption == BufferSize \in Nat /\ ScanLimit \in Nat /\ BufferSize <= ScanLimit
ASSUME BoundsAssumption == /\ MaxReceived \in 0 .. BufferSize
                           /\ MaxOptions \in Nat
                           /\ MaxRoom \in Nat

VARIABLES
  list,      \* the option list, first option first
  received,  \* the options of a datagram: a magic cookie and bytes behind it
  written,   \* the option bytes, if the last call is serialize_option_list
  room,      \* how many bytes it was given, likewise
  result,    \* what the operation called last returned
  call       \* the operation called last

vars == <<list, received, written, room, result, call>>

PAD == 0
END == Radix - 1
COOKIE_LEN == 4

Byte == 0 .. Radix - 1
Bytes(n) == UNION {[1 .. k -> Byte] : k \in 0 .. n}

\* len is the length of data.
Option(id, data) == [id |-> id, data |-> data]

\* The bytes of one option, and of a list of them.
Encoded(o) == <<o.id, Len(o.data)>> \o o.data
Flat(opts) == FlattenSeq([k \in 1 .. Len(opts) |-> Encoded(opts[k])])

Init == /\ list = <<>>
        /\ received \in [magic : BOOLEAN, bytes : Bytes(MaxReceived)]
        /\ written = <<>>
        /\ room = 0
        /\ result = 0
        /\ call = "init_option_list"

NothingWritten == written' = <<>> /\ room' = 0

-----------------------------------------------------------------------------
(* get_dhcp_message_type.  Faulty forms, which show that the properties     *)
(* below tell them apart, stand before the definitions they vary.           *)

\* The scan goes on behind END.
TypeFromPastEnd(m) ==
  LET from[i \in 1 .. ScanLimit + Radix + 2] ==
        IF i > ScanLimit THEN 0
        ELSE IF m[i] = MessageType /\ m[i + 1] >= 1 THEN m[i + 2]
        ELSE from[i + 2 + m[i + 1]]
  IN from[1]

\* The result of the scan of memory m. A PAD is taken for an option with a
\* length, and so is a message type of length 0.
TypeFrom(m) ==
  LET from[i \in 1 .. ScanLimit + Radix + 2] ==
        IF i > ScanLimit \/ m[i] = END THEN 0
        ELSE IF m[i] = MessageType /\ m[i + 1] >= 1 THEN m[i + 2]
        ELSE from[i + 2 + m[i + 1]]
  IN from[1]

\* The memory behind the cookie: what was received, zeros up to the end of the
\* buffer, and what happens to lie behind it.
Memory(bytes, behind) ==
  [i \in 1 .. ScanLimit + 2 |-> IF i <= Len(bytes) THEN bytes[i]
                                ELSE IF i <= BufferSize THEN PAD
                                ELSE behind]

get_dhcp_message_type ==
  /\ call' = "get_dhcp_message_type"
  /\ \E behind \in Byte : result' = TypeFrom(Memory(received.bytes, behind))
  /\ NothingWritten
  /\ UNCHANGED <<list, received>>

-----------------------------------------------------------------------------
(* The library *)

\* The end of the bytes is as good as END.
ParsedNoEnd(bytes) ==
  LET from[i \in 1 .. Len(bytes) + 1] ==
        IF i > Len(bytes) \/ bytes[i] = END THEN [ok |-> 1, opts |-> <<>>]
        ELSE IF i = Len(bytes) \/ i + 2 + bytes[i + 1] > Len(bytes)
          THEN [ok |-> 0, opts |-> <<>>]
        ELSE LET next == i + 2 + bytes[i + 1]
                 o == Option(bytes[i], SubSeq(bytes, i + 2, next - 1))
             IN [ok |-> from[next].ok, opts |-> <<o>> \o from[next].opts]
  IN from[1]

\* The option in front of END is refused.
ParsedStrict(bytes) ==
  LET from[i \in 1 .. Len(bytes) + 1] ==
        IF i > Len(bytes) THEN [ok |-> 0, opts |-> <<>>]
        ELSE IF bytes[i] = END THEN [ok |-> 1, opts |-> <<>>]
        ELSE IF i = Len(bytes) \/ i + 2 + bytes[i + 1] >= Len(bytes)
          THEN [ok |-> 0, opts |-> <<>>]
        ELSE LET next == i + 2 + bytes[i + 1]
                 o == Option(bytes[i], SubSeq(bytes, i + 2, next - 1))
             IN [ok |-> from[next].ok, opts |-> <<o>> \o from[next].opts]
  IN from[1]

\* The options parse_options_to_list appends and what it returns. It fails at
\* an option that leaves no byte behind it for END, and keeps those before. At
\* a last byte other than END it reads a length behind the bytes, and fails
\* whatever that is.
Parsed(bytes) ==
  LET from[i \in 1 .. Len(bytes) + 1] ==
        IF i > Len(bytes) THEN [ok |-> 0, opts |-> <<>>]
        ELSE IF bytes[i] = END THEN [ok |-> 1, opts |-> <<>>]
        ELSE IF i = Len(bytes) \/ i + 2 + bytes[i + 1] > Len(bytes)
          THEN [ok |-> 0, opts |-> <<>>]
        ELSE LET next == i + 2 + bytes[i + 1]
                 o == Option(bytes[i], SubSeq(bytes, i + 2, next - 1))
             IN [ok |-> from[next].ok, opts |-> <<o>> \o from[next].opts]
  IN from[1]

parse_options_to_list ==
  /\ call' = "parse_options_to_list"
  /\ Len(list) < MaxOptions
  /\ IF received.magic
       THEN LET parsed == Parsed(received.bytes)
            IN list' = list \o parsed.opts /\ result' = parsed.ok
       ELSE UNCHANGED list /\ result' = 0
  /\ NothingWritten
  /\ UNCHANGED received

\* The length is kept as it is.
SizeUntruncated(n) == n

\* The length a value of n bytes gets: it is kept in a uint8_t.
Size(n) == n % Radix

\* parse_option makes value of a text and append_option puts the option at the
\* end of the list. The options that have a parser are neither PAD, END nor the
\* message type; a value of length 0 is refused.
parse_option(id, value) ==
  /\ call' = "parse_option"
  /\ Len(list) < MaxOptions
  /\ IF Size(Len(value)) = 0
       THEN result' = 0 /\ UNCHANGED list
       ELSE /\ result' = id
            /\ list' = Append(list, Option(id, SubSeq(value, 1, Size(Len(value)))))
  /\ NothingWritten
  /\ UNCHANGED received

\* The room for END is tested for each option only, and a list may be empty.
EndFitsUntested(n, opts) == TRUE

\* There is room for END behind the options.
EndFits(n, opts) == n - COOKIE_LEN - Len(Flat(opts)) >= 1

\* No option takes the last byte there is.
OptionsFit(n, opts) ==
  \A k \in 1 .. Len(opts) : n - COOKIE_LEN > Len(Flat(SubSeq(opts, 1, k)))

serialize_option_list(n) ==
  /\ call' = "serialize_option_list"
  /\ room' = n
  /\ IF n >= COOKIE_LEN /\ OptionsFit(n, list) /\ EndFits(n, list)
       THEN /\ written' = Append(Flat(list), END)
            /\ result' = COOKIE_LEN + Len(written')
       ELSE /\ written' = <<>>
            /\ result' = 0
  /\ UNCHANGED <<list, received>>

delete_option_list ==
  /\ call' = "delete_option_list"
  /\ list' = <<>>
  /\ result' = 0
  /\ NothingWritten
  /\ UNCHANGED received

\* The place of the first option with this id, or 0.
search_option(opts, id) ==
  LET found == {k \in 1 .. Len(opts) : opts[k].id = id} IN
  IF found = {} THEN 0 ELSE Min(found)

-----------------------------------------------------------------------------
\* What a parser makes of a text: a string has any length, and those of the
\* other parsers are among them, 0 for a text that is refused. The bytes do
\* not matter.
Values == {[k \in 1 .. n |-> 1] : n \in 0 .. Radix + 1}
WithParser == 1 .. Radix - 2 \ {MessageType}

Next == \/ get_dhcp_message_type
        \/ parse_options_to_list
        \/ \E id \in WithParser, value \in Values : parse_option(id, value)
        \/ \E n \in 0 .. MaxRoom : serialize_option_list(n)
        \/ delete_option_list

Spec == Init /\ [][Next]_vars

-----------------------------------------------------------------------------
(* Properties *)

\* The options a list can hold: none has the id END, which would end the list
\* early wherever it is written, and none is longer than its length byte says.
Options == [id : Byte \ {END}, data : Bytes(Radix - 1)]

TypeOK ==
  /\ \A k \in 1 .. Len(list) : list[k] \in Options
  /\ received \in [magic : BOOLEAN, bytes : Bytes(MaxReceived)]
  /\ \A k \in 1 .. Len(written) : written[k] \in Byte
  /\ room \in 0 .. MaxRoom
  /\ result \in Nat
  /\ call \in {"init_option_list", "get_dhcp_message_type", "parse_options_to_list",
               "parse_option", "serialize_option_list", "delete_option_list"}

\* Whatever the bytes are, and wherever they break off, parse_options_to_list
\* appends only options that stand in them completely, in their order, and
\* leaves the earlier ones of the list alone; it returns 1 if and only if END
\* follows them within the bytes.
ParseKeepsWhatIsThere ==
  [][call' = "parse_options_to_list" /\ (list' # list \/ result' = 1)
       => LET parsed == SubSeq(list', Len(list) + 1, Len(list'))
              size == Len(Flat(parsed))
          IN /\ received.magic
             /\ SubSeq(list', 1, Len(list)) = list
             /\ IsPrefix(Flat(parsed), received.bytes)
             /\ size < Len(received.bytes)
             /\ result' = 1 <=> received.bytes[size + 1] = END]_vars

\* What serialize_option_list wrote is read back by parse_options_to_list as
\* the same list, however the list was put together.
SerializedIsParsed ==
  call = "serialize_option_list" /\ result > 0
    => Parsed(written) = [ok |-> 1, opts |-> list]

\* serialize_option_list writes the cookie, the options and END within the
\* room it is given, and refuses only when they do not fit.
SerializeUsesRoom ==
  call = "serialize_option_list"
    => LET needed == COOKIE_LEN + Len(Flat(list)) + 1 IN
       /\ result = IF needed <= room THEN needed ELSE 0
       /\ result > 0 => COOKIE_LEN + Len(written) = result

\* The two readers of options agree: when the library accepts the options of a
\* datagram, the server's scan finds the type that search_option finds in them,
\* or none where it finds none, whatever lies behind the bytes received.
ScanFindsWhatSearchFinds ==
  LET parsed == Parsed(received.bytes)
      k == search_option(parsed.opts, MessageType)
  IN call = "get_dhcp_message_type" /\ parsed.ok = 1
       => /\ k = 0 => result = 0
          /\ k # 0 /\ parsed.opts[k].data # <<>> => result = parsed.opts[k].data[1]
==============================================================================
