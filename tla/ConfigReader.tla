---------------------------- MODULE ConfigReader -----------------------------
(***************************************************************************)
(* read_config_dhcp: main has it read the configuration file, one line     *)
(* after the other, into a server_config and a pool that nothing has       *)
(* initialised, and then serves with what it left there.                   *)
(*                                                                         *)
(* A line is a keyword and the words behind it.  A word is a text, which   *)
(* names an address or a number or is Junk, and the mark that stands right *)
(* behind the text.  %15s reads 15 characters of a word, the mark          *)
(* included, so that what it makes of a word depends on the length of the  *)
(* text: see Captured.                                                     *)
(***************************************************************************)
EXTENDS Integers, Sequences

CONSTANTS
  Addresses,     \* the addresses the file names
  FullLength,    \* those of them whose text has 15 characters
  LeaseTimes,    \* the numbers of seconds it names
  Largest,       \* the largest 32-bit number, INADDR_NONE
  Junk,          \* a text that is neither an address nor a number
  Unset,         \* what main's uninitialised variables hold
  MaxLines       \* bound of the model: the lines of the file

ASSUME AddressAssumption == /\ Largest \in Nat
                            /\ Addresses \subseteq 0 .. Largest
                            /\ FullLength \subseteq Addresses
ASSUME LeaseAssumption == LeaseTimes \subseteq Nat
ASSUME TextAssumption == Junk \notin Int /\ Unset \notin Int
ASSUME BoundsAssumption == MaxLines \in Nat

VARIABLES
  file,    \* the lines of the configuration file
  read,    \* how many of them fgets has returned
  config,  \* server_config
  pool,    \* pool_indexes
  process  \* "reading", "serving" or "exited"

vars == <<file, read, config, pool, process>>

Marks == {"", ";", ","}
Words == {w \in [text : Addresses \union {Junk}, mark : Marks] :
            w.text = Junk => w.mark = ""}
Numbers == [text : LeaseTimes \union {Junk}, mark : {";"}]

\* The words behind a keyword that the formats reach: none, one or two. Those
\* of a subnet line stand before and after the word netmask.
UpToTwo == {<<>>} \union {<<v>> : v \in Words} \union {<<v, w>> : v, w \in Words}

\* The lines of a file. A comment, an empty line, a keyword that is not known
\* and "option routers" are "other": the format for routers begins with
\* "options", which a line that passed the test for "option routers" does not.
Lines ==
  [keyword : {"range", "subnet", "domain-name-servers"}, words : UpToTwo]
    \union [keyword : {"default-lease-time", "max-lease-time"},
            words : {<<n>> : n \in Numbers}]
    \union {[keyword |-> "other", words |-> <<>>]}

Files == UNION {[1 .. n -> Lines] : n \in 0 .. MaxLines}

-----------------------------------------------------------------------------
\* main, up to the call. The variables on its stack hold anything.
Init == /\ file \in Files
        /\ read = 0
        /\ config = [ip_pool_start |-> Unset, ip_pool_end |-> Unset,
                     subnet |-> Unset, netmask |-> Unset, router |-> Unset,
                     dns |-> <<Unset, Unset>>,
                     default_lease_time |-> Unset, max_lease_time |-> Unset]
        /\ pool = [ip_first |-> Unset, ip_last |-> Unset, ip_current |-> Unset]
        /\ process = "reading"

\* The texts that %15s yields for word w: a short text takes the mark with it,
\* and one of full length leaves it to the next %15s as a text of its own.
Captured(w) ==
  IF w.mark = "" THEN <<w.text>>
  ELSE IF w.text \in FullLength THEN <<w.text, Junk>>
  ELSE <<Junk>>

CapturedAll(words) == CASE words = <<>>    -> <<>>
                        [] Len(words) = 1  -> Captured(words[1])
                        [] Len(words) = 2  -> Captured(words[1]) \o Captured(words[2])

\* Faulty forms, which show that the properties below tell them apart, stand
\* before the definitions they vary.

\* A text that is refused becomes the signed -1.
inet_addrSigned(text) == IF text = Junk THEN -1 ELSE text

\* ntohl(inet_addr(text)).
inet_addr(text) == IF text = Junk THEN Largest ELSE text

-----------------------------------------------------------------------------
(* The lines; each operator is one branch of the chain of comparisons. *)

\* The end of the pool is set by the first line only.
ReadRangeKeepsEnd(l) ==
  /\ l.keyword = "range"
  /\ LET texts == CapturedAll(l.words) IN
     IF Len(texts) >= 2
       THEN LET start == inet_addr(texts[1])
                end == IF pool.ip_last = Unset THEN inet_addr(texts[2]) ELSE pool.ip_last
            IN /\ config' = [config EXCEPT !.ip_pool_start = start, !.ip_pool_end = end]
               /\ pool' = [ip_first |-> start, ip_last |-> end, ip_current |-> start]
       ELSE UNCHANGED <<config, pool>>

ReadRange(l) ==
  /\ l.keyword = "range"
  /\ LET texts == CapturedAll(l.words) IN
     IF Len(texts) >= 2
       THEN LET start == inet_addr(texts[1])
                end == inet_addr(texts[2])
            IN /\ config' = [config EXCEPT !.ip_pool_start = start, !.ip_pool_end = end]
               /\ pool' = [ip_first |-> start, ip_last |-> end, ip_current |-> start]
       ELSE UNCHANGED <<config, pool>>

\* %d reads the digits and leaves the mark alone.
Number(l) == l.words[1].text

\* A time that cannot be read is taken for 0.
ReadLeaseTimeZero(l) ==
  /\ l.keyword \in {"default-lease-time", "max-lease-time"}
  /\ LET n == IF Number(l) = Junk THEN 0 ELSE Number(l) IN
     config' = IF l.keyword = "max-lease-time"
                 THEN [config EXCEPT !.max_lease_time = n]
                 ELSE [config EXCEPT !.default_lease_time = n]
  /\ UNCHANGED pool

ReadLeaseTime(l) ==
  /\ l.keyword \in {"default-lease-time", "max-lease-time"}
  /\ config' = IF Number(l) = Junk THEN config
               ELSE IF l.keyword = "max-lease-time"
                 THEN [config EXCEPT !.max_lease_time = Number(l)]
                 ELSE [config EXCEPT !.default_lease_time = Number(l)]
  /\ UNCHANGED pool

\* sscanf's result is taken for a truth value, and it is never 0 here: it is
\* EOF, 1 or 2 (1 when the word netmask is missing, or does not follow the first
\* text). inet_addr makes anything of a text that was not read. netmask has 6
\* bytes: a mask that is read is written beyond it, and may damage subnet. No
\* further damage is modelled.
ReadSubnet(l) ==
  /\ l.keyword = "subnet"
  /\ \E anything, something \in Addresses \union {Largest, Unset}, damaged \in BOOLEAN :
       LET both == Len(l.words) = 2 /\ Len(Captured(l.words[1])) = 1 IN
       config' = [config EXCEPT
                    !.subnet = IF l.words = <<>> \/ (both /\ damaged) THEN anything
                               ELSE inet_addr(Captured(l.words[1])[1]),
                    !.netmask = IF both THEN inet_addr(Captured(l.words[2])[1])
                                ELSE something]
  /\ UNCHANGED pool

\* One address is enough.
ReadDnsServersOne(l) ==
  /\ l.keyword = "domain-name-servers"
  /\ config' = IF l.words # <<>>
                 THEN [config EXCEPT !.dns[1] = inet_addr(Captured(l.words[1])[1])]
                 ELSE config
  /\ UNCHANGED pool

\* The format wants a comma behind the first text. A short text has taken it
\* along: only behind one of full length is it still there.
ReadDnsServers(l) ==
  /\ l.keyword = "domain-name-servers"
  /\ config' = IF /\ Len(l.words) = 2
                  /\ l.words[1].text \in FullLength
                  /\ l.words[1].mark = ","
                 THEN [config EXCEPT
                         !.dns = <<inet_addr(l.words[1].text),
                                   inet_addr(Captured(l.words[2])[1])>>]
                 ELSE config
  /\ UNCHANGED pool

Skip(l) == /\ l.keyword = "other"
           /\ UNCHANGED <<config, pool>>

\* One turn of the loop.
ReadLine == /\ process = "reading"
            /\ read < Len(file)
            /\ read' = read + 1
            /\ LET l == file[read + 1] IN
               \/ ReadRange(l)
               \/ ReadLeaseTime(l)
               \/ ReadSubnet(l)
               \/ ReadDnsServers(l)
               \/ Skip(l)
            /\ UNCHANGED <<file, process>>

\* The file is read, whatever it held, and main goes on to serve.
EndOfFile == /\ process = "reading"
             /\ read = Len(file)
             /\ process' = "serving"
             /\ UNCHANGED <<file, read, config, pool>>

\* fopen fails, and main exits.
CannotOpen == /\ process = "reading"
              /\ read = 0
              /\ process' = "exited"
              /\ UNCHANGED <<file, read, config, pool>>

Rest == process # "reading" /\ UNCHANGED vars

Next == ReadLine \/ EndOfFile \/ CannotOpen \/ Rest

Spec == Init /\ [][Next]_vars

-----------------------------------------------------------------------------
(* Properties *)

Numbers32 == 0 .. Largest
AddressOrUnset == Numbers32 \union {Unset}
TimeOrUnset == LeaseTimes \union {Unset}

Configs == [ip_pool_start : AddressOrUnset, ip_pool_end : AddressOrUnset,
            subnet : AddressOrUnset, netmask : AddressOrUnset,
            router : {Unset}, dns : AddressOrUnset \X AddressOrUnset,
            default_lease_time : TimeOrUnset, max_lease_time : TimeOrUnset]
Pools == [ip_first : AddressOrUnset, ip_last : AddressOrUnset,
          ip_current : AddressOrUnset]

TypeOK ==
  /\ file \in Files
  /\ read \in 0 .. Len(file)
  /\ config \in Configs
  /\ pool \in Pools
  /\ process \in {"reading", "serving", "exited"}

\* The line gives a range in the form of the file that is shipped: two
\* addresses, the first without a mark.
NamesRange(l) == /\ Len(l.words) = 2
                 /\ l.words[1].mark = ""
                 /\ \A i \in 1 .. 2 : l.words[i].text # Junk

\* Line p is the last one read that names a range; the range lines behind it
\* name nothing.
LastRange(p) == /\ file[p].keyword = "range"
                /\ NamesRange(file[p])
                /\ \A q \in p + 1 .. read :
                     file[q].keyword = "range" => file[q].words = <<>>

\* %15s reads the text of the word without its mark.
Clean(w) == w.mark = "" \/ w.text \in FullLength

\* The pool is that of the last line that names a range, whatever lines stand
\* around it and whatever range an earlier line had begun: it begins at the
\* line's first address with nothing handed out yet, ends at its second one,
\* and is the same in the two places main keeps it. The end of a line whose
\* mark was taken along is either the one it names or the one inet_addr's
\* refusal yields, never one of another line.
PoolFromLastRange ==
  \A p \in 1 .. read :
    LastRange(p) =>
      LET last == file[p].words[2] IN
      /\ pool.ip_first = file[p].words[1].text
      /\ pool.ip_current = pool.ip_first
      /\ pool.ip_last \in {last.text, Largest}
      /\ Clean(last) => pool.ip_last = last.text
      /\ config.ip_pool_start = pool.ip_first
      /\ config.ip_pool_end = pool.ip_last

\* The lines with this keyword that give a number.
Named(keyword) == {p \in 1 .. read : /\ file[p].keyword = keyword
                                     /\ Number(file[p]) # Junk}

AsNamed(value, keyword) ==
  IF Named(keyword) = {} THEN value = Unset
  ELSE \E p \in Named(keyword) : /\ value = Number(file[p])
                                 /\ \A q \in Named(keyword) : q <= p

\* Each of the two lease times is that of the last line of its own that gives a
\* number; a line that gives none takes nothing away, and no line gives one
\* for the other.
LeaseAsNamed == /\ AsNamed(config.default_lease_time, "default-lease-time")
                /\ AsNamed(config.max_lease_time, "max-lease-time")

\* The two DNS servers are from one line of the file or are both unset: no
\* line is taken over by half, and none is pieced together from two lines.
DnsFromOneLine ==
  \/ config.dns = <<Unset, Unset>>
  \/ \E p \in 1 .. read :
       /\ file[p].keyword = "domain-name-servers"
       /\ Len(file[p].words) = 2
       /\ config.dns[1] = file[p].words[1].text
       /\ config.dns[2] \in {file[p].words[2].text, Largest}

-----------------------------------------------------------------------------
(* What the files beside the program say of the range and the code does    *)
(* not do.  TLC refutes it.                                                *)

\* dhcp_config_file.txt:18 ends the range line as all of its lines, with a
\* semicolon, and config.sh:10 calls the two addresses the pool: the pool ends
\* at the second one.
PoolEndsAsNamed ==
  \A p \in 1 .. read :
    LastRange(p) /\ file[p].words[2].mark = ";"
      => pool.ip_last = file[p].words[2].text
==============================================================================
