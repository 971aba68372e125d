---------------------------- MODULE ConfigReader ----------------------------
(***************************************************************************)
(* INIReader and the part of main() that uses it: the injector reads       *)
(* injector.ini line by line, collects its values under section.name keys, *)
(* gives up when a line was bad, and otherwise copies five settings into   *)
(* configuration_t, the addresses of which are parsed with the first       *)
(* datagram.                                                               *)
(*                                                                         *)
(* A line is what one call of fgets() returns: 199 characters at most, so  *)
(* a longer line of the file is several of these.  It is abstracted to     *)
(* what ini_parse_stream() finds in it once whitespace and an inline       *)
(* comment are gone:                                                       *)
(*   kind    blank, comment, header ("[name]"), unclosed ("[name"), pair   *)
(*           ("name = value") or bare (none of these)                      *)
(*   indent  whether whitespace stood before it                            *)
(*   name    the name of a header or of a pair                             *)
(*   value   the value of a pair                                           *)
(*   text    the whole of it, which is what a continuation line adds       *)
(* A name has a word, its first 49 characters without the case; upper says *)
(* it is written in upper case, tail that there is more than strncpy0()    *)
(* keeps.  A text is known by the number strtol() finds at its start, if   *)
(* any, by whether the number is the whole of it, and by whether it is an  *)
(* IPv4 address in dotted form.                                            *)
(***************************************************************************)
EXTENDS Integers, Sequences, FiniteSetsExt

CONSTANTS
  Files,     \* the files there may be, as sequences of lines
  NoNumber,  \* "strtol() converts nothing"
  Defaults   \* the default member initialisers of configuration_t

VARIABLES
  file,       \* the lines of the file, constant
  state,      \* where main() is
  lineno, section, prev_name, error,  \* the locals of ini_parse_stream()
  _values, _sections,                 \* the members of INIReader
  conf                                \* main()'s configuration_t

reader == <<lineno, section, prev_name, error, _values, _sections>>
vars == <<file, state, reader, conf>>

-----------------------------------------------------------------------------
NameOf(w)  == [word |-> w, upper |-> FALSE, tail |-> FALSE]
EmptyName  == NameOf("")
EmptyText  == [id |-> "", number |-> NoNumber, whole |-> FALSE, quad |-> FALSE]

Names == [word : STRING, upper : BOOLEAN, tail : BOOLEAN]
Texts == [id : STRING, number : Int \cup {NoNumber}, whole : BOOLEAN, quad : BOOLEAN]
Kinds == {"blank", "comment", "header", "unclosed", "pair", "bare"}
Lines == [kind : Kinds, indent : BOOLEAN, name : Names, value : Texts, text : Texts]

(* The words main() asks for.                                              *)
SettingWords == {"source", "destination", "packet", "address", "port"}

(* A name without a word is empty, and the words of the settings are too   *)
(* short to be the first 49 characters of a longer name.                   *)
ASSUME FilesAssumption ==
  \A f \in Files :
    /\ f \in Seq(Lines)
    /\ \A i \in DOMAIN f :
         /\ f[i].name.word = "" => f[i].name = EmptyName
         /\ f[i].name.tail => f[i].name.word \notin SettingWords

strncpy0(name) == [name EXCEPT !.tail = FALSE]

(* tolower() over section.name.                                            *)
MakeKey(s, name) == <<[s EXCEPT !.upper = FALSE], [name EXCEPT !.upper = FALSE]>>

(* A string of the values map is the sequence of texts that newlines join: *)
(* <<>> is the empty string, which takes its first text without a newline. *)
Joined_Overwrites(string, text) == <<text>>

Joined(string, text) ==
  IF string = <<>> /\ text = EmptyText THEN <<>> ELSE Append(string, text)

(* _values[key], which makes the entry when there is none.                 *)
ValueAt(key) == IF key \in DOMAIN _values THEN _values[key] ELSE <<>>

ValueHandler(name, text) ==
  LET key == MakeKey(section, name)
  IN  /\ _values' = [k \in DOMAIN _values \cup {key} |->
                       IF k = key THEN Joined(ValueAt(k), text) ELSE _values[k]]
      /\ _sections' = _sections \cup {section}

-----------------------------------------------------------------------------
Init ==
  /\ file \in Files
  /\ state = "open"
  /\ lineno = 0 /\ section = EmptyName /\ prev_name = EmptyName /\ error = 0
  /\ _values = <<>> /\ _sections = {}
  /\ conf = Defaults

(* ini_parse(): fopen() finds the file, or the result is -1.               *)
Open ==
  /\ state = "open"
  /\ state' = "parse"
  /\ UNCHANGED <<file, reader, conf>>

OpenFails ==
  /\ state = "open"
  /\ state' = "parsed"
  /\ error' = -1
  /\ UNCHANGED <<file, lineno, section, prev_name, _values, _sections, conf>>

(* One turn of the loop reads the next line; what it does with it is in    *)
(* the actions that follow, in the order of the if chain.                  *)
Line == file[lineno']

Read ==
  /\ state = "parse"
  /\ lineno < Len(file)
  /\ lineno' = lineno + 1
  /\ UNCHANGED <<file, state, conf>>

SkipLine ==
  /\ Read
  /\ Line.kind \in {"blank", "comment"}
  /\ UNCHANGED <<section, prev_name, error, _values, _sections>>

(* Indented, and a name is open.                                           *)
Continues(line) ==
  prev_name # EmptyName /\ line.kind \notin {"blank", "comment"} /\ line.indent

ContinueValue ==
  /\ Read
  /\ Continues(Line)
  /\ ValueHandler(prev_name, Line.text)
  /\ UNCHANGED <<section, prev_name, error>>

EnterSection_KeepsName ==
  /\ Read
  /\ ~Continues(Line) /\ Line.kind = "header"
  /\ section' = strncpy0(Line.name)
  /\ UNCHANGED <<prev_name, error, _values, _sections>>

EnterSection ==
  /\ Read
  /\ ~Continues(Line) /\ Line.kind = "header"
  /\ section' = strncpy0(Line.name)
  /\ prev_name' = EmptyName
  /\ UNCHANGED <<error, _values, _sections>>

AddPair ==
  /\ Read
  /\ ~Continues(Line) /\ Line.kind = "pair"
  /\ prev_name' = strncpy0(Line.name)
  /\ ValueHandler(Line.name, Line.value)
  /\ UNCHANGED <<section, error>>

(* A header without its bracket, or a line without "=" and ":".            *)
BadLine_LastWins ==
  /\ Read
  /\ ~Continues(Line) /\ Line.kind \in {"unclosed", "bare"}
  /\ error' = lineno'
  /\ UNCHANGED <<section, prev_name, _values, _sections>>

BadLine ==
  /\ Read
  /\ ~Continues(Line) /\ Line.kind \in {"unclosed", "bare"}
  /\ error' = IF error = 0 THEN lineno' ELSE error
  /\ UNCHANGED <<section, prev_name, _values, _sections>>

EndOfFile ==
  /\ state = "parse"
  /\ lineno = Len(file)
  /\ state' = "parsed"
  /\ UNCHANGED <<file, reader, conf>>

-----------------------------------------------------------------------------
(* main() after the parse.                                                 *)
Reject ==
  /\ state = "parsed"
  /\ error # 0
  /\ state' = "rejected"
  /\ UNCHANGED <<file, reader, conf>>

Get(key, default_value) ==
  IF key \in DOMAIN _values THEN _values[key] ELSE default_value

(* strtol() reads from the start of the string and stops where the number  *)
(* does; "end > value" is whether it read anything.                        *)
GetInteger_ZeroIsNone(key, default_value) ==
  LET valstr == Get(key, <<>>)
      n      == IF valstr = <<>> THEN NoNumber ELSE valstr[1].number
  IN  IF n \in {NoNumber, 0} THEN default_value ELSE n

GetInteger(key, default_value) ==
  LET valstr == Get(key, <<>>)
      n      == IF valstr = <<>> THEN NoNumber ELSE valstr[1].number
  IN  IF n = NoNumber THEN default_value ELSE n

(* The conversion of the long to a std::uint16_t.                          *)
uint16_t == 0 .. 2 ^ 16 - 1

Narrowed_Not(n) == n

Narrowed(n) == n % 2 ^ 16

Key(s, n) == <<NameOf(s), NameOf(n)>>

Load ==
  /\ state = "parsed"
  /\ error = 0
  /\ state' = "loaded"
  /\ conf' =
       [ source_address      |-> Get(Key("source", "address"), conf.source_address),
         source_port         |-> Narrowed(GetInteger(Key("source", "port"), conf.source_port)),
         destination_address |-> Get(Key("destination", "address"), conf.destination_address),
         destination_port    |-> Narrowed(GetInteger(Key("destination", "port"),
                                                     conf.destination_port)),
         packet_address      |-> Narrowed(GetInteger(Key("packet", "address"),
                                                     conf.packet_address)) ]
  /\ UNCHANGED <<file, reader>>

(* The Tins::IP that wrap_data() builds for the first datagram makes an    *)
(* IPv4Address of each address, which throws when inet_pton() refuses it.  *)
Parses(address) == Len(address) = 1 /\ address[1].quad

(* The default numbers fit, and the default addresses are addresses.       *)
ASSUME DefaultsAssumption ==
  /\ {Defaults.source_port, Defaults.destination_port, Defaults.packet_address} \subseteq uint16_t
  /\ Parses(Defaults.source_address) /\ Parses(Defaults.destination_address)

Serve ==
  /\ state = "loaded"
  /\ Parses(conf.destination_address) /\ Parses(conf.source_address)
  /\ state' = "serving"
  /\ UNCHANGED <<file, reader, conf>>

AddressThrows ==
  /\ state = "loaded"
  /\ ~(Parses(conf.destination_address) /\ Parses(conf.source_address))
  /\ state' = "thrown"
  /\ UNCHANGED <<file, reader, conf>>

Next ==
  \/ Open \/ OpenFails
  \/ SkipLine \/ ContinueValue \/ EnterSection \/ AddPair \/ BadLine \/ EndOfFile
  \/ Reject \/ Load \/ Serve \/ AddressThrows

Spec == Init /\ [][Next]_vars

-----------------------------------------------------------------------------
(* What a file f says, stated over the whole of it, not line by line.      *)
(* A name stays open from the pair that gives it until a header or a pair  *)
(* without a name that is not indented.                                    *)
IsOpenAt(f, i) ==
  \E j \in 1 .. i - 1 :
    /\ f[j].kind = "pair" /\ f[j].name # EmptyName
    /\ \A k \in j + 1 .. i - 1 :
         ~ /\ ~f[k].indent
           /\ f[k].kind = "header" \/ (f[k].kind = "pair" /\ f[k].name = EmptyName)

IsContinuation(f, i) ==
  f[i].indent /\ f[i].kind \notin {"blank", "comment"} /\ IsOpenAt(f, i)

IsBad(f, i)   == f[i].kind \in {"unclosed", "bare"} /\ ~IsContinuation(f, i)
IsPair(f, i)  == f[i].kind = "pair" /\ ~IsContinuation(f, i)
Says(f, i)    == IsPair(f, i) \/ IsContinuation(f, i)

Headers(f, i) == {j \in 1 .. i - 1 : f[j].kind = "header" /\ ~IsContinuation(f, j)}
Pairs(f, i)   == {j \in 1 .. i - 1 : IsPair(f, j)}

SectionOf(f, i) == IF Headers(f, i) = {} THEN EmptyName ELSE f[Max(Headers(f, i))].name

KeyOf(f, i) ==
  MakeKey(SectionOf(f, i), IF IsPair(f, i) THEN f[i].name ELSE f[Max(Pairs(f, i))].name)

TextOf(f, i) == IF IsPair(f, i) THEN f[i].value ELSE f[i].text

(* The lines among the first n that say something about a key.             *)
LinesFor(f, key, n) == {i \in 1 .. n : Says(f, i) /\ KeyOf(f, i) = key}

(* The m-th of a set of lines.                                             *)
Nth(lines, m) == Min({i \in lines : Cardinality({j \in lines : j <= i}) = m})

(* What they say, in the order of the file, from the first that is not     *)
(* empty on.                                                               *)
TextsFor(f, key, n) ==
  LET said == {i \in LinesFor(f, key, n) :
                 \E j \in LinesFor(f, key, n) : j <= i /\ TextOf(f, j) # EmptyText}
  IN  [m \in 1 .. Cardinality(said) |-> TextOf(f, Nth(said, m))]

(* No longer name of the file can be cut to the section or the name of key. *)
CutWords(f)     == {f[i].name.word : i \in {j \in DOMAIN f : f[j].name.tail}}
IsUncut(f, key) == {key[1].word, key[2].word} \cap CutWords(f) = {}

(* The value of a key is a number that strtol() reads to its end.          *)
IsInteger(texts) == Len(texts) = 1 /\ texts[1].number # NoNumber /\ texts[1].whole

Settings == {Key("source", "port"), Key("destination", "port"), Key("packet", "address")}

Setting(c, key) ==
  CASE key = Key("source", "port")      -> c.source_port
    [] key = Key("destination", "port") -> c.destination_port
    [] key = Key("packet", "address")   -> c.packet_address

-----------------------------------------------------------------------------
(* Where main() can be, a line number within the file, and settings that   *)
(* fit the std::uint16_t they are stored in.                               *)
TypeOK ==
  /\ state \in {"open", "parse", "parsed", "rejected", "loaded", "serving", "thrown"}
  /\ lineno \in 0 .. Len(file)
  /\ error \in -1 .. Len(file)
  /\ \A key \in Settings : Setting(conf, key) \in uint16_t
  /\ ~section.tail /\ ~prev_name.tail

(* The parser reports the first bad line however many there are, goes on   *)
(* to the end of the file all the same, and nothing is loaded from a file  *)
(* with a bad line in it: not even from the lines before it.               *)
ErrorIsFirstBadLine ==
  LET bad == {i \in 1 .. lineno : IsBad(file, i)}
  IN  /\ error # -1 => error = IF bad = {} THEN 0 ELSE Min(bad)
      /\ state \in {"loaded", "serving", "thrown"} =>
           lineno = Len(file) /\ bad = {}
      /\ state = "rejected" => conf = Defaults /\ (bad # {} \/ error = -1)

(* Every key holds the texts the lines read so far give it: a pair goes to *)
(* the section whose header precedes it, an indented line to the name left *)
(* open before it even when it looks like a header or a pair, case does    *)
(* not tell keys apart, and a name that occurs twice adds to its value.    *)
(* That is so whatever else the file has in it, long names included, for   *)
(* every key that is not what a longer name is cut to.                     *)
EntriesFollowFile ==
  /\ \A i \in 1 .. lineno :
       Says(file, i) /\ IsUncut(file, KeyOf(file, i)) => KeyOf(file, i) \in DOMAIN _values
  /\ \A key \in DOMAIN _values :
       IsUncut(file, key) =>
         /\ LinesFor(file, key, lineno) # {}
         /\ _values[key] = TextsFor(file, key, lineno)

(* "the handler with the same name for each subsequent line parsed": the   *)
(* text of a continuation line is in the value of the name that was left   *)
(* open, and with it all the file has said of that name.                   *)
ContinuationsKeepTheName ==
  \A i \in 1 .. lineno :
    IsContinuation(file, i) =>
      /\ KeyOf(file, i) \in DOMAIN _values
      /\ _values[KeyOf(file, i)] = TextsFor(file, KeyOf(file, i), lineno)

(* A port or packet address that the file gives once, as an integer that   *)
(* fits, is used as it is written; where the file says nothing, or nothing *)
(* that starts with a number, the default is.                              *)
SettingsAsWritten ==
  state \in {"loaded", "serving", "thrown"} =>
    \A key \in Settings :
      LET texts == TextsFor(file, key, Len(file))
      IN  /\ IsInteger(texts) /\ texts[1].number \in uint16_t =>
               Setting(conf, key) = texts[1].number
          /\ texts = <<>> \/ texts[1].number = NoNumber =>
               Setting(conf, key) = Setting(Defaults, key)

(* "returning default_value if not found or not a valid integer": a port   *)
(* or packet address of a file that is accepted is the integer the file    *)
(* has for it, or the default if what it has is none.                      *)
NumbersAsDocumented ==
  state \in {"loaded", "serving", "thrown"} =>
    \A key \in Settings :
      LET texts == TextsFor(file, key, Len(file))
      IN  Setting(conf, key) =
            IF IsInteger(texts) THEN texts[1].number ELSE Setting(Defaults, key)

(* The injector gets past its first datagram exactly when each address is  *)
(* left to its default or has one text, in dotted form.  A second line for *)
(* the key, even the same address again, makes it unusable; only empty     *)
(* lines before the address leave no trace in its value.                   *)
ServesOnlyCleanAddresses ==
  LET clean(key) == \/ LinesFor(file, key, Len(file)) = {}
                    \/ /\ Len(TextsFor(file, key, Len(file))) = 1
                       /\ TextsFor(file, key, Len(file))[1].quad
      usable     == clean(Key("source", "address")) /\ clean(Key("destination", "address"))
  IN  /\ state = "serving" => usable
      /\ state = "thrown" => ~usable

(* "The IP source address of the packed data" and its destination: what is *)
(* loaded from a file the reader accepts are addresses.                    *)
AddressesAreAddresses ==
  state = "loaded" => Parses(conf.source_address) /\ Parses(conf.destination_address)
=============================================================================
