--------------------------- MODULE MCConfigReader ---------------------------
(***************************************************************************)
(* ConfigReader on every file of up to MaxLines lines from a set that has  *)
(* each kind of line, indented and not: the names of two settings of one   *)
(* section, one of another and one too long to be kept, numbers that are   *)
(* zero, inside and outside 16 bits, addresses, quotes, empty values.      *)
(***************************************************************************)
EXTENDS ConfigReader

CONSTANT MaxLines

MCDefaults ==
  [ packet_address      |-> 1000,
    destination_address |-> <<[id |-> "10.0.0.1", number |-> 10, whole |-> FALSE, quad |-> TRUE]>>,
    destination_port    |-> 4242,
    source_address      |-> <<[id |-> "10.0.0.2", number |-> 10, whole |-> FALSE, quad |-> TRUE]>>,
    source_port         |-> 1337 ]

Number(n)  == [id |-> "number", number |-> n, whole |-> TRUE, quad |-> FALSE]
Quad       == [id |-> "10.9.8.7", number |-> 10, whole |-> FALSE, quad |-> TRUE]
Quoted     == [id |-> "quoted", number |-> NoNumber, whole |-> FALSE, quad |-> FALSE]
Other(k)   == [id |-> k, number |-> NoNumber, whole |-> FALSE, quad |-> FALSE]

AnyLine(kind, indent, name, value, text) ==
  [kind |-> kind, indent |-> indent, name |-> name, value |-> value, text |-> text]

Blank(indent)     == AnyLine("blank", indent, EmptyName, EmptyText, EmptyText)
Comment(indent)   == AnyLine("comment", indent, EmptyName, EmptyText, Other("comment"))
Header(indent, n) == AnyLine("header", indent, n, EmptyText, Other("header"))
Unclosed(indent)  == AnyLine("unclosed", indent, EmptyName, EmptyText, Other("unclosed"))
Pair(indent, n, v) == AnyLine("pair", indent, n, v, Other("pair"))
Bare(indent, text) == AnyLine("bare", indent, EmptyName, EmptyText, text)

Upper(n)  == [n EXCEPT !.upper = TRUE]
Long(n)   == [n EXCEPT !.tail = TRUE]

MCLines ==
  { Blank(TRUE), Comment(TRUE),
    Header(FALSE, NameOf("source")), Header(TRUE, Upper(NameOf("source"))),
    Header(FALSE, NameOf("packet")), Unclosed(FALSE),
    Pair(FALSE, NameOf("port"), Number(5000)),
    Pair(TRUE, Upper(NameOf("port")), Number(70000)),
    Pair(FALSE, NameOf("port"), Number(0)),
    Pair(FALSE, NameOf("port"), EmptyText),
    Pair(FALSE, NameOf("address"), Quad),
    Pair(FALSE, NameOf("address"), EmptyText),
    Pair(FALSE, Long(NameOf("address_of_49")), Number(7)),
    Pair(FALSE, EmptyName, Quoted),
    Bare(FALSE, Quoted), Bare(TRUE, Quad), Bare(TRUE, Number(9)) }

MCFiles == UNION {[1 .. n -> MCLines] : n \in 0 .. MaxLines}

(* The file in the repository, comments and blank lines left out.          *)
ShippedFiles ==
  { << Header(FALSE, NameOf("packet")),
       Pair(FALSE, NameOf("address"), Number(1000)),
       Header(FALSE, NameOf("source")),
       Pair(FALSE, NameOf("address"), Quoted),
       Pair(FALSE, NameOf("port"), Number(1337)),
       Header(FALSE, NameOf("destination")),
       Pair(FALSE, NameOf("address"), Quoted),
       Pair(FALSE, NameOf("port"), Number(4242)) >> }
=============================================================================
