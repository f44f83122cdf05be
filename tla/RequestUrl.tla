----------------------------- MODULE RequestUrl -----------------------------
(***************************************************************************)
(* From a path of the mount to the URL that is requested, and back: the    *)
(* path helpers of mosso.c and simple_curl_urlencode as operators, and how *)
(* a service reads the URL it is sent.                                     *)
(*                                                                         *)
(* A string is the sequence of its bytes.  A path is the one FUSE passes:  *)
(* "/", or names with one slash before each.  The storage URL in front of  *)
(* every request is left out, and a parameter name is its first letter.    *)
(***************************************************************************)
EXTENDS Integers, Sequences, SequencesExt

SLASH == 47
PERCENT == 37
QUESTION == 63
AMPERSAND == 38
EQUALS == 61
ParameterPath == 112
ParameterMarker == 109

\* What is read from beside the table of hexadecimal digits.
GARBAGE == 256

Root == <<SLASH>>

IsPath(s) ==
  /\ s # <<>> /\ s[1] = SLASH
  /\ s = Root \/ s[Len(s)] # SLASH
  /\ \A i \in 1..Len(s) - 1 : s[i] = SLASH => s[i + 1] # SLASH \/ s = Root

IsAscii(s) == \A i \in 1..Len(s) : s[i] < 128

-----------------------------------------------------------------------------
(* simple_curl_urlencode *)

IsAlphanumeric(c) == c \in 97..122 \cup 65..90 \cup 48..57

HexCode(i) ==
  CASE i \in 0..9 -> 48 + i
    [] i \in 10..15 -> 87 + i
    [] OTHER -> GARBAGE

\* char is signed where the program is built for x86.
SignedChar(c) == IF c < 128 THEN c ELSE c - 256

EncodeChar(c) ==
  IF IsAlphanumeric(c) THEN <<c>>
  ELSE <<PERCENT, HexCode(SignedChar(c) \div 16), HexCode(SignedChar(c) % 16)>>

UrlEncode(s) == FlattenSeq([i \in 1..Len(s) |-> EncodeChar(s[i])])

-----------------------------------------------------------------------------
(* The parts of a path. *)

\* Index of the second slash, or behind the end.
ContainerEnd(path) ==
  LET slashes == {i \in 2..Len(path) : path[i] = SLASH}
  IN  IF slashes = {} THEN Len(path) + 1 ELSE Min(slashes)

ContainerOf(path) == SubSeq(path, 2, ContainerEnd(path) - 1)

InContainer(path) == SubSeq(path, ContainerEnd(path) + 1, Len(path))

NameOf(path) ==
  SubSeq(path, Max({i \in 1..Len(path) : path[i] = SLASH}) + 1, Len(path))

-----------------------------------------------------------------------------
(* mosso_construct_request_url *)

\* Each part is encoded by itself; the slashes between them stay.
EncodeParts(path) ==
  FlattenSeq([i \in 1..Len(path) |->
    IF path[i] = SLASH THEN <<SLASH>> ELSE EncodeChar(path[i])])

\* The initial slash is left out when nothing follows it.
PathUrl(path, type) ==
  CASE path = Root -> <<>>
    [] path # Root /\ type = "file" -> EncodeParts(path)
    [] path # Root /\ type = "path" -> Root \o UrlEncode(ContainerOf(path))

Assign(name, value) == <<name, EQUALS>> \o UrlEncode(value)

PathParameter(path, type) ==
  IF path # Root /\ type = "path"
  THEN <<QUESTION>> \o Assign(ParameterPath, InContainer(path))
  ELSE <<>>

\* Fault to be caught: the marker is appended as if it came first.
MarkerOnItsOwn(parameters, marker) ==
  IF marker = <<>> THEN parameters
  ELSE parameters \o <<QUESTION>> \o Assign(ParameterMarker, marker)

\* <<>> stands for no marker.
WithMarker(parameters, marker) ==
  IF marker = <<>> THEN parameters
  ELSE parameters \o <<IF parameters = <<>> THEN QUESTION ELSE AMPERSAND>>
         \o Assign(ParameterMarker, marker)

ConstructRequestUrl(path, type, marker) ==
  PathUrl(path, type) \o WithMarker(PathParameter(path, type), marker)

-----------------------------------------------------------------------------
(* How a service takes a URL apart (RFC 3986). *)

HexValue(c) ==
  CASE c \in 48..57 -> c - 48
    [] c \in 97..102 -> c - 87
    [] OTHER -> GARBAGE

\* rest[i] is what the last i bytes stand for.
Decode(s) ==
  LET rest[i \in 0..Len(s)] ==
        LET at == Len(s) - i + 1
        IN  CASE i = 0 -> <<>>
              [] i >= 3 /\ s[at] = PERCENT ->
                   <<16 * HexValue(s[at + 1]) + HexValue(s[at + 2])>> \o rest[i - 3]
              [] OTHER -> <<s[at]>> \o rest[i - 1]
  IN  rest[Len(s)]

\* Index of the first c, or behind the end.
FirstOf(s, c) ==
  LET places == {i \in 1..Len(s) : s[i] = c}
  IN  IF places = {} THEN Len(s) + 1 ELSE Min(places)

\* Everything before the first c, and everything behind it.
Before(s, c) == SubSeq(s, 1, FirstOf(s, c) - 1)
After(s, c) == SubSeq(s, FirstOf(s, c) + 1, Len(s))

\* A request of this program has at most two parameters.
Fields(query) == {Before(query, AMPERSAND), After(query, AMPERSAND)} \ {<<>>}

ServiceReads(url) ==
  [resource |-> Decode(Before(url, QUESTION)),
   query |-> {<<Before(f, EQUALS), Decode(After(f, EQUALS))>> :
                f \in Fields(After(url, QUESTION))}]

\* What a request for the path means to the service.
Meant(path, type, marker) ==
  LET below == IF type = "path" /\ path # Root
               THEN {<<<<ParameterPath>>, InContainer(path)>>} ELSE {}
      behind == IF marker # <<>> THEN {<<<<ParameterMarker>>, marker>>} ELSE {}
  IN  [resource |-> IF path = Root THEN <<>>
                    ELSE IF type = "path" THEN Root \o ContainerOf(path)
                    ELSE path,
       query |-> below \cup behind]
=============================================================================
