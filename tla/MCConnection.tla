---------------------------- MODULE MCConnection ----------------------------
(***************************************************************************)
(* Paths of up to three names over a letter, two characters with a meaning *)
(* in URLs, and a byte of a UTF-8 sequence; "m" is 109, "n" is 110.        *)
(***************************************************************************)
EXTENDS Connection

Letters == {109, PERCENT, QUESTION, 195}
Containers == {<<SLASH, c>> : c \in Letters}
Below(c) == {<<SLASH, c, SLASH, o>> : o \in {109, AMPERSAND}}

Paths ==
  {Root} \cup Containers \cup Below(109)
    \cup {<<SLASH, QUESTION, SLASH, 110, SLASH, EQUALS>>}
FewPaths == {<<SLASH, 109>>} \cup Below(109)

Markers == {<<SLASH, AMPERSAND>>, <<195>>}

Optional ==
  {"X-CDN-Management-Url", "X-Container-Bytes-Used",
   "Content-Type", "Content-Length", "X-Object-Meta-Shape", "Date"}

AllKeys == Headers \cup Tags
=============================================================================
