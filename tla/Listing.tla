------------------------------ MODULE Listing -------------------------------
(***************************************************************************)
(* mosso_list_objects of mosso.c: the contents of a directory, fetched page *)
(* by page, while others create and delete objects in it.                  *)
(*                                                                         *)
(* The service lists the objects under a path in the order of their full   *)
(* names, at most PageSize in a reply, those behind the marker it is given. *)
(* A name is its rank in that order.  The marker the code sends is the base *)
(* name of the last object it has: Marker gives the rank at which the base  *)
(* name of each object sorts.  In a container it is the object's own rank;  *)
(* in a virtual directory all base names sort before or behind the common  *)
(* prefix.                                                                 *)
(***************************************************************************)
EXTENDS Integers, FiniteSets, SequencesExt

CONSTANTS
  Name,       \* ranks of the full names of objects that can be in the directory
  Marker,     \* rank of the base name of each
  PageSize    \* 10000

ASSUME ListingAssumption ==
  /\ IsFiniteSet(Name)
  /\ Name \subseteq Nat \ {0}
  /\ Marker \in [Name -> Nat]
  /\ PageSize \in Nat \ {0}

VARIABLES
  directory,   \* what the service holds
  pc,          \* "idle" or "requesting", or "undefined"
  list,        \* the names in the list under construction
  body,        \* response_body: "null", or a pointer to a block now "freed"
  result,      \* what the last call returned and the error it set
  stayed,      \* names in the directory since the call began
  occurred     \* names in the directory at some time since

vars == <<directory, pc, list, body, result, stayed, occurred>>

Init ==
  /\ directory \in SUBSET Name
  /\ pc = "idle"
  /\ list = <<>>
  /\ body = "null"
  /\ result = "none"
  /\ stayed = directory
  /\ occurred = directory

ListObjects ==
  /\ pc = "idle"
  /\ pc' = "requesting"
  /\ list' = <<>>
  /\ body' = "null"
  /\ result' = "none"
  /\ stayed' = directory
  /\ occurred' = directory
  /\ UNCHANGED directory

\* Faults to be caught: the marker is never sent, or is a name further on.
MarkerForgotten == 0
MarkerBeyond == IF list = <<>> THEN 0 ELSE Marker[Last(list)] + 1

\* The marker of the next request, 0 if there is none.
CurrentMarker == IF list = <<>> THEN 0 ELSE Marker[Last(list)]

\* How many objects of a set there are up to one of them, and its i-th object.
Rank(objects, n) == Cardinality({m \in objects : m <= n})
Nth(objects, i) == CHOOSE n \in objects : Rank(objects, n) = i

\* The names behind the marker, and those of them in the service's reply.
Behind == {n \in directory : n > CurrentMarker}
Page == {n \in Behind : Rank(Behind, n) <= PageSize}

\* Faults to be caught: a full page ends the listing; only an empty one does.
FinishedFull(n) == n <= PageSize
FinishedEmpty(n) == n = 0

\* A page of n objects is the last one.
Finished(n) == n < PageSize

Request == pc = "requesting" /\ UNCHANGED <<directory, stayed, occurred>>

\* The objects of a page at the end of the list, as the reply has them.
AppendObjects(page) == list \o [i \in 1..Cardinality(page) |-> Nth(page, i)]

\* 200: the page is appended, its body freed.
AppendPage ==
  /\ Request
  /\ Page # {}
  /\ list' = AppendObjects(Page)
  /\ body' = "freed"
  /\ IF Finished(Cardinality(Page))
     THEN pc' = "idle" /\ result' = "objects"
     ELSE UNCHANGED <<pc, result>>

\* The request ends with a code that is not 200 and a body, which is freed.
\* NULL is returned; the list so far is not freed but forgotten.
Fails(why) ==
  /\ Request
  /\ pc' = "idle"
  /\ body' = "freed"
  /\ result' = why
  /\ UNCHANGED list

\* Fault to be caught: the listing is started anew.
NoContentRetries ==
  /\ Request
  /\ Page = {}
  /\ list' = <<>>
  /\ body' = "freed"
  /\ UNCHANGED <<pc, result>>

\* 204: nothing is behind the marker.
NoContent == Page = {} /\ Fails("no content")

Refused == Fails("statuscode")

\* curl fails, and sets no body: what is printed into the error string and
\* freed is the one there was, of the page before if there was one.
Unreachable ==
  /\ Request
  /\ IF body = "null"
     THEN pc' = "idle" /\ result' = "statuscode"
     ELSE pc' = "undefined" /\ UNCHANGED result
  /\ UNCHANGED <<list, body>>

\* Others create and delete objects.
Create(n) ==
  /\ pc # "undefined"
  /\ n \notin directory
  /\ directory' = directory \cup {n}
  /\ occurred' = occurred \cup {n}
  /\ UNCHANGED <<pc, list, body, result, stayed>>

Delete(n) ==
  /\ pc # "undefined"
  /\ n \in directory
  /\ directory' = directory \ {n}
  /\ stayed' = stayed \ {n}
  /\ UNCHANGED <<pc, list, body, result, occurred>>

Stopped == pc = "undefined" /\ UNCHANGED vars

Respond == AppendPage \/ NoContent \/ Refused \/ Unreachable

Next ==
  \/ ListObjects
  \/ Respond
  \/ \E n \in Name : Create(n) \/ Delete(n)
  \/ Stopped

Spec == Init /\ [][Next]_vars

\* Each request is answered or fails; nothing is assumed of other clients.
FairSpec == Spec /\ WF_vars(Respond)

-----------------------------------------------------------------------------
(* Properties.                                                             *)

\* The variables hold values of their types, and the list has no more entries
\* than there are names.
TypeOK ==
  /\ directory \subseteq Name
  /\ pc \in {"idle", "requesting", "undefined"}
  /\ list \in Seq(Name) /\ Len(list) <= Cardinality(Name)
  /\ body \in {"null", "freed"}
  /\ result \in {"none", "objects", "no content", "statuscode"}
  /\ stayed \subseteq directory
  /\ directory \subseteq occurred /\ occurred \subseteq Name

\* No object is in the list twice, whatever is created and deleted between
\* two pages.
ListedOnce == \A i, j \in 1..Len(list) : list[i] = list[j] => i = j

\* The list returned has everything that was in the directory throughout the
\* call, and nothing that never was.
Complete ==
  result = "objects" => /\ stayed \subseteq ToSet(list)
                        /\ ToSet(list) \subseteq occurred

\* A directory is reported as having no content only if nothing stayed in it,
\* or if all that did had been listed on full pages: an object that was there
\* throughout is lost only where their number is a multiple of the page size.
LostOnlyWhenFull ==
  result = "no content" => /\ stayed \subseteq ToSet(list)
                           /\ Len(list) % PageSize = 0

\* A listing ends, however the directory changes.
Ends == pc = "requesting" ~> pc # "requesting"

\* "If an error occured NULL will be returned and the error string will be
\* set accordingly" (mosso_list_objects): a call returns.
ErrorReturned == pc # "undefined"
=============================================================================
