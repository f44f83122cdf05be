----------------------------- MODULE MCListing ------------------------------
(***************************************************************************)
(* Directories of up to four objects listed two at a time: a container,    *)
(* and a virtual directory whose base names sort before its prefix.        *)
(***************************************************************************)
EXTENDS Listing

Names == 1..4
InContainer == [n \in Names |-> n]
InVirtualDirectory == [n \in Names |-> 0]
=============================================================================
