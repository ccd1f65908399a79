--------------------------- MODULE MCOverlapLoop ---------------------------
(* Small instances of OverlapLoop.  Requests are numbers.                    *)
EXTENDS OverlapLoop

Prompts == [r \in Req |-> <<3, 2, 1>>[r]]
News == [r \in Req |-> <<4, 2, 1>>[r]]
=============================================================================
