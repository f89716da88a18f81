------------------------------ MODULE Requests ------------------------------
(***************************************************************************)
(* Requests being served at the same time.  The server handles a request   *)
(* by a chain of awaited statements, and every await lets the others run;  *)
(* a request is a record whose "stage" says which statement is next.       *)
(*                                                                         *)
(* alone is a history variable: properties of the form "a request nobody   *)
(* overlaps leaves ..." are what the code promises one caller at a time.   *)
(***************************************************************************)
EXTENDS RowLocks

VARIABLES
    request,   \* request[t]: the request t serves, Idle if none
    alone      \* alone[t]: no other request overlapped it so far

Idle == [stage |-> "idle"]

Active == {t \in Tx : request[t] # Idle}

Go(t, r) == request' = [request EXCEPT ![t] = r]

Starts(t, r) ==
    /\ request[t] = Idle
    /\ Go(t, r)
    /\ alone' = [u \in Tx |-> IF u = t THEN Active = {} ELSE alone[u] /\ request[u] = Idle]

\* The next statement of the same request.
Continues(t, r) == Go(t, r) /\ UNCHANGED alone

Ends(t) ==
    /\ Go(t, Idle)
    /\ alone' = [alone EXCEPT ![t] = FALSE]
=============================================================================
