---------------------------- MODULE AddressBook ----------------------------
(***************************************************************************)
(* One customer's saved addresses and which of them is the default:        *)
(* AddressService.createAddress, updateAddress, setDefaultAddress, each    *)
(* one transaction of several statements, and deleteAddress, a read and a  *)
(* delete on their own.  No index keeps two rows from being the default.   *)
(* Address books share no row.  Only the default flag of a row is kept;    *)
(* the contact details a request fills in from the profile are left out.   *)
(***************************************************************************)
EXTENDS Requests, Naturals, FiniteSets

CONSTANTS
    Address,    \* ids of rows
    NoAddress   \* a create knows its row once it is inserted

ASSUME BookAssumption == NoAddress \notin Address

VARIABLES
    book,          \* the committed rows of addresses
    bookDraft,
    bookHolder

AtBook   == <<book, bookDraft, bookHolder>>
bookVars == <<book, bookDraft, bookHolder, request, alone>>

\* "none": no such row.  An id whose insert was rolled back is never drawn
\* again; here it stands for another one that never was.
AddressRow == {"none", "plain", "default", "gone"}

Saved(rows)    == {a \in Address : rows[a] \in {"plain", "default"}}
Defaults(rows) == {a \in Address : rows[a] = "default"}

Rows(t) == View(book, bookDraft, bookHolder, t)

BookInit ==
    /\ book = [a \in Address |-> "none"]
    /\ bookDraft = book
    /\ bookHolder = [a \in Address |-> NoTx]
    /\ request = [t \in Tx |-> Idle]
    /\ alone = [t \in Tx |-> FALSE]

-----------------------------------------------------------------------------
(* Requests.  flag is the isDefault of the body: TRUE, FALSE, or absent.   *)

Flag == {"yes", "no", "absent"}

Asked(op, a, flag) == [op |-> op, stage |-> "find", address |-> a, flag |-> flag, todo |-> {}]

Begin(t, r) == Starts(t, r) /\ UNCHANGED AtBook

BeginCreate(t, flag)    == Begin(t, Asked("create", NoAddress, flag))
BeginUpdate(t, a, flag) == a \in Saved(book) /\ Begin(t, Asked("update", a, flag))
BeginSet(t, a)          == a \in Saved(book) /\ Begin(t, Asked("set", a, "yes"))
BeginDelete(t, a)       == a \in Saved(book) /\ Begin(t, Asked("delete", a, "absent"))

\* The request makes its address the default: the first address always is.
Wants(t, r) ==
    \/ r.op # "delete" /\ r.flag = "yes"
    \/ r.op = "create" /\ Saved(Rows(t)) = {}

\* countByUserId, or findById: a row that is gone is refused.
Find(t) ==
    LET r == request[t] IN
    /\ r.stage = "find"
    /\ IF r.op # "create" /\ r.address \notin Saved(Rows(t))
       THEN Ends(t)
       ELSE Continues(t, [r EXCEPT !.stage = IF Wants(t, r) THEN "clear" ELSE "write",
                                   !.flag = IF Wants(t, r) THEN "yes" ELSE @])
    /\ UNCHANGED AtBook

\* Mutant: one default is looked for and cleared.
ToClearOne(t) == IF Defaults(Rows(t)) = {} THEN {} ELSE {CHOOSE a \in Defaults(Rows(t)) : TRUE}

\* clearDefaultForUser: the default rows of the statement's snapshot ...
ToClear(t) == Defaults(Rows(t))

Clear(t) ==
    /\ request[t].stage = "clear"
    /\ Continues(t, [request[t] EXCEPT !.stage = "clearing", !.todo = ToClear(t)])
    /\ UNCHANGED AtBook

Put(t, a, row) ==
    /\ bookDraft' = [bookDraft EXCEPT ![a] = row]
    /\ bookHolder' = Lock(bookHolder, t, a)
    /\ UNCHANGED book

\* Mutant: the statement runs outside the request's transaction.
PutAtOnce(t, a) ==
    /\ bookHolder[a] = NoTx
    /\ book' = [book EXCEPT ![a] = "plain"]
    /\ bookDraft' = [bookDraft EXCEPT ![a] = "plain"]
    /\ UNCHANGED bookHolder

PutPlain(t, a) == Put(t, a, "plain")

\* ... one by one, each once it is free, passed over if it is no longer one.
ClearRow(t) ==
    LET r == request[t] IN
    /\ r.stage = "clearing"
    /\ \E a \in r.todo :
          /\ Free(bookHolder, t, a)
          /\ Continues(t, [r EXCEPT !.todo = @ \ {a}])
          /\ IF bookDraft[a] = "default" THEN PutPlain(t, a) ELSE UNCHANGED AtBook

Cleared(t) ==
    /\ request[t].stage = "clearing" /\ request[t].todo = {}
    /\ Continues(t, [request[t] EXCEPT !.stage = "write"])
    /\ UNCHANGED AtBook

\* The row a create inserts, or an update leaves where it was old.
Written(r, old) ==
    IF r.flag = "yes" THEN "default"
    ELSE IF r.op = "create" \/ r.flag = "no" THEN "plain"
    ELSE old

WriteRow(t) ==
    LET r == request[t] IN
    /\ r.stage = "write" /\ r.op # "delete"
    /\ \E a \in Address :
          /\ IF r.op = "create" THEN bookDraft[a] = "none" /\ bookHolder[a] = NoTx
             ELSE a = r.address /\ a \in Saved(bookDraft) /\ Free(bookHolder, t, a)
          /\ Put(t, a, Written(r, bookDraft[a]))
          /\ Continues(t, [r EXCEPT !.stage = "commit", !.address = a])

\* deleteAddress: no other address is promoted (docs/address.md).
DeleteRow(t) ==
    LET r == request[t] IN
    /\ r.stage = "write" /\ r.op = "delete"
    /\ bookHolder[r.address] = NoTx /\ r.address \in Saved(book)
    /\ book' = [book EXCEPT ![r.address] = "gone"]
    /\ bookDraft' = [bookDraft EXCEPT ![r.address] = "gone"]
    /\ Ends(t)
    /\ UNCHANGED bookHolder

Commit(t) ==
    /\ request[t].stage = "commit"
    /\ book' = Rows(t)
    /\ bookHolder' = Unlock(bookHolder, t)
    /\ Ends(t)
    /\ UNCHANGED bookDraft

\* Any failure, the row of an update or a delete that is gone among them.
Abort(t) ==
    /\ request[t] # Idle
    /\ bookDraft' = Discard(book, bookDraft, bookHolder, t)
    /\ bookHolder' = Unlock(bookHolder, t)
    /\ Ends(t)
    /\ UNCHANGED book

Ask(t) ==
    \/ \E flag \in Flag : BeginCreate(t, flag) \/ \E a \in Address : BeginUpdate(t, a, flag)
    \/ \E a \in Address : BeginSet(t, a) \/ BeginDelete(t, a)

Serve(t) ==
    \/ Find(t) \/ Clear(t) \/ ClearRow(t) \/ Cleared(t) \/ WriteRow(t) \/ DeleteRow(t)
    \/ Commit(t) \/ Abort(t)

BookNext == \E t \in Tx : Ask(t) \/ Serve(t)

BookSpec == BookInit /\ [][BookNext]_bookVars

-----------------------------------------------------------------------------
Request == [op : {"create", "update", "set", "delete"},
            stage : {"find", "clear", "clearing", "write", "commit"},
            address : Address \cup {NoAddress}, flag : Flag, todo : SUBSET Address]

\* The columns hold what the schema lets them hold.
AddressTypeOK ==
    /\ book \in [Address -> AddressRow] /\ bookDraft \in [Address -> AddressRow]
    /\ bookHolder \in [Address -> Tx \cup {NoTx}]
    /\ request \in [Tx -> Request \cup {Idle}]
    /\ alone \in [Tx -> BOOLEAN]

\* The address a request makes the default is the only default, whatever
\* earlier races left, if nobody overlapped it; and so is the first address a
\* customer saves.
LoneDefaultIsOnly == [][\A t \in Tx : alone[t] /\ Commit(t) =>
    /\ request[t].flag = "yes" => Defaults(book') = {request[t].address}
    /\ Saved(book) = {} => Defaults(book') = Saved(book')]_bookVars

\* However requests overlap, and wherever they break off, a customer loses the
\* last default only by hand: by deleting it, or by unsetting it.
LastDefaultGoesByHand == [][Defaults(book) # {} /\ Defaults(book') = {} =>
    \E t \in Active : request'[t] = Idle
                      /\ (request[t].op = "delete" \/ request[t].flag = "no")]_bookVars
=============================================================================
