---------------------------- MODULE DesksProofs ----------------------------
(***************************************************************************)
(* Proofs about the small components, for every value of their constants   *)
(* and every set of concurrent requests: one section per desk.  The desks  *)
(* of a product's goods are in ProductDesksProofs.                         *)
(***************************************************************************)
EXTENDS Desks, TLAPS

-----------------------------------------------------------------------------
(* What it means for a request to have been alone.  Each desk has a        *)
(* request table of its own, so the facts are about any two tables.        *)

\* The two histories are functions, whatever a request looks like.
Histories(asked, lone) ==
    /\ asked = [t \in Tx |-> asked[t]]
    /\ lone \in [Tx -> BOOLEAN]

\* While a request is alone nobody else is served.
LoneIsLone(asked, lone) ==
    \A t \in Tx : lone[t] =>
        /\ asked[t] # Idle
        /\ \A u \in Tx \ {t} : asked[u] = Idle

LEMMA NobodyYet ==
    ASSUME NEW asked, NEW lone, asked = [t \in Tx |-> Idle], lone = [t \in Tx |-> FALSE]
    PROVE  Histories(asked, lone) /\ LoneIsLone(asked, lone)
BY DEF Histories, LoneIsLone

LEMMA ContinuesKeepsLone ==
    ASSUME NEW asked, NEW lone, NEW asked2,
           Histories(asked, lone), LoneIsLone(asked, lone), NEW t \in Tx, NEW r, r # Idle,
           asked[t] # Idle, asked2 = [asked EXCEPT ![t] = r]
    PROVE  /\ Histories(asked2, lone) /\ LoneIsLone(asked2, lone)
           /\ \A u \in Tx \ {t} : ~lone[u]
BY DEF Histories, LoneIsLone

LEMMA EndsKeepsLone ==
    ASSUME NEW asked, NEW lone, NEW asked2, NEW lone2,
           Histories(asked, lone), LoneIsLone(asked, lone), NEW t \in Tx, asked[t] # Idle,
           asked2 = [asked EXCEPT ![t] = Idle], lone2 = [lone EXCEPT ![t] = FALSE]
    PROVE  /\ Histories(asked2, lone2) /\ LoneIsLone(asked2, lone2)
           /\ \A u \in Tx : ~lone2[u]
<1>1. Histories(asked2, lone2)
  BY DEF Histories
<1>2. \A u \in Tx : ~lone2[u]
  BY DEF Histories, LoneIsLone
<1> QED BY <1>1, <1>2 DEF LoneIsLone

-----------------------------------------------------------------------------
(* The address book.                                                       *)

\* A row is locked by a request that has begun to write.
HoldersServe ==
    \A a \in Address, t \in Tx : bookHolder[a] = t =>
        request[t] # Idle /\ request[t].stage \in {"clearing", "write", "commit"}

\* Only a request that sets the default clears; one that does not holds the row
\* it wrote and no other, and a default row it left alone is a default still.
ClearsToSet ==
    \A t \in Tx : request[t] # Idle =>
        /\ request[t].stage \in {"clear", "clearing"} => request[t].flag = "yes"
        /\ request[t].op = "delete" =>
              request[t].flag = "absent" /\ request[t].stage \in {"find", "write"}
        /\ request[t].op # "create" => request[t].address \in Address

HoldsQuietly ==
    \A a \in Address, t \in Tx :
        bookHolder[a] = t /\ request[t].flag # "yes" =>
            /\ request[t].stage = "commit"
            /\ request[t].flag = "absent" /\ book[a] = "default" => bookDraft[a] = "default"

HoldsTheDefault ==
    \A t \in Tx : request[t] # Idle /\ request[t].stage = "commit" /\ request[t].flag = "yes" =>
        /\ request[t].address \in Address
        /\ bookHolder[request[t].address] = t
        /\ bookDraft[request[t].address] = "default"

BookInv ==
    /\ AddressTypeOK
    /\ DraftsAreHeld(book, bookDraft, bookHolder)
    /\ HoldersServe /\ ClearsToSet /\ HoldsQuietly /\ HoldsTheDefault

-----------------------------------------------------------------------------
LEMMA RequestsServe == ASSUME NEW r \in Request PROVE r # Idle
BY DEF Request, Idle

LEMMA AddressTypeStep ==
    ASSUME AddressTypeOK, [BookNext]_bookVars
    PROVE  AddressTypeOK'
<1> USE NoTxAssumption DEF AddressTypeOK
<1>1. CASE UNCHANGED bookVars
  BY <1>1 DEF bookVars
<1>2. ASSUME NEW t \in Tx, Ask(t)
      PROVE  AddressTypeOK'
  <2>1. PICK op \in {"create", "update", "set", "delete"}, a \in Address \cup {NoAddress},
             flag \in Flag : Begin(t, Asked(op, a, flag))
    BY <1>2 DEF Ask, BeginCreate, BeginUpdate, BeginSet, BeginDelete, Flag
  <2>2. Asked(op, a, flag) \in Request
    BY DEF Asked, Request
  <2> QED BY <2>1, <2>2 DEF Begin, Starts, Go, AtBook
<1>3. ASSUME NEW t \in Tx, Serve(t)
      PROVE  AddressTypeOK'
  <2> DEFINE r == request[t]
  <2>1. CASE Find(t)
    <3>1. r \in Request
      BY <2>1 DEF Find, Idle
    <3>2. ASSUME NEW f \in Flag, NEW s \in {"clear", "write"}
          PROVE  [r EXCEPT !.stage = s, !.flag = f] \in Request
      BY <3>1 DEF Request
    <3>3. CASE Ends(t)
      BY <2>1, <3>3 DEF Find, Ends, Go, AtBook
    <3>4. CASE ~Ends(t)
      <4>1. PICK s \in {"clear", "write"}, f \in Flag :
                Continues(t, [r EXCEPT !.stage = s, !.flag = f])
        BY <2>1, <3>1, <3>4 DEF Find, Request, Flag
      <4> QED BY <2>1, <3>2, <4>1 DEF Find, Continues, Go, AtBook
    <3> QED BY <3>3, <3>4
  <2>2. CASE Clear(t)
    <3>1. r \in Request /\ ToClear(t) \subseteq Address
      BY <2>2 DEF Clear, Idle, ToClear, Defaults
    <3>2. [r EXCEPT !.stage = "clearing", !.todo = ToClear(t)] \in Request
      BY <3>1 DEF Request
    <3> QED BY <2>2, <3>2 DEF Clear, Continues, Go, AtBook
  <2>3. CASE ClearRow(t)
    <3>1. r \in Request
      BY <2>3 DEF ClearRow, Idle
    <3>2. ASSUME NEW a  PROVE [r EXCEPT !.todo = @ \ {a}] \in Request
      BY <3>1 DEF Request
    <3>3. PICK a \in r.todo :
              /\ Continues(t, [r EXCEPT !.todo = @ \ {a}])
              /\ IF bookDraft[a] = "default" THEN PutPlain(t, a) ELSE UNCHANGED AtBook
      BY <2>3 DEF ClearRow
    <3>4. a \in Address
      BY <3>1, <3>3 DEF Request
    <3> QED BY <3>2, <3>3, <3>4 DEF Continues, Go, AtBook, PutPlain, Put, Lock, AddressRow
  <2>4. CASE Cleared(t)
    <3>1. r \in Request
      BY <2>4 DEF Cleared, Idle
    <3>2. [r EXCEPT !.stage = "write"] \in Request
      BY <3>1 DEF Request
    <3> QED BY <2>4, <3>2 DEF Cleared, Continues, Go, AtBook
  <2>5. CASE WriteRow(t)
    <3>1. r \in Request
      BY <2>5 DEF WriteRow, Idle
    <3>2. PICK a \in Address : /\ Put(t, a, Written(r, bookDraft[a]))
                               /\ Continues(t, [r EXCEPT !.stage = "commit", !.address = a])
      BY <2>5 DEF WriteRow
    <3>3. Written(r, bookDraft[a]) \in AddressRow
      BY DEF Written, AddressRow
    <3>4. [r EXCEPT !.stage = "commit", !.address = a] \in Request
      BY <3>1 DEF Request
    <3> QED BY <3>2, <3>3, <3>4 DEF Continues, Go, Put, Lock
  <2>6. CASE DeleteRow(t)
    BY <2>6 DEF DeleteRow, Ends, Go, AddressRow
  <2>7. CASE Commit(t)
    BY <2>7 DEF Commit, Rows, View, Unlock, Ends, Go
  <2>8. CASE Abort(t)
    BY <2>8 DEF Abort, Discard, Unlock, Ends, Go
  <2> QED BY <1>3, <2>1, <2>2, <2>3, <2>4, <2>5, <2>6, <2>7, <2>8 DEF Serve
<1> QED BY <1>1, <1>2, <1>3 DEF BookNext

\* One request's step, seen from the conjuncts of BookInv: what the others hold
\* and what they were asked for stays.
LEMMA BookInvStep ==
    ASSUME BookInv, AddressTypeOK', [BookNext]_bookVars
    PROVE  BookInv'
<1> USE NoTxAssumption DEF BookInv, AddressTypeOK
<1>1. CASE UNCHANGED bookVars
  BY <1>1 DEF bookVars, DraftsAreHeld, HoldersServe, ClearsToSet, HoldsQuietly, HoldsTheDefault
<1>2. ASSUME NEW t \in Tx, Ask(t)
      PROVE  BookInv'
  <2>1. PICK op \in {"create", "update", "set", "delete"}, a \in Address \cup {NoAddress},
             flag \in Flag :
                /\ Begin(t, Asked(op, a, flag))
                /\ op # "create" => a \in Address
                /\ op = "delete" => flag = "absent"
    BY <1>2 DEF Ask, BeginCreate, BeginUpdate, BeginSet, BeginDelete, Flag, Saved
  <2>2. /\ request[t] = Idle
        /\ request' = [request EXCEPT ![t] = Asked(op, a, flag)]
        /\ UNCHANGED AtBook
    BY <2>1 DEF Begin, Starts, Go
  <2>3. \A b \in Address : bookHolder[b] # t
    BY <2>2 DEF HoldersServe
  <2>4. DraftsAreHeld(book, bookDraft, bookHolder)'
    BY <2>2 DEF AtBook, DraftsAreHeld
  <2>5. HoldersServe'
    BY <2>2, <2>3 DEF AtBook, HoldersServe
  <2>6. ClearsToSet'
    BY <2>1, <2>2 DEF AtBook, ClearsToSet, Asked
  <2>7. HoldsQuietly'
    BY <2>2, <2>3 DEF AtBook, HoldsQuietly
  <2>8. HoldsTheDefault'
    BY <2>2 DEF AtBook, HoldsTheDefault, Asked
  <2> QED BY <2>4, <2>5, <2>6, <2>7, <2>8
<1>3. ASSUME NEW t \in Tx, Serve(t)
      PROVE  BookInv'
  <2> DEFINE r == request[t]
  <2> USE DEF HoldersServe, ClearsToSet, HoldsQuietly, HoldsTheDefault, DraftsAreHeld
  <2>1. CASE Find(t)
    <3>1. r \in Request /\ r.stage = "find" /\ UNCHANGED AtBook
      BY <2>1 DEF Find, Idle
    <3>2. \A b \in Address : bookHolder[b] # t
      BY <3>1
    <3>3. CASE Ends(t)
      BY <3>1, <3>2, <3>3 DEF Ends, Go, AtBook
    <3>4. CASE ~Ends(t)
      <4> DEFINE q == [r EXCEPT !.stage = IF Wants(t, r) THEN "clear" ELSE "write",
                                !.flag = IF Wants(t, r) THEN "yes" ELSE @]
      <4>1. request' = [request EXCEPT ![t] = q]
        BY <2>1, <3>4 DEF Find, Continues, Go
      <4>2. /\ q # Idle /\ r # Idle
            /\ q.stage \in {"clear", "write"}
            /\ q.stage = "clear" => q.flag = "yes"
            /\ q.op = r.op /\ q.address = r.address
            /\ q.op = "delete" => q.stage = "write" /\ q.flag = "absent"
        <5>1. r # Idle
          BY <3>1 DEF Idle
        <5>2. r.op = "delete" => ~Wants(t, r) /\ r.flag = "absent"
          BY <5>1 DEF Wants
        <5>3. q.stage \in {"clear", "write"}
          BY <3>1 DEF Request
        <5>4. q # Idle
          <6>1. Idle.stage = "idle"
            BY DEF Idle
          <6> HIDE DEF q
          <6> QED BY <5>3, <6>1
        <5>5. q.op = r.op /\ q.address = r.address
          BY <3>1 DEF Request
        <5>6. (q.stage = "clear" => q.flag = "yes")
              /\ (q.op = "delete" => q.stage = "write" /\ q.flag = "absent")
          <6>1. CASE Wants(t, r)
            BY <3>1, <5>2, <5>5, <6>1 DEF Request
          <6>2. CASE ~Wants(t, r)
            BY <3>1, <5>2, <5>5, <6>2 DEF Request
          <6> QED BY <6>1, <6>2
        <5> QED BY <5>1, <5>3, <5>4, <5>5, <5>6
      <4> HIDE DEF q
      <4> QED BY <3>1, <3>2, <4>1, <4>2 DEF AtBook
    <3> QED BY <3>3, <3>4
  <2>2. CASE Clear(t)
    BY <2>2 DEF Clear, Continues, Go, AtBook, Idle, Request
  <2>3. CASE ClearRow(t)
    <3>1. r \in Request /\ r.stage = "clearing" /\ r.flag = "yes"
      BY <2>3 DEF ClearRow, Idle
    <3>2. PICK a \in r.todo :
              /\ Free(bookHolder, t, a)
              /\ Continues(t, [r EXCEPT !.todo = @ \ {a}])
              /\ IF bookDraft[a] = "default" THEN PutPlain(t, a) ELSE UNCHANGED AtBook
      BY <2>3 DEF ClearRow
    <3> DEFINE q == [r EXCEPT !.todo = @ \ {a}]
    <3>3. q.stage = "clearing" /\ q.flag = "yes" /\ q.op = r.op /\ q.address = r.address
      BY <3>1 DEF Request
    <3>4. request' = [request EXCEPT ![t] = q] /\ a \in Address
      BY <3>1, <3>2 DEF Continues, Go, Request
    <3>5. q # Idle /\ r # Idle
      BY <3>1, <3>3 DEF Idle
    <3> HIDE DEF q
    <3>6. CASE UNCHANGED AtBook
      BY <3>1, <3>3, <3>4, <3>5, <3>6 DEF AtBook
    <3>7. CASE PutPlain(t, a)
      BY <3>1, <3>2, <3>3, <3>4, <3>5, <3>7 DEF PutPlain, Put, Lock, Free
    <3> QED BY <3>2, <3>6, <3>7
  <2>4. CASE Cleared(t)
    BY <2>4 DEF Cleared, Continues, Go, AtBook, Idle, Request
  <2>5. CASE WriteRow(t)
    <3>1. r \in Request /\ r.stage = "write" /\ r.op # "delete"
      BY <2>5 DEF WriteRow, Idle
    <3>2. PICK a \in Address :
              /\ IF r.op = "create" THEN bookDraft[a] = "none" /\ bookHolder[a] = NoTx
                 ELSE a = r.address /\ a \in Saved(bookDraft) /\ Free(bookHolder, t, a)
              /\ Put(t, a, Written(r, bookDraft[a]))
              /\ Continues(t, [r EXCEPT !.stage = "commit", !.address = a])
      BY <2>5 DEF WriteRow
    <3> DEFINE q   == [r EXCEPT !.stage = "commit", !.address = a]
               row == Written(r, bookDraft[a])
    <3>3. q.stage = "commit" /\ q.flag = r.flag /\ q.op = r.op /\ q.address = a
      BY <3>1 DEF Request
    <3>10. r # Idle /\ q # Idle
      <4>1. q \in Request
        BY <3>1 DEF Request
      <4> HIDE DEF q
      <4> QED BY <3>1, <4>1, RequestsServe
    <3>4. request' = [request EXCEPT ![t] = q]
      BY <3>2 DEF Continues, Go
    <3>5. /\ r.flag = "yes" => row = "default"
          /\ r.flag = "absent" /\ r.op # "create" => row = bookDraft[a]
      BY DEF Written
    <3> HIDE DEF q, row
    <3>6. bookDraft' = [bookDraft EXCEPT ![a] = row] /\ bookHolder' = Lock(bookHolder, t, a)
          /\ UNCHANGED book
      BY <3>2 DEF Put, row
    <3>7. r.flag # "yes" => \A b \in Address : bookHolder[b] # t
      BY <3>1
    <3>8. bookHolder[a] \in {NoTx, t}
      BY <3>2 DEF Free
    <3>9. HoldsQuietly'
      <4> SUFFICES ASSUME NEW b \in Address, NEW u \in Tx, bookHolder'[b] = u,
                          request'[u].flag # "yes"
                   PROVE  /\ request'[u].stage = "commit"
                          /\ request'[u].flag = "absent" /\ book'[b] = "default" =>
                                bookDraft'[b] = "default"
        OBVIOUS
      <4>1. CASE u # t
        BY <3>4, <3>6, <3>8, <4>1 DEF Lock
      <4>2. CASE u = t
        <5>1. b = a /\ bookHolder[a] = NoTx
          BY <3>3, <3>4, <3>6, <3>7, <3>8, <4>2 DEF Lock
        <5> QED BY <3>2, <3>3, <3>4, <3>5, <3>6, <4>2, <5>1
      <4> QED BY <4>1, <4>2
    <3> QED BY <3>1, <3>3, <3>4, <3>5, <3>6, <3>8, <3>9, <3>10 DEF Lock
  <2>6. CASE DeleteRow(t)
    <3>1. r # Idle /\ r.op = "delete" /\ r.stage = "write"
      BY <2>6 DEF DeleteRow, Idle
    <3>2. r \in Request /\ r.address \in Address /\ bookHolder[r.address] = NoTx
      BY <2>6, <3>1 DEF DeleteRow
    <3>3. \A b \in Address : bookHolder[b] # t
      BY <3>1
    <3> QED BY <2>6, <3>1, <3>2, <3>3 DEF DeleteRow, Ends, Go
  <2>7. CASE Commit(t)
    BY <2>7 DEF Commit, Rows, View, Unlock, Ends, Go
  <2>8. CASE Abort(t)
    BY <2>8 DEF Abort, Discard, Unlock, Ends, Go
  <2> QED BY <1>3, <2>1, <2>2, <2>3, <2>4, <2>5, <2>6, <2>7, <2>8 DEF Serve
<1> QED BY <1>1, <1>2, <1>3 DEF BookNext

LEMMA BookInvHolds == BookSpec => []BookInv
<1>1. BookInit => BookInv
  BY NoTxAssumption DEF BookInit, BookInv, AddressTypeOK, AddressRow, DraftsAreHeld,
     HoldersServe, ClearsToSet, HoldsQuietly, HoldsTheDefault
<1>2. BookInv /\ [BookNext]_bookVars => BookInv'
  BY AddressTypeStep, BookInvStep DEF BookInv
<1> QED BY <1>1, <1>2, PTL DEF BookSpec

-----------------------------------------------------------------------------
\* Every state of a run is well typed.
THEOREM AddressTypeCorrect == BookSpec => []AddressTypeOK
BY BookInvHolds, PTL DEF BookInv

\* However requests overlap, and wherever they break off, a customer loses the
\* last default only by a delete or an unset (AddressService).
THEOREM DefaultStands == BookSpec => LastDefaultGoesByHand
<1>1. ASSUME BookInv, [BookNext]_bookVars, Defaults(book) # {}, Defaults(book') = {}
      PROVE  \E t \in Active : request'[t] = Idle
                               /\ (request[t].op = "delete" \/ request[t].flag = "no")
  <2> USE DEF BookInv, AddressTypeOK
  <2>1. book' # book
    BY <1>1
  <2>2. PICK t \in Tx : Commit(t) \/ DeleteRow(t)
    <3>1. PICK t \in Tx : Ask(t) \/ Serve(t)
      BY <1>1, <2>1 DEF BookNext, bookVars
    <3>2. ~Ask(t)
      BY <2>1 DEF Ask, BeginCreate, BeginUpdate, BeginSet, BeginDelete, Begin, AtBook
    <3>3. ~Find(t) /\ ~Clear(t) /\ ~ClearRow(t) /\ ~Cleared(t) /\ ~WriteRow(t) /\ ~Abort(t)
      BY <2>1 DEF Find, Clear, ClearRow, Cleared, WriteRow, Abort, PutPlain, Put, AtBook
    <3> QED BY <3>1, <3>2, <3>3 DEF Serve
  <2>3. t \in Active /\ request'[t] = Idle
    <3>1. request[t].stage \in {"commit", "write"} /\ Ends(t)
      BY <2>2 DEF Commit, DeleteRow
    <3>2. request[t] # Idle
      BY <3>1 DEF Idle
    <3>3. t \in Active
      BY <3>2 DEF Active
    <3>4. request' = [request EXCEPT ![t] = Idle]
      BY <3>1 DEF Ends, Go
    <3> QED BY <1>1, <3>3, <3>4
  <2>4. CASE DeleteRow(t)
    BY <2>3, <2>4 DEF DeleteRow
  <2>5. CASE Commit(t)
    <3>1. request[t] \in Request
      BY <1>1, <2>3 DEF Active
    <3>4. /\ request[t].stage = "commit"
          /\ \A a \in Address : book'[a] = IF bookHolder[a] = t THEN bookDraft[a] ELSE book[a]
      BY <1>1, <2>5 DEF Commit, Rows, View
    <3>2. request[t].flag # "yes"
      BY <1>1, <2>3, <3>1, <3>4 DEF HoldsTheDefault, Defaults, Active
    <3>3. request[t].flag # "absent"
      BY <1>1, <3>1, <3>4 DEF HoldsQuietly, Defaults
    <3> QED BY <2>3, <3>1, <3>2, <3>3 DEF Request, Flag
  <2> QED BY <2>2, <2>4, <2>5
<1>2. BookInv /\ [BookNext]_bookVars =>
        [Defaults(book) # {} /\ Defaults(book') = {} =>
            \E t \in Active : request'[t] = Idle
                /\ (request[t].op = "delete" \/ request[t].flag = "no")]_bookVars
  BY <1>1
<1> QED BY BookInvHolds, <1>2, PTL DEF BookSpec, LastDefaultGoesByHand

-----------------------------------------------------------------------------
(* What a request finds while nobody overlaps it.                          *)

LoneClears ==
    \A t \in Tx : alone[t] /\ request[t].flag = "yes" =>
        /\ request[t].stage = "clearing" => Defaults(bookDraft) \subseteq request[t].todo
        /\ request[t].stage = "write" => Defaults(bookDraft) = {}
        /\ request[t].stage = "commit" => Defaults(bookDraft) \subseteq {request[t].address}

LoneIsFirst ==
    \A t \in Tx : alone[t] /\ Saved(book) = {} /\ request[t].stage # "find" =>
        /\ request[t].flag = "yes"
        /\ request[t].stage # "commit" => Saved(bookDraft) = {}
        /\ request[t].stage = "commit" => Saved(bookDraft) \subseteq {request[t].address}

\* The address book's requests and who of them is alone.
BookHistories == Histories(request, alone)
LoneInBook    == LoneIsLone(request, alone)

LoneInv == BookInv /\ BookHistories /\ LoneInBook /\ LoneClears /\ LoneIsFirst

\* Nobody else holds a row then: the newest rows are the rows it sees.
LEMMA LoneSeesNewest ==
    ASSUME BookInv, LoneInBook, NEW t \in Tx, alone[t]
    PROVE  /\ request[t] \in Request
           /\ Rows(t) = bookDraft
           /\ \A a \in Address : bookHolder[a] \in {NoTx, t}
<1> USE DEF BookInv, AddressTypeOK
<1>1. \A a \in Address : bookHolder[a] \in {NoTx, t}
  BY DEF LoneInBook, LoneIsLone, HoldersServe
<1>2. \A a \in Address : Rows(t)[a] = bookDraft[a]
  BY <1>1 DEF Rows, View, DraftsAreHeld
<1>3. Rows(t) = bookDraft
  BY <1>2 DEF Rows, View
<1> QED BY <1>1, <1>3 DEF LoneInBook, LoneIsLone

LEMMA LoneStep ==
    ASSUME LoneInv, BookInv', [BookNext]_bookVars
    PROVE  LoneInv'
<1> USE DEF LoneInv, BookInv, AddressTypeOK
<1>1. CASE UNCHANGED bookVars
  BY <1>1 DEF bookVars, BookHistories, LoneInBook, Histories, LoneIsLone, LoneClears, LoneIsFirst,
     Defaults, Saved
<1>2. ASSUME NEW t \in Tx, Ask(t)
      PROVE  LoneInv'
  <2>1. PICK op \in {"create", "update", "set", "delete"}, a \in Address \cup {NoAddress},
             flag \in Flag : Begin(t, Asked(op, a, flag))
    BY <1>2 DEF Ask, BeginCreate, BeginUpdate, BeginSet, BeginDelete, Flag, Saved
  <2> DEFINE q == Asked(op, a, flag)
  <2>2. q \in Request /\ q.stage = "find"
    BY DEF Asked, Request
  <2> HIDE DEF q
  <2>3. Starts(t, q)
    BY <2>1 DEF Begin, q
  <2>4. request'[t] = q
    BY <2>3 DEF Starts, Go
  <2>5. BookHistories' /\ LoneInBook' /\ \A u \in Tx \ {t} : ~alone'[u]
    <3>1. /\ alone' \in [Tx -> BOOLEAN]
          /\ alone'[t] => \A u \in Tx : request[u] = Idle
          /\ \A u \in Tx \ {t} : alone'[u] => alone[u] /\ request[u] = Idle
      BY <2>3 DEF Starts, Active, BookHistories, Histories
    <3>2. /\ Histories(request, alone) /\ LoneIsLone(request, alone)
          /\ q # Idle /\ request' = [request EXCEPT ![t] = q]
      BY <2>2, <2>3, RequestsServe DEF LoneInv, Starts, Go, BookHistories, LoneInBook
    <3>3. /\ Histories(request', alone') /\ LoneIsLone(request', alone')
          /\ \A u \in Tx \ {t} : ~alone'[u]
      BY <3>1, <3>2 DEF Histories, LoneIsLone
    <3> QED BY <3>3 DEF BookHistories, LoneInBook, Histories, LoneIsLone
  <2> QED BY <2>2, <2>4, <2>5 DEF LoneClears, LoneIsFirst
<1>3. ASSUME NEW t \in Tx, request[t] # Idle, Ends(t)
      PROVE  LoneInv'
  <2>1. BookHistories' /\ LoneInBook' /\ \A u \in Tx : ~alone'[u]
    BY <1>3, EndsKeepsLone DEF Ends, Go, BookHistories, LoneInBook
  <2> QED BY <2>1 DEF LoneClears, LoneIsFirst
<1>4. ASSUME NEW t \in Tx, NEW q \in Request, request[t] # Idle, Continues(t, q),
             alone[t] /\ q.flag = "yes" =>
                /\ q.stage = "clearing" => Defaults(bookDraft') \subseteq q.todo
                /\ q.stage = "write" => Defaults(bookDraft') = {}
                /\ q.stage = "commit" => Defaults(bookDraft') \subseteq {q.address},
             alone[t] /\ Saved(book') = {} /\ q.stage # "find" =>
                /\ q.flag = "yes"
                /\ q.stage # "commit" => Saved(bookDraft') = {}
                /\ q.stage = "commit" => Saved(bookDraft') \subseteq {q.address}
      PROVE  LoneInv'
  <2>1. BookHistories' /\ LoneInBook' /\ alone' = alone /\ \A u \in Tx \ {t} : ~alone'[u]
    BY <1>4, RequestsServe, ContinuesKeepsLone DEF Continues, Go, BookHistories, LoneInBook
  <2>2. request'[t] = q
    BY <1>4 DEF Continues, Go
  <2>3. LoneClears'
    BY <1>4, <2>1, <2>2 DEF LoneClears, Defaults
  <2>4. LoneIsFirst'
    BY <1>4, <2>1, <2>2 DEF LoneIsFirst, Saved
  <2> QED BY <2>1, <2>3, <2>4
<1>5. ASSUME NEW t \in Tx, Serve(t)
      PROVE  LoneInv'
  <2> DEFINE r == request[t]
  <2>1. CASE Find(t)
    <3>1. r # Idle /\ r \in Request /\ r.stage = "find" /\ UNCHANGED AtBook
      <4>1. r.stage = "find" /\ UNCHANGED AtBook
        BY <2>1 DEF Find
      <4>2. r # Idle
        BY <4>1 DEF Idle
      <4> QED BY <4>1, <4>2
    <3>2. CASE Ends(t)
      BY <1>3, <3>1, <3>2
    <3>3. CASE ~Ends(t)
      <4> DEFINE q == [r EXCEPT !.stage = IF Wants(t, r) THEN "clear" ELSE "write",
                                !.flag = IF Wants(t, r) THEN "yes" ELSE @]
      <4>1. /\ Continues(t, q)
            /\ r.op # "create" => r.address \in Saved(Rows(t))
        BY <2>1, <3>3 DEF Find
      <4>2. q \in Request
        <5>1. CASE Wants(t, r)
          BY <3>1, <5>1 DEF Request, Flag
        <5>2. CASE ~Wants(t, r)
          BY <3>1, <5>2 DEF Request, Flag
        <5> QED BY <5>1, <5>2
      <4>3. /\ Wants(t, r) => q.stage = "clear" /\ q.flag = "yes"
            /\ ~Wants(t, r) => q.stage = "write" /\ q.flag = r.flag
        BY <3>1 DEF Request
      <4>4. q.flag = "yes" => q.stage = "clear"
        <5>1. ~Wants(t, r) /\ r.flag = "yes" => r.op = "delete"
          BY DEF Wants
        <5> QED BY <3>1, <4>3, <5>1 DEF ClearsToSet
      <4>5. alone[t] /\ Saved(book) = {} => Wants(t, r) /\ Saved(bookDraft) = {}
        <5> SUFFICES ASSUME alone[t], Saved(book) = {}
                     PROVE  Wants(t, r) /\ Saved(bookDraft) = {}
          OBVIOUS
        <5>1. \A a \in Address : bookHolder[a] = NoTx
          BY <3>1, LoneSeesNewest DEF HoldersServe
        <5>2. Saved(bookDraft) = {}
          BY <5>1 DEF DraftsAreHeld, Saved
        <5> QED BY <4>1, <5>2, LoneSeesNewest DEF Wants
      <4> HIDE DEF q
      <4> QED BY <1>4, <3>1, <4>1, <4>2, <4>3, <4>4, <4>5 DEF AtBook, Saved
    <3> QED BY <3>2, <3>3
  <2>2. CASE Clear(t)
    <3>1. r.stage = "clear" /\ r # Idle /\ UNCHANGED AtBook
      BY <2>2 DEF Clear, Idle
    <3> DEFINE q == [r EXCEPT !.stage = "clearing", !.todo = ToClear(t)]
    <3>2. Continues(t, q)
      BY <2>2 DEF Clear
    <3>3. r \in Request /\ ToClear(t) \subseteq Address
      BY <3>1 DEF ToClear, Defaults
    <3>4. q \in Request /\ q.stage = "clearing" /\ q.flag = r.flag /\ q.todo = ToClear(t)
      BY <3>3 DEF Request
    <3> HIDE DEF q
    <3>5. alone[t] => ToClear(t) = Defaults(bookDraft)
      BY LoneSeesNewest DEF ToClear
    <3>6. alone[t] /\ Saved(book) = {} => r.flag = "yes" /\ Saved(bookDraft) = {}
      BY <3>1 DEF LoneIsFirst
    <3>7. bookDraft' = bookDraft /\ book' = book
      BY <3>1 DEF AtBook
    <3> QED BY <1>4, <3>1, <3>2, <3>4, <3>5, <3>6, <3>7
  <2>3. CASE ClearRow(t)
    <3>1. r.stage = "clearing" /\ r # Idle
      BY <2>3 DEF ClearRow, Idle
    <3>2. PICK a \in r.todo :
              /\ Continues(t, [r EXCEPT !.todo = @ \ {a}])
              /\ IF bookDraft[a] = "default" THEN PutPlain(t, a) ELSE UNCHANGED AtBook
      BY <2>3 DEF ClearRow
    <3> DEFINE q == [r EXCEPT !.todo = @ \ {a}]
    <3>3. r \in Request /\ a \in Address
      BY <3>1, <3>2 DEF Request
    <3>4. /\ q \in Request /\ q.stage = "clearing" /\ q.flag = "yes" /\ q.todo = r.todo \ {a}
          /\ r.flag = "yes"
      BY <3>1, <3>3 DEF Request, ClearsToSet
    <3>5. Continues(t, q)
      BY <3>2
    <3> HIDE DEF q
    <3>6. book' = book
      BY <3>2 DEF PutPlain, Put, AtBook
    <3>7. \A b \in Address : bookDraft'[b] = IF b = a /\ bookDraft[a] = "default" THEN "plain"
                                              ELSE bookDraft[b]
      BY <3>2, <3>3 DEF PutPlain, Put, AtBook
    <3>8. alone[t] => Defaults(bookDraft') \subseteq q.todo
      BY <3>1, <3>3, <3>4, <3>7 DEF LoneClears, Defaults
    <3>9. alone[t] /\ Saved(book') = {} => Saved(bookDraft') = {}
      BY <3>1, <3>3, <3>6, <3>7 DEF LoneIsFirst, Saved
    <3> QED BY <1>4, <3>1, <3>4, <3>5, <3>8, <3>9
  <2>4. CASE Cleared(t)
    <3>1. r.stage = "clearing" /\ r.todo = {} /\ r # Idle /\ UNCHANGED AtBook
      BY <2>4 DEF Cleared, Idle
    <3> DEFINE q == [r EXCEPT !.stage = "write"]
    <3>2. Continues(t, q)
      BY <2>4 DEF Cleared
    <3>3. r \in Request
      BY <3>1
    <3>4. q \in Request /\ q.stage = "write" /\ q.flag = r.flag
      BY <3>3 DEF Request
    <3> HIDE DEF q
    <3>5. alone[t] => Defaults(bookDraft) = {}
      BY <3>1 DEF LoneClears, ClearsToSet
    <3>6. alone[t] /\ Saved(book) = {} => r.flag = "yes" /\ Saved(bookDraft) = {}
      BY <3>1 DEF LoneIsFirst
    <3>7. bookDraft' = bookDraft /\ book' = book
      BY <3>1 DEF AtBook
    <3> QED BY <1>4, <3>1, <3>2, <3>4, <3>5, <3>6, <3>7
  <2>5. CASE WriteRow(t)
    <3>1. r.stage = "write" /\ r # Idle
      BY <2>5 DEF WriteRow, Idle
    <3>2. PICK a \in Address :
              /\ Put(t, a, Written(r, bookDraft[a]))
              /\ Continues(t, [r EXCEPT !.stage = "commit", !.address = a])
      BY <2>5 DEF WriteRow
    <3> DEFINE q == [r EXCEPT !.stage = "commit", !.address = a]
    <3>3. r \in Request
      BY <3>1
    <3>4. q \in Request /\ q.stage = "commit" /\ q.flag = r.flag /\ q.address = a
      BY <3>3 DEF Request
    <3>5. Continues(t, q)
      BY <3>2
    <3> HIDE DEF q
    <3>6. book' = book /\ \A b \in Address \ {a} : bookDraft'[b] = bookDraft[b]
      BY <3>2 DEF Put
    <3>7. alone[t] /\ r.flag = "yes" => Defaults(bookDraft') \subseteq {a}
      BY <3>1, <3>6 DEF LoneClears, Defaults
    <3>8. alone[t] /\ Saved(book') = {} => r.flag = "yes" /\ Saved(bookDraft') \subseteq {a}
      BY <3>1, <3>6 DEF LoneIsFirst, Saved
    <3> QED BY <1>4, <3>1, <3>4, <3>5, <3>7, <3>8
  <2>6. CASE DeleteRow(t) \/ Commit(t) \/ Abort(t)
    <3>1. Ends(t) /\ (request[t].stage \in {"write", "commit"} \/ request[t] # Idle)
      BY <2>6 DEF DeleteRow, Commit, Abort
    <3>2. request[t] # Idle
      BY <3>1 DEF Idle
    <3> QED BY <1>3, <3>1, <3>2
  <2> QED BY <1>5, <2>1, <2>2, <2>3, <2>4, <2>5, <2>6 DEF Serve
<1> QED BY <1>1, <1>2, <1>5 DEF BookNext

LEMMA LoneInvHolds == BookSpec => []LoneInv
<1>1. BookInit => LoneInv
  <2> SUFFICES ASSUME BookInit PROVE LoneInv
    OBVIOUS
  <2>1. BookInv
    BY NoTxAssumption DEF BookInit, BookInv, AddressTypeOK, AddressRow, DraftsAreHeld,
       HoldersServe, ClearsToSet, HoldsQuietly, HoldsTheDefault
  <2>2. BookHistories /\ LoneInBook
    BY NobodyYet DEF BookInit, BookHistories, LoneInBook
  <2> QED BY <2>1, <2>2 DEF BookInit, LoneInv, LoneClears, LoneIsFirst
<1>2. LoneInv /\ BookInv' /\ [BookNext]_bookVars => LoneInv'
  BY LoneStep
<1> QED BY <1>1, <1>2, BookInvHolds, PTL DEF BookSpec

\* The address a lone request makes the default is the only one, whatever
\* earlier races left, and so is the first address of a customer
\* (clearDefaultForUser, countByUserId).
THEOREM LoneDefaultStands == BookSpec => LoneDefaultIsOnly
<1>1. ASSUME LoneInv, NEW t \in Tx, alone[t], Commit(t)
      PROVE  /\ request[t].flag = "yes" => Defaults(book') = {request[t].address}
             /\ Saved(book) = {} => Defaults(book') = Saved(book')
  <2>1. book' = bookDraft /\ request[t].stage = "commit" /\ request[t] # Idle
    <3>1. book' = Rows(t) /\ request[t].stage = "commit"
      BY <1>1 DEF Commit
    <3>2. request[t] # Idle
      BY <3>1 DEF Idle
    <3> QED BY <1>1, <3>1, <3>2, LoneSeesNewest DEF LoneInv
  <2>2. request[t].flag = "yes" => Defaults(bookDraft) = {request[t].address}
    BY <1>1, <2>1 DEF LoneInv, BookInv, LoneClears, HoldsTheDefault, Defaults
  <2>3. Saved(book) = {} => Defaults(bookDraft) = Saved(bookDraft)
    BY <1>1, <2>1, <2>2 DEF LoneInv, LoneIsFirst, Defaults, Saved
  <2> QED BY <2>1, <2>2, <2>3
<1>2. LoneInv /\ [BookNext]_bookVars =>
        [\A t \in Tx : alone[t] /\ Commit(t) =>
            /\ request[t].flag = "yes" => Defaults(book') = {request[t].address}
            /\ Saved(book) = {} => Defaults(book') = Saved(book')]_bookVars
  BY <1>1
<1> QED BY LoneInvHolds, <1>2, PTL DEF BookSpec, LoneDefaultIsOnly

-----------------------------------------------------------------------------
(* Uploads.                                                                *)

UploadRequest ==
    [op : {"create", "update", "delete"}, stage : {"upload", "write", "unlink", "clean"},
     old : File \cup {NoFile}, new : File \cup {NoFile}, before : SUBSET File]

UploadsTypeOK ==
    /\ style \in {"late", "early"}
    /\ image \in File \cup {NoFile}
    /\ disk \subseteq drawn /\ drawn \subseteq File
    /\ uploadRequest \in [Tx -> UploadRequest \cup {Uploads!Idle}]

UploadServes(t, stage) == uploadRequest[t] # Uploads!Idle /\ uploadRequest[t].stage = stage

\* A file saved for the row and not yet in it.
WaitsToShow(t) == UploadServes(t, "write") /\ uploadRequest[t].new # NoFile

\* Nothing names a file that was never drawn.
NamesAreDrawn ==
    /\ image # NoFile => image \in drawn
    /\ \A t \in Tx : uploadRequest[t] # Uploads!Idle =>
          /\ uploadRequest[t].old # NoFile => uploadRequest[t].old \in drawn
          /\ uploadRequest[t].new # NoFile => uploadRequest[t].new \in drawn

\* A file that waits to be written is stored, and nobody else knows it.
WaitsUnknown ==
    \A t \in Tx : WaitsToShow(t) =>
        /\ uploadRequest[t].new \in disk /\ uploadRequest[t].new # image
        /\ uploadRequest[t].new # uploadRequest[t].old
        /\ \A u \in Tx \ {t} : uploadRequest[u] # Uploads!Idle =>
              /\ uploadRequest[t].new # uploadRequest[u].old
              /\ uploadRequest[t].new # uploadRequest[u].new

\* A file about to be deleted is not in the row, unless its insert is doubted.
DoomedIsUnshown ==
    \A t \in Tx :
        /\ UploadServes(t, "unlink") /\ uploadRequest[t].old # NoFile =>
              uploadRequest[t].old # image
        /\ UploadServes(t, "clean") /\ uploadRequest[t].new # NoFile =>
              uploadRequest[t].new # image \/ uploadRequest[t].new \in doubted

RowIsStored == image # NoFile => image \in disk \cup doubted

UploadsInv ==
    /\ UploadsTypeOK /\ NamesAreDrawn
    /\ style = "late" => WaitsUnknown /\ DoomedIsUnshown /\ RowIsStored

-----------------------------------------------------------------------------
LEMMA RequestedServe == ASSUME NEW r \in UploadRequest PROVE r # Uploads!Idle
BY DEF UploadRequest, Uploads!Idle

\* A request begins: it knows what the row shows, and has saved nothing.
LEMMA BeginKeepsFiles ==
    ASSUME UploadsInv, NEW t \in Tx, NEW op \in {"create", "update", "delete"},
           NEW stage \in {"upload", "write", "unlink"}, NEW old \in {image, NoFile},
           style = "late" => stage # "unlink",
           Uploads!Begin(t, Uploads!Asked(op, stage, old))
    PROVE  UploadsInv'
<1> DEFINE q == Uploads!Asked(op, stage, old)
<1>1. /\ q \in UploadRequest /\ q # Uploads!Idle
      /\ q.old = old /\ q.new = NoFile /\ q.stage = stage
  <2>1. Uploads!Orphans \subseteq File
    BY DEF Uploads!Orphans, UploadsInv, UploadsTypeOK
  <2>2. q \in UploadRequest /\ q.old = old /\ q.new = NoFile /\ q.stage = stage
    BY <2>1 DEF Uploads!Asked, UploadRequest, UploadsInv, UploadsTypeOK
  <2> QED BY <2>2, RequestedServe
<1>2. /\ uploadRequest' = [uploadRequest EXCEPT ![t] = q]
      /\ UNCHANGED <<style, image, disk, drawn, doubted>>
  BY DEF Uploads!Begin, Uploads!Starts, Uploads!Go
<1> HIDE DEF q
<1>3. UploadsTypeOK' /\ NamesAreDrawn'
  BY <1>1, <1>2 DEF UploadsInv, UploadsTypeOK, NamesAreDrawn
<1>4. ASSUME style = "late"
      PROVE  WaitsUnknown' /\ DoomedIsUnshown' /\ RowIsStored'
  <2>1. WaitsUnknown'
    BY <1>1, <1>2, <1>4 DEF UploadsInv, UploadsTypeOK, WaitsUnknown, WaitsToShow, UploadServes
  <2>2. DoomedIsUnshown' /\ RowIsStored'
    BY <1>1, <1>2, <1>4
       DEF UploadsInv, UploadsTypeOK, DoomedIsUnshown, RowIsStored, UploadServes
  <2> QED BY <2>1, <2>2
<1> QED BY <1>2, <1>3, <1>4 DEF UploadsInv

LEMMA AskKeepsFiles == ASSUME UploadsInv, NEW t \in Tx, Uploads!Ask(t) PROVE UploadsInv'
<1>1. PICK op \in {"create", "update", "delete"}, stage \in {"upload", "write", "unlink"},
           old \in {image, NoFile} :
              /\ style = "late" => stage # "unlink"
              /\ Uploads!Begin(t, Uploads!Asked(op, stage, old))
  <2>1. CASE Uploads!BeginCreate(t) \/ Uploads!BeginReplace(t) \/ Uploads!BeginDelete(t)
    BY <2>1 DEF Uploads!BeginCreate, Uploads!BeginReplace, Uploads!BeginDelete, Uploads!Asked
  <2>2. CASE Uploads!BeginRemoveImage(t)
    BY <2>2 DEF Uploads!BeginRemoveImage, Uploads!AfterUpload, Uploads!Asked
  <2> QED BY <2>1, <2>2 DEF Uploads!Ask
<1> QED BY <1>1, BeginKeepsFiles

LEMMA UploadKeepsFiles == ASSUME UploadsInv, NEW t \in Tx, Uploads!Upload(t) PROVE UploadsInv'
<1> DEFINE r == uploadRequest[t]
<1>1. r \in UploadRequest
  BY DEF Uploads!Upload, Uploads!Idle, UploadsInv, UploadsTypeOK
<1>2. PICK f \in File \ drawn :
          /\ disk' = disk \cup {f} /\ drawn' = drawn \cup {f}
          /\ uploadRequest' =
                 [uploadRequest EXCEPT ![t] = [r EXCEPT !.new = f, !.stage = Uploads!AfterUpload(r.old)]]
          /\ UNCHANGED <<style, image, doubted>>
  BY DEF Uploads!Upload, Uploads!Continues, Uploads!Go
<1> DEFINE q == [r EXCEPT !.new = f, !.stage = Uploads!AfterUpload(r.old)]
<1>3. /\ q \in UploadRequest /\ q # Uploads!Idle /\ q.old = r.old /\ q.new = f
      /\ style = "late" => q.stage = "write"
  <2>1. q \in UploadRequest /\ q.old = r.old /\ q.new = f
    BY <1>1 DEF UploadRequest, Uploads!AfterUpload
  <2>2. style = "late" => q.stage = "write"
    BY <1>1 DEF UploadRequest, Uploads!AfterUpload
  <2> QED BY <2>1, <2>2, RequestedServe
<1>4. uploadRequest' = [uploadRequest EXCEPT ![t] = q]
  BY <1>2
<1> HIDE DEF q
<1>5. UploadsTypeOK' /\ NamesAreDrawn'
  BY <1>1, <1>2, <1>3, <1>4, RequestedServe DEF UploadsInv, UploadsTypeOK, NamesAreDrawn
<1>6. ASSUME style = "late"
      PROVE  WaitsUnknown' /\ DoomedIsUnshown' /\ RowIsStored'
  <2>1. WaitsUnknown'
    BY <1>1, <1>2, <1>3, <1>4, <1>6, RequestedServe
       DEF UploadsInv, UploadsTypeOK, NamesAreDrawn, WaitsUnknown, WaitsToShow, UploadServes
  <2>2. DoomedIsUnshown' /\ RowIsStored'
    BY <1>2, <1>3, <1>4, <1>6
       DEF UploadsInv, UploadsTypeOK, DoomedIsUnshown, RowIsStored, UploadServes
  <2> QED BY <2>1, <2>2
<1> QED BY <1>2, <1>5, <1>6 DEF UploadsInv

\* The row is written: the file of this request is the one it shows.  The
\* request goes on to the disk, or ends there.
LEMMA RowKeepsFiles ==
    ASSUME UploadsInv, NEW t \in Tx, UploadServes(t, "write"), image' = uploadRequest[t].new,
           NEW next \in {"unlink", "clean"},
           next = "clean" => uploadRequest[t].new \in doubted',
           \/ Uploads!Ends(t)
           \/ Uploads!Continues(t, [uploadRequest[t] EXCEPT !.stage = next]),
           doubted \subseteq doubted', UNCHANGED <<style, disk, drawn>>
    PROVE  UploadsInv'
<1> DEFINE r == uploadRequest[t]
           q == [r EXCEPT !.stage = next]
<1>1. r \in UploadRequest
  BY DEF UploadServes, UploadsInv, UploadsTypeOK
<1>2. q \in UploadRequest /\ q # Uploads!Idle /\ q.old = r.old /\ q.new = r.new /\ q.stage = next
  <2>1. q \in UploadRequest /\ q.old = r.old /\ q.new = r.new /\ q.stage = next
    BY <1>1 DEF UploadRequest
  <2> QED BY <2>1, RequestedServe
<1>3. \/ uploadRequest' = [uploadRequest EXCEPT ![t] = Uploads!Idle]
      \/ uploadRequest' = [uploadRequest EXCEPT ![t] = q]
  BY DEF Uploads!Ends, Uploads!Continues, Uploads!Go
<1> HIDE DEF q
<1>4. UploadsTypeOK' /\ NamesAreDrawn'
  BY <1>1, <1>2, <1>3, RequestedServe DEF UploadsInv, UploadsTypeOK, NamesAreDrawn, UploadRequest
<1>5. ASSUME style = "late"
      PROVE  WaitsUnknown' /\ DoomedIsUnshown' /\ RowIsStored'
  <2>1. WaitsUnknown'
    BY <1>1, <1>2, <1>3, <1>5, RequestedServe
       DEF UploadsInv, UploadsTypeOK, WaitsUnknown, WaitsToShow, UploadServes
  <2>2. DoomedIsUnshown'
    BY <1>1, <1>2, <1>3, <1>5, RequestedServe
       DEF UploadsInv, UploadsTypeOK, WaitsUnknown, DoomedIsUnshown, WaitsToShow, UploadServes
  <2>3. RowIsStored'
    BY <1>5 DEF UploadsInv, WaitsUnknown, RowIsStored, WaitsToShow
  <2> QED BY <2>1, <2>2, <2>3
<1> QED BY <1>4, <1>5 DEF UploadsInv

\* A file goes, or none, and the request ends or goes on without the disk.
LEMMA DiskKeepsFiles ==
    ASSUME UploadsInv, NEW t \in Tx, NEW gone, uploadRequest[t] # Uploads!Idle,
           \/ disk' = disk
           \/ /\ disk' = disk \ {gone}
              /\ style = "late" => Uploads!Ends(t)
              /\ \/ UploadServes(t, "unlink") /\ gone = uploadRequest[t].old
                 \/ UploadServes(t, "clean") /\ gone = uploadRequest[t].new,
           \/ Uploads!Ends(t)
           \/ Uploads!Continues(t, [uploadRequest[t] EXCEPT !.stage = "clean"]) /\ UploadServes(t, "write")
           \/ Uploads!Continues(t, [uploadRequest[t] EXCEPT !.stage = "write"]) /\ style = "early",
           UNCHANGED <<style, image, drawn, doubted>>
    PROVE  UploadsInv'
<1> DEFINE r == uploadRequest[t]
           q(s) == [r EXCEPT !.stage = s]
<1>1. r \in UploadRequest
  BY DEF UploadsInv, UploadsTypeOK
<1>2. ASSUME NEW s \in {"write", "clean"}
      PROVE  q(s) \in UploadRequest /\ q(s) # Uploads!Idle /\ q(s).old = r.old /\ q(s).new = r.new
             /\ q(s).stage = s
  <2>1. q(s) \in UploadRequest /\ q(s).old = r.old /\ q(s).new = r.new /\ q(s).stage = s
    BY <1>1 DEF UploadRequest
  <2> QED BY <2>1, RequestedServe
<1>3. \/ uploadRequest' = [uploadRequest EXCEPT ![t] = Uploads!Idle]
      \/ uploadRequest' = [uploadRequest EXCEPT ![t] = q("clean")] /\ UploadServes(t, "write")
      \/ uploadRequest' = [uploadRequest EXCEPT ![t] = q("write")] /\ style = "early"
  BY DEF Uploads!Ends, Uploads!Continues, Uploads!Go
<1> HIDE DEF q
<1>4. UploadsTypeOK' /\ NamesAreDrawn'
  BY <1>1, <1>2, <1>3, RequestedServe DEF UploadsInv, UploadsTypeOK, NamesAreDrawn
<1>5. ASSUME style = "late"
      PROVE  WaitsUnknown' /\ DoomedIsUnshown' /\ RowIsStored'
  <2>1. WaitsUnknown'
    BY <1>1, <1>2, <1>3, <1>5, RequestedServe
       DEF UploadsInv, UploadsTypeOK, WaitsUnknown, WaitsToShow, UploadServes
  <2>2. DoomedIsUnshown'
    BY <1>1, <1>2, <1>3, <1>5, RequestedServe
       DEF UploadsInv, UploadsTypeOK, WaitsUnknown, DoomedIsUnshown, WaitsToShow, UploadServes
  <2>3. RowIsStored'
    BY <1>5 DEF UploadsInv, DoomedIsUnshown, RowIsStored, UploadServes
  <2> QED BY <2>1, <2>2, <2>3
<1> QED BY <1>4, <1>5 DEF UploadsInv

LEMMA ServeKeepsFiles == ASSUME UploadsInv, NEW t \in Tx, Uploads!Serve(t) PROVE UploadsInv'
<1> USE DEF UploadServes
<1>1. CASE Uploads!Upload(t)
  BY <1>1, UploadKeepsFiles
<1>2. CASE Uploads!Write(t)
  <2>1. uploadRequest[t] # Uploads!Idle
    BY <1>2 DEF Uploads!Write, Uploads!Idle
  <2> QED BY <1>2, <2>1, RowKeepsFiles DEF Uploads!Write
<1>3. CASE Uploads!Doubted(t)
  <2>1. uploadRequest[t] # Uploads!Idle
    BY <1>3 DEF Uploads!Doubted, Uploads!Idle
  <2> QED BY <1>3, <2>1, RowKeepsFiles DEF Uploads!Doubted
<1>4. CASE Uploads!Unlink(t)
  <2>1. uploadRequest[t] # Uploads!Idle
    BY <1>4 DEF Uploads!Unlink, Uploads!Idle
  <2>2. style = "late" => Uploads!Ends(t)
    BY <1>4 DEF Uploads!Unlink
  <2> QED BY <1>4, <2>1, <2>2, DiskKeepsFiles DEF Uploads!Unlink
<1>5. CASE Uploads!Refused(t)
  <2>1. uploadRequest[t] # Uploads!Idle
    BY <1>5 DEF Uploads!Refused, Uploads!Idle
  <2> QED BY <1>5, <2>1, DiskKeepsFiles DEF Uploads!Refused
<1>6. CASE Uploads!Clean(t)
  <2>1. uploadRequest[t] # Uploads!Idle
    BY <1>6 DEF Uploads!Clean, Uploads!Idle
  <2> QED BY <1>6, <2>1, DiskKeepsFiles DEF Uploads!Clean, Uploads!Cleaned
<1>7. CASE Uploads!Crash(t)
  BY <1>7, DiskKeepsFiles DEF Uploads!Crash
<1> QED BY <1>1, <1>2, <1>3, <1>4, <1>5, <1>6, <1>7 DEF Uploads!Serve

\* However requests overlap and wherever the server dies, a row whose service
\* deletes the replaced file after the write (UserService.updateProfile,
\* DeliveryManService) shows a file that is there, or one whose insert was
\* taken for failed.
THEOREM LateAlwaysThere == Uploads!UploadsSpec => []LateNeverDangles
<1>1. Uploads!UploadsInit => UploadsInv
  BY DEF Uploads!UploadsInit, UploadsInv, UploadsTypeOK, NamesAreDrawn, WaitsUnknown,
     DoomedIsUnshown, RowIsStored, WaitsToShow, UploadServes
<1>2. UploadsInv /\ [Uploads!UploadsNext]_(Uploads!uploadVars) => UploadsInv'
  <2>1. CASE UNCHANGED Uploads!uploadVars
    BY <2>1 DEF Uploads!uploadVars, UploadsInv, UploadsTypeOK, NamesAreDrawn, WaitsUnknown,
       DoomedIsUnshown, RowIsStored, WaitsToShow, UploadServes
  <2> QED BY <2>1, AskKeepsFiles, ServeKeepsFiles DEF Uploads!UploadsNext
<1>3. UploadsInv => LateNeverDangles
  BY DEF UploadsInv, RowIsStored, LateNeverDangles, Uploads!LateNeverDangles
<1> QED BY <1>1, <1>2, <1>3, PTL DEF Uploads!UploadsSpec, LateNeverDangles

-----------------------------------------------------------------------------
(* Bundling.                                                               *)

\* Bodies name variants, and Keep is none of their lists.
BodiesAssumption ==
    /\ Lists \subseteq SUBSET Variant /\ Keep \notin Lists
    /\ FirstParts \subseteq Variant

Item == [variant : Variant, list : Nat]
Row  == [life : {"fresh", "there", "gone"}, live : BOOLEAN, lists : Nat, items : SUBSET Item]

CreatedCombo ==
    [op : {"create"}, stage : {"check", "insert"}, combo : Combo, variants : Lists,
     live : BOOLEAN, wasLive : {FALSE}, seen : {{}}]

EditedCombo ==
    [op : {"edit"}, stage : {"check", "clear", "replace", "write", "commit"}, combo : Combo,
     variants : Lists \cup {Keep}, live : BOOLEAN \cup {Keep}, wasLive : BOOLEAN,
     seen : SUBSET Item]

DeletedCombo == [op : {"delete"}, stage : {"delete"}, combo : Combo]

RestatedVariants ==
    [op : {"statuses"}, stage : {"check", "set", "commit"}, variants : SUBSET Variant,
     on : BOOLEAN, retired : SUBSET Variant, touched : SUBSET Combo]

BundleRequest == CreatedCombo \cup EditedCombo \cup DeletedCombo \cup RestatedVariants

RowsTypeOK ==
    /\ part \in [Variant -> BOOLEAN] /\ partDraft \in [Variant -> BOOLEAN]
    /\ partHolder \in [Variant -> Tx \cup {NoTx}]
    /\ bundle \in [Combo -> Row] /\ bundleDraft \in [Combo -> Row]
    /\ bundleHolder \in [Combo -> Tx \cup {NoTx}]

RequestsTypeOK == bundleRequest \in [Tx -> BundleRequest \cup {Bundling!Idle}]

\* Only an edit that sends items goes through their replacement.
ReplacesItems == \A t \in Tx :
    bundleRequest[t] \in EditedCombo /\ bundleRequest[t].stage \in {"clear", "replace"} =>
        bundleRequest[t].variants # Keep

\* A row is locked by a request that has begun to write.
BundlersHold ==
    /\ \A v \in Variant, t \in Tx : partHolder[v] = t =>
          bundleRequest[t] # Bundling!Idle /\ bundleRequest[t].stage \in {"set", "commit"}
    /\ \A c \in Combo, t \in Tx : bundleHolder[c] = t =>
          bundleRequest[t] # Bundling!Idle /\ bundleRequest[t].stage \in {"set", "write", "commit"}

BundlingInv ==
    /\ RowsTypeOK /\ RequestsTypeOK /\ ReplacesItems /\ BundlersHold
    /\ Bundling!DraftsAreHeld(part, partDraft, partHolder)
    /\ Bundling!DraftsAreHeld(bundle, bundleDraft, bundleHolder)

-----------------------------------------------------------------------------
LEMMA BundleRequestServes == ASSUME NEW r \in BundleRequest PROVE r # Bundling!Idle
<1>1. r.stage # "idle"
  BY DEF BundleRequest, CreatedCombo, EditedCombo, DeletedCombo, RestatedVariants
<1> QED BY <1>1 DEF Bundling!Idle

\* The variants a list of items brings are those it names (replaceComboItems).
LEMMA ItemsBring ==
    ASSUME NEW variants \in SUBSET Variant, NEW list \in Nat
    PROVE  /\ Bundling!Items(variants, list) \subseteq Item
           /\ {i.variant : i \in Bundling!Items(variants, list)} = variants
<1>1. Bundling!Items(variants, list) \subseteq Item
  BY DEF Bundling!Items, Item
<1>2. ASSUME NEW i \in Bundling!Items(variants, list) PROVE i.variant \in variants
  BY DEF Bundling!Items
<1>3. ASSUME NEW v \in variants PROVE \E i \in Bundling!Items(variants, list) : i.variant = v
  <2>1. [variant |-> v, list |-> list] \in Bundling!Items(variants, list)
    BY DEF Bundling!Items
  <2> QED BY <2>1
<1> QED BY <1>1, <1>2, <1>3

LEMMA DraftRow ==
    ASSUME NEW variants \in SUBSET Variant
    PROVE  Bundling!Draft(variants) \in Row /\ Bundling!Parts(Bundling!Draft(variants)) = variants
BY ItemsBring DEF Bundling!Draft, Row, Bundling!Parts

\* What a step that changes no row keeps, and what becomes of its request.
LEMMA NoRowChanges ==
    ASSUME BundlingInv, NEW t \in Tx, UNCHANGED <<Bundling!AtVariants, Bundling!AtCombos>>,
           NEW q \in BundleRequest \cup {Bundling!Idle},
           bundleRequest' = [bundleRequest EXCEPT ![t] = q],
           q \in EditedCombo /\ q.stage \in {"clear", "replace"} => q.variants # Keep,
           \/ bundleRequest[t] = Bundling!Idle
           \/ /\ bundleRequest[t] # Bundling!Idle
              /\ bundleRequest[t].stage \notin {"set", "write", "commit"}
           \/ /\ bundleRequest[t] # Bundling!Idle /\ bundleRequest[t].stage = "set"
              /\ q # Bundling!Idle /\ q.stage \in {"set", "commit"}
    PROVE  BundlingInv'
<1> USE NoTxAssumption DEF BundlingInv, Bundling!AtVariants, Bundling!AtCombos
<1>1. RowsTypeOK' /\ RequestsTypeOK'
  BY DEF RowsTypeOK, RequestsTypeOK
<1>2. ReplacesItems'
  BY DEF ReplacesItems, RequestsTypeOK
<1>3. BundlersHold'
  BY DEF BundlersHold, RequestsTypeOK
<1> QED BY <1>1, <1>2, <1>3 DEF Bundling!DraftsAreHeld

\* What a request that begins knows of the rows.
AsRead(q) ==
    /\ q.stage \in {"check", "delete"}
    /\ q \in EditedCombo => q.wasLive = bundle[q.combo].live
    /\ q \in RestatedVariants => \A v \in q.variants : part[v] /\ ~q.on => v \in q.retired

LEMMA AskKeepsRows ==
    ASSUME BodiesAssumption, BundlingInv, NEW t \in Tx, Bundling!Ask(t)
    PROVE  /\ BundlingInv'
           /\ \E q \in BundleRequest : Bundling!Starts(t, q) /\ bundleRequest'[t] = q /\ AsRead(q)
           /\ UNCHANGED <<Bundling!AtVariants, Bundling!AtCombos>>
<1>1. PICK q \in BundleRequest : Bundling!Begin(t, q) /\ AsRead(q)
  <2>1. ASSUME NEW c \in Combo, NEW variants \in Lists, NEW live \in BOOLEAN,
               Bundling!BeginCreate(t, c, variants, live)
        PROVE  \E q \in BundleRequest : Bundling!Begin(t, q) /\ AsRead(q)
    <3>1. Bundling!Publishing("create", c, variants, live, FALSE) \in CreatedCombo
      BY DEF Bundling!Publishing, CreatedCombo
    <3>2. AsRead(Bundling!Publishing("create", c, variants, live, FALSE))
      BY DEF Bundling!Publishing, AsRead, EditedCombo, RestatedVariants
    <3> QED BY <2>1, <3>1, <3>2 DEF Bundling!BeginCreate, BundleRequest
  <2>2. ASSUME NEW c \in Combo, NEW variants \in Lists \cup {Keep},
               NEW live \in BOOLEAN \cup {Keep}, Bundling!BeginEdit(t, c, variants, live)
        PROVE  \E q \in BundleRequest : Bundling!Begin(t, q) /\ AsRead(q)
    <3>1. bundle[c].live \in BOOLEAN
      BY DEF BundlingInv, RowsTypeOK, Row
    <3>2. Bundling!Publishing("edit", c, variants, live, bundle[c].live) \in EditedCombo
      BY <3>1 DEF Bundling!Publishing, EditedCombo
    <3>3. AsRead(Bundling!Publishing("edit", c, variants, live, bundle[c].live))
      BY DEF Bundling!Publishing, AsRead, RestatedVariants
    <3> QED BY <2>2, <3>2, <3>3 DEF Bundling!BeginEdit, BundleRequest
  <2>3. ASSUME NEW c \in Combo, Bundling!BeginDelete(t, c)
        PROVE  \E q \in BundleRequest : Bundling!Begin(t, q) /\ AsRead(q)
    <3> DEFINE q == [op |-> "delete", stage |-> "delete", combo |-> c]
    <3>1. q \in DeletedCombo /\ AsRead(q)
      BY DEF DeletedCombo, AsRead, EditedCombo, RestatedVariants
    <3>2. Bundling!Begin(t, q)
      BY <2>3 DEF Bundling!BeginDelete
    <3> HIDE DEF q
    <3> QED BY <3>1, <3>2 DEF BundleRequest
  <2>4. ASSUME NEW variants \in Lists, NEW on \in BOOLEAN, Bundling!BeginStatuses(t, variants, on)
        PROVE  \E q \in BundleRequest : Bundling!Begin(t, q) /\ AsRead(q)
    <3> DEFINE q == [op |-> "statuses", stage |-> "check", variants |-> variants, on |-> on,
                     retired |-> IF on THEN {} ELSE {v \in variants : part[v]}, touched |-> {}]
    <3>1. q \in RestatedVariants /\ AsRead(q)
      BY DEF RestatedVariants, BodiesAssumption, AsRead, EditedCombo
    <3>2. Bundling!Begin(t, q)
      BY <2>4 DEF Bundling!BeginStatuses
    <3> HIDE DEF q
    <3> QED BY <3>1, <3>2 DEF BundleRequest
  <2> QED BY <2>1, <2>2, <2>3, <2>4 DEF Bundling!Ask
<1>2. /\ bundleRequest[t] = Bundling!Idle /\ bundleRequest' = [bundleRequest EXCEPT ![t] = q]
      /\ Bundling!Starts(t, q)
      /\ UNCHANGED <<Bundling!AtVariants, Bundling!AtCombos>>
  BY <1>1 DEF Bundling!Begin, Bundling!Starts, Bundling!Go
<1>3. BundlingInv'
  BY <1>1, <1>2, NoRowChanges DEF AsRead
<1>4. bundleRequest'[t] = q
  BY <1>2 DEF BundlingInv, RequestsTypeOK
<1> QED BY <1>1, <1>2, <1>3, <1>4

-----------------------------------------------------------------------------
\* The record of a request at its next statement (Continues).
LEMMA NextStatement ==
    ASSUME BodiesAssumption, BundlingInv, NEW t \in Tx, bundleRequest[t] # Bundling!Idle
    PROVE  /\ bundleRequest[t] \in BundleRequest
           /\ bundleRequest[t].op = "create" => bundleRequest[t] \in CreatedCombo
           /\ bundleRequest[t].op = "edit" => bundleRequest[t] \in EditedCombo
           /\ bundleRequest[t].op = "delete" => bundleRequest[t] \in DeletedCombo
           /\ bundleRequest[t].op = "statuses" => bundleRequest[t] \in RestatedVariants
           /\ bundleRequest[t].op \in {"create", "edit", "delete", "statuses"}
           /\ bundleRequest[t].stage \in {"clear", "replace", "write"} =>
                  bundleRequest[t] \in EditedCombo
           /\ bundleRequest[t].stage = "set" => bundleRequest[t] \in RestatedVariants
           /\ bundleRequest[t].stage = "insert" => bundleRequest[t] \in CreatedCombo
           /\ bundleRequest[t].stage = "delete" => bundleRequest[t] \in DeletedCombo
           /\ bundleRequest[t].stage = "commit" =>
                  bundleRequest[t] \in EditedCombo \cup RestatedVariants
<1>1. bundleRequest[t] \in BundleRequest
  BY DEF BundlingInv, RequestsTypeOK
<1> QED BY <1>1 DEF BundleRequest, CreatedCombo, EditedCombo, DeletedCombo, RestatedVariants

\* checkCombo and checkVariants: the request goes on, or is refused.
LEMMA DecisionKeepsRows ==
    ASSUME BodiesAssumption, BundlingInv, NEW t \in Tx,
           Bundling!CheckCombo(t) \/ Bundling!CheckVariants(t)
    PROVE  BundlingInv'
<1> DEFINE r == bundleRequest[t]
<1>1. r # Bundling!Idle /\ r.stage = "check" /\ UNCHANGED <<Bundling!AtVariants, Bundling!AtCombos>>
  BY DEF Bundling!CheckCombo, Bundling!CheckVariants, Bundling!Decide, Bundling!Idle
<1>2. CASE bundleRequest' = [bundleRequest EXCEPT ![t] = Bundling!Idle]
  BY <1>1, <1>2, NoRowChanges DEF EditedCombo, Bundling!Idle
<1>3. CASE Bundling!CheckCombo(t) /\ bundleRequest' # [bundleRequest EXCEPT ![t] = Bundling!Idle]
  <2> DEFINE s == IF r.op = "create" THEN "insert"
             ELSE IF r.variants = Keep THEN "write" ELSE "clear"
             q == [r EXCEPT !.stage = s]
  <2>1. bundleRequest' = [bundleRequest EXCEPT ![t] = q] /\ r.op \in {"create", "edit"}
    BY <1>3 DEF Bundling!CheckCombo, Bundling!Decide, Bundling!Continues, Bundling!Ends, Bundling!Go
  <2>2. r \in CreatedCombo \/ r \in EditedCombo
    BY <1>1, <2>1, NextStatement
  <2>3. q \in BundleRequest /\ q.stage = s /\ q.variants = r.variants
    BY <2>2 DEF BundleRequest, CreatedCombo, EditedCombo
  <2>4. q \in EditedCombo /\ q.stage \in {"clear", "replace"} => q.variants # Keep
    BY <2>3
  <2> HIDE DEF q
  <2> QED BY <1>1, <2>1, <2>3, <2>4, NoRowChanges
<1>4. CASE Bundling!CheckVariants(t) /\ bundleRequest' # [bundleRequest EXCEPT ![t] = Bundling!Idle]
  <2> DEFINE q == [r EXCEPT !.stage = "set"]
  <2>1. bundleRequest' = [bundleRequest EXCEPT ![t] = q] /\ r.op = "statuses"
    BY <1>4 DEF Bundling!CheckVariants, Bundling!Decide, Bundling!Continues, Bundling!Ends,
       Bundling!Go
  <2>2. r \in RestatedVariants
    BY <1>1, <2>1, NextStatement
  <2>3. q \in RestatedVariants /\ q.stage = "set"
    BY <2>2 DEF RestatedVariants
  <2> HIDE DEF q
  <2> QED BY <1>1, <2>1, <2>3, NoRowChanges DEF BundleRequest, EditedCombo
<1> QED BY <1>2, <1>3, <1>4

\* The statements of an edit: the items and the UPDATE of the combo.
LEMMA WrittenComboKeepsRows ==
    ASSUME BundlingInv, NEW t \in Tx, bundleRequest[t] # Bundling!Idle,
           bundleRequest[t].stage \in {"replace", "write"},
           NEW q \in EditedCombo, q.stage \in {"write", "commit"},
           bundleRequest' = [bundleRequest EXCEPT ![t] = q],
           NEW c \in Combo, NEW row \in Row, Bundling!WriteCombo(t, c, row)
    PROVE  BundlingInv'
<1> USE NoTxAssumption DEF BundlingInv
<1>1. /\ bundleDraft' = [bundleDraft EXCEPT ![c] = row]
      /\ bundleHolder' = [bundleHolder EXCEPT ![c] = t]
      /\ UNCHANGED <<part, partDraft, partHolder, bundle>>
  BY DEF Bundling!WriteCombo, Bundling!Lock, Bundling!AtVariants
<1>2. /\ bundleRequest'[t] = q /\ q # Bundling!Idle
      /\ \A u \in Tx \ {t} : bundleRequest'[u] = bundleRequest[u]
  BY BundleRequestServes DEF RequestsTypeOK, BundleRequest
<1>3. RowsTypeOK' /\ RequestsTypeOK'
  BY <1>1 DEF RowsTypeOK, RequestsTypeOK, BundleRequest
<1>4. ReplacesItems'
  BY <1>2 DEF ReplacesItems
<1>5. BundlersHold'
  <2>1. \A v \in Variant : partHolder[v] # t
    BY DEF BundlersHold
  <2> QED BY <1>1, <1>2, <2>1 DEF BundlersHold, RowsTypeOK
<1>6. Bundling!DraftsAreHeld(part, partDraft, partHolder)'
  BY <1>1 DEF Bundling!DraftsAreHeld
<1>7. Bundling!DraftsAreHeld(bundle, bundleDraft, bundleHolder)'
  BY <1>1 DEF Bundling!DraftsAreHeld, RowsTypeOK
<1> QED BY <1>3, <1>4, <1>5, <1>6, <1>7

LEMMA EditKeepsRows ==
    ASSUME BodiesAssumption, BundlingInv, NEW t \in Tx,
           Bundling!ClearItems(t) \/ Bundling!ReplaceItems(t) \/ Bundling!WriteStatus(t)
    PROVE  BundlingInv'
<1> DEFINE r == bundleRequest[t]
           c == r.combo
<1>1. r \in EditedCombo /\ r # Bundling!Idle /\ r.stage \in {"clear", "replace", "write"}
  <2>1. r # Bundling!Idle /\ r.stage \in {"clear", "replace", "write"}
    BY DEF Bundling!ClearItems, Bundling!ReplaceItems, Bundling!WriteStatus, Bundling!Idle
  <2> QED BY <2>1, NextStatement
<1>2. c \in Combo /\ bundleDraft[c] \in Row
  BY <1>1 DEF EditedCombo, BundlingInv, RowsTypeOK
<1>3. CASE Bundling!ClearItems(t)
  <2> DEFINE seen == Bundling!Bundles(t)[c].items
             q    == [r EXCEPT !.stage = "replace", !.seen = seen]
  <2>1. /\ r.stage = "clear" /\ bundleRequest' = [bundleRequest EXCEPT ![t] = q]
        /\ UNCHANGED <<Bundling!AtVariants, Bundling!AtCombos>>
    BY <1>3 DEF Bundling!ClearItems, Bundling!Continues, Bundling!Go
  <2>2. Bundling!Bundles(t)[c] \in {bundle[c], bundleDraft[c]} /\ bundle[c] \in Row
    BY <1>2 DEF Bundling!Bundles, Bundling!View, BundlingInv, RowsTypeOK
  <2>3. seen \in SUBSET Item
    BY <1>2, <2>2 DEF Row
  <2>4. r.variants # Keep
    BY <1>1, <2>1 DEF BundlingInv, ReplacesItems
  <2> HIDE DEF seen
  <2>5. q \in EditedCombo /\ q.stage = "replace" /\ q.variants = r.variants
    BY <1>1, <2>3 DEF EditedCombo
  <2> HIDE DEF q
  <2> QED BY <1>1, <2>1, <2>4, <2>5, NoRowChanges DEF BundleRequest
<1>4. CASE Bundling!ReplaceItems(t)
  <2> DEFINE old  == bundleDraft[c]
             list == old.lists + 1
             row  == [old EXCEPT !.lists = list,
                                 !.items = (old.items \ r.seen) \cup Bundling!Items(r.variants, list)]
             q    == [r EXCEPT !.stage = "write", !.seen = {}]
  <2>1. /\ r.stage = "replace" /\ bundleRequest' = [bundleRequest EXCEPT ![t] = q]
        /\ Bundling!WriteCombo(t, c, row)
    BY <1>4 DEF Bundling!ReplaceItems, Bundling!Continues, Bundling!Go
  <2>2. r.variants \in SUBSET Variant
    BY <1>1, <2>1 DEF BodiesAssumption, BundlingInv, ReplacesItems, EditedCombo
  <2>3. list \in Nat /\ old.items \subseteq Item
    BY <1>2 DEF Row
  <2>4. Bundling!Items(r.variants, list) \subseteq Item
    BY <2>2, <2>3, ItemsBring
  <2>5. row \in Row
    BY <1>2, <2>3, <2>4 DEF Row
  <2>6. q \in EditedCombo /\ q.stage = "write"
    BY <1>1 DEF EditedCombo
  <2> HIDE DEF row, q
  <2> QED BY <1>1, <1>2, <2>1, <2>5, <2>6, WrittenComboKeepsRows
<1>5. CASE Bundling!WriteStatus(t)
  <2> DEFINE row == IF r.live = Keep THEN bundleDraft[c]
                  ELSE [bundleDraft[c] EXCEPT !.live = r.live]
             q   == [r EXCEPT !.stage = "commit"]
  <2>1. /\ r.stage = "write" /\ bundleRequest' = [bundleRequest EXCEPT ![t] = q]
        /\ Bundling!WriteCombo(t, c, row)
    BY <1>5 DEF Bundling!WriteStatus, Bundling!Continues, Bundling!Go
  <2>2. row \in Row
    BY <1>1, <1>2 DEF Row, EditedCombo
  <2>3. q \in EditedCombo /\ q.stage = "commit"
    BY <1>1 DEF EditedCombo
  <2> HIDE DEF row, q
  <2> QED BY <1>1, <1>2, <2>1, <2>2, <2>3, WrittenComboKeepsRows
<1> QED BY <1>3, <1>4, <1>5

\* The statements of a change of statuses: the variants, and the combos their
\* trigger goes to.
LEMMA StatusesKeepRows ==
    ASSUME BodiesAssumption, BundlingInv, NEW t \in Tx,
           Bundling!SetStatus(t) \/ Bundling!TouchCombo(t) \/ Bundling!StatusesSet(t)
    PROVE  BundlingInv'
<1> USE NoTxAssumption
<1> DEFINE r == bundleRequest[t]
<1>1. r \in RestatedVariants /\ r # Bundling!Idle /\ r.stage = "set"
  <2>1. r.stage = "set"
    BY DEF Bundling!SetStatus, Bundling!TouchCombo, Bundling!StatusesSet
  <2>2. r # Bundling!Idle
    BY <2>1 DEF Bundling!Idle
  <2> QED BY <2>1, <2>2, NextStatement
<1>2. ASSUME NEW q \in RestatedVariants, q.stage \in {"set", "commit"},
             bundleRequest' = [bundleRequest EXCEPT ![t] = q]
      PROVE  /\ RequestsTypeOK' /\ ReplacesItems'
             /\ bundleRequest'[t] = q /\ q # Bundling!Idle
             /\ \A u \in Tx \ {t} : bundleRequest'[u] = bundleRequest[u]
  <2>1. /\ bundleRequest'[t] = q /\ q # Bundling!Idle
        /\ \A u \in Tx \ {t} : bundleRequest'[u] = bundleRequest[u]
    BY <1>2, BundleRequestServes DEF BundlingInv, RequestsTypeOK, BundleRequest
  <2>2. q \notin EditedCombo
    BY DEF RestatedVariants, EditedCombo
  <2>3. RequestsTypeOK'
    BY <1>2 DEF BundlingInv, RequestsTypeOK, BundleRequest
  <2>4. ReplacesItems'
    BY <2>1, <2>2 DEF BundlingInv, ReplacesItems
  <2> QED BY <2>1, <2>3, <2>4
<1>3. CASE Bundling!SetStatus(t)
  <2>1. PICK v \in r.variants :
           /\ Bundling!Free(partHolder, t, v)
           /\ partDraft' = [partDraft EXCEPT ![v] = r.on]
           /\ partHolder' = [partHolder EXCEPT ![v] = t]
           /\ bundleRequest' = [bundleRequest EXCEPT ![t] = [r EXCEPT !.variants = @ \ {v},
                 !.touched = {c \in Combo : v \in Bundling!Parts(Bundling!Bundles(t)[c])}]]
           /\ UNCHANGED <<part, bundle, bundleDraft, bundleHolder>>
    BY <1>3 DEF Bundling!SetStatus, Bundling!Continues, Bundling!Go, Bundling!Lock,
       Bundling!AtCombos
  <2> DEFINE touched == {c \in Combo : v \in Bundling!Parts(Bundling!Bundles(t)[c])}
             q == [r EXCEPT !.variants = @ \ {v}, !.touched = touched]
  <2>2. touched \in SUBSET Combo /\ bundleRequest' = [bundleRequest EXCEPT ![t] = q]
    BY <2>1
  <2> HIDE DEF touched
  <2>3. q \in RestatedVariants /\ q.stage = "set" /\ v \in Variant /\ r.on \in BOOLEAN
    BY <1>1, <2>2 DEF RestatedVariants
  <2> HIDE DEF q
  <2>4. /\ RequestsTypeOK' /\ ReplacesItems'
        /\ bundleRequest'[t] = q /\ q # Bundling!Idle
        /\ \A u \in Tx \ {t} : bundleRequest'[u] = bundleRequest[u]
    BY <1>2, <2>2, <2>3
  <2>5. RowsTypeOK'
    BY <2>1, <2>3 DEF BundlingInv, RowsTypeOK
  <2>6. BundlersHold'
    BY <1>1, <2>1, <2>3, <2>4 DEF BundlingInv, RowsTypeOK, BundlersHold
  <2>7. Bundling!DraftsAreHeld(part, partDraft, partHolder)'
    BY <2>1, <2>3 DEF Bundling!DraftsAreHeld, BundlingInv, RowsTypeOK
  <2>8. Bundling!DraftsAreHeld(bundle, bundleDraft, bundleHolder)'
    BY <2>1 DEF Bundling!DraftsAreHeld, BundlingInv
  <2> QED BY <2>4, <2>5, <2>6, <2>7, <2>8 DEF BundlingInv
<1>4. CASE Bundling!TouchCombo(t)
  <2>1. PICK c \in r.touched :
           /\ bundleHolder' = IF bundleDraft[c].life = "there" THEN [bundleHolder EXCEPT ![c] = t]
                              ELSE bundleHolder
           /\ bundleRequest' = [bundleRequest EXCEPT ![t] = [r EXCEPT !.touched = @ \ {c}]]
           /\ UNCHANGED <<part, partDraft, partHolder, bundle, bundleDraft>>
           /\ Bundling!Free(bundleHolder, t, c)
    BY <1>4 DEF Bundling!TouchCombo, Bundling!Continues, Bundling!Go, Bundling!Lock,
       Bundling!AtVariants
  <2> DEFINE q == [r EXCEPT !.touched = @ \ {c}]
  <2>2. q \in RestatedVariants /\ q.stage = "set" /\ c \in Combo
    BY <1>1 DEF RestatedVariants
  <2>3. bundleRequest' = [bundleRequest EXCEPT ![t] = q]
    BY <2>1
  <2> HIDE DEF q
  <2>4. /\ RequestsTypeOK' /\ ReplacesItems'
        /\ bundleRequest'[t] = q /\ q # Bundling!Idle
        /\ \A u \in Tx \ {t} : bundleRequest'[u] = bundleRequest[u]
    BY <1>2, <2>2, <2>3
  <2>5. RowsTypeOK'
    BY <2>1, <2>2 DEF BundlingInv, RowsTypeOK
  <2>6. BundlersHold'
    BY <1>1, <2>1, <2>2, <2>4 DEF BundlingInv, RowsTypeOK, BundlersHold
  <2>7. Bundling!DraftsAreHeld(bundle, bundleDraft, bundleHolder)'
    BY <2>1, <2>2 DEF Bundling!DraftsAreHeld, BundlingInv, RowsTypeOK
  <2>8. Bundling!DraftsAreHeld(part, partDraft, partHolder)'
    BY <2>1 DEF Bundling!DraftsAreHeld, BundlingInv
  <2> QED BY <2>4, <2>5, <2>6, <2>7, <2>8 DEF BundlingInv
<1>5. CASE Bundling!StatusesSet(t)
  <2> DEFINE q == [r EXCEPT !.stage = "commit"]
  <2>1. q \in RestatedVariants /\ q.stage = "commit"
    BY <1>1 DEF RestatedVariants
  <2>2. /\ bundleRequest' = [bundleRequest EXCEPT ![t] = q]
        /\ UNCHANGED <<Bundling!AtVariants, Bundling!AtCombos>>
    BY <1>5 DEF Bundling!StatusesSet, Bundling!Continues, Bundling!Go
  <2> HIDE DEF q
  <2>3. q # Bundling!Idle /\ q \in BundleRequest /\ q \notin EditedCombo
    BY <2>1, BundleRequestServes DEF BundleRequest, RestatedVariants, EditedCombo
  <2> QED BY <1>1, <2>1, <2>2, <2>3, NoRowChanges
<1> QED BY <1>3, <1>4, <1>5

\* The statements that are a transaction of their own: the nested create and
\* hardDeleteComboProduct.
LEMMA OneStatementKeepsRows ==
    ASSUME BodiesAssumption, BundlingInv, NEW t \in Tx,
           Bundling!Insert(t) \/ Bundling!DeleteCombo(t)
    PROVE  BundlingInv'
<1> USE NoTxAssumption DEF BundlingInv
<1> DEFINE r == bundleRequest[t]
<1>1. /\ r # Bundling!Idle /\ r.stage \in {"insert", "delete"}
      /\ r \in CreatedCombo \cup DeletedCombo
      /\ bundleRequest' = [bundleRequest EXCEPT ![t] = Bundling!Idle]
  <2>1. r # Bundling!Idle /\ r.stage \in {"insert", "delete"}
    BY DEF Bundling!Insert, Bundling!DeleteCombo, Bundling!Idle
  <2>2. bundleRequest' = [bundleRequest EXCEPT ![t] = Bundling!Idle]
    BY DEF Bundling!Insert, Bundling!DeleteCombo, Bundling!Ends, Bundling!Go
  <2> QED BY <2>1, <2>2, NextStatement
<1>2. PICK row \in Row :
         /\ bundle' = [bundle EXCEPT ![r.combo] = row]
         /\ bundleDraft' = [bundleDraft EXCEPT ![r.combo] = row]
         /\ UNCHANGED <<bundleHolder, part, partDraft, partHolder>>
  <2>1. CASE Bundling!Insert(t)
    <3>1. r \in CreatedCombo
      <4>1. r.stage = "insert"
        BY <2>1 DEF Bundling!Insert
      <4> QED BY <1>1, <4>1 DEF DeletedCombo
    <3>2. [Bundling!Draft(r.variants) EXCEPT !.live = r.live] \in Row
      <4>1. r.variants \in SUBSET Variant /\ r.live \in BOOLEAN
        BY <3>1 DEF CreatedCombo, BodiesAssumption
      <4>2. Bundling!Draft(r.variants) \in Row
        BY <4>1, DraftRow
      <4> QED BY <4>1, <4>2 DEF Row
    <3> QED BY <2>1, <3>2 DEF Bundling!Insert, Bundling!AtVariants
  <2>2. CASE Bundling!DeleteCombo(t)
    <3>1. Bundling!Gone \in Row
      BY DEF Bundling!Gone, Bundling!Blank, Row
    <3> QED BY <2>2, <3>1 DEF Bundling!DeleteCombo, Bundling!AtVariants
  <2> QED BY <2>1, <2>2
<1>3. r.combo \in Combo
  BY <1>1 DEF CreatedCombo, DeletedCombo
<1>4. bundleRequest'[t] = Bundling!Idle /\ \A u \in Tx \ {t} : bundleRequest'[u] = bundleRequest[u]
  BY <1>1 DEF RequestsTypeOK
<1>5. RowsTypeOK' /\ RequestsTypeOK'
  BY <1>1, <1>2, <1>3 DEF RowsTypeOK, RequestsTypeOK
<1>6. ReplacesItems'
  <2>1. Bundling!Idle \notin EditedCombo
    BY BundleRequestServes DEF BundleRequest
  <2> QED BY <1>4, <2>1 DEF ReplacesItems
<1>7. BundlersHold'
  BY <1>1, <1>2, <1>4 DEF BundlersHold
<1>8. Bundling!DraftsAreHeld(bundle, bundleDraft, bundleHolder)'
  BY <1>2, <1>3 DEF Bundling!DraftsAreHeld, RowsTypeOK
<1>9. Bundling!DraftsAreHeld(part, partDraft, partHolder)'
  BY <1>2 DEF Bundling!DraftsAreHeld
<1> QED BY <1>5, <1>6, <1>7, <1>8, <1>9

\* A transaction commits what it wrote, or forgets it.
LEMMA EndKeepsRows ==
    ASSUME BundlingInv, NEW t \in Tx, Bundling!Commit(t) \/ Bundling!Abort(t)
    PROVE  BundlingInv'
<1> USE NoTxAssumption DEF BundlingInv
<1>1. /\ bundleRequest' = [bundleRequest EXCEPT ![t] = Bundling!Idle]
      /\ partHolder' = Bundling!Unlock(partHolder, t)
      /\ bundleHolder' = Bundling!Unlock(bundleHolder, t)
  BY DEF Bundling!Commit, Bundling!Abort, Bundling!Ends, Bundling!Go
<1>2. bundleRequest'[t] = Bundling!Idle /\ \A u \in Tx \ {t} : bundleRequest'[u] = bundleRequest[u]
  BY <1>1 DEF RequestsTypeOK
<1>3. RequestsTypeOK'
  BY <1>1 DEF RequestsTypeOK
<1>4. RowsTypeOK'
  <2>1. partHolder' \in [Variant -> Tx \cup {NoTx}] /\ bundleHolder' \in [Combo -> Tx \cup {NoTx}]
    BY <1>1 DEF Bundling!Unlock, RowsTypeOK
  <2>2. CASE Bundling!Commit(t)
    BY <2>1, <2>2 DEF Bundling!Commit, Bundling!Variants, Bundling!Bundles, Bundling!View,
       RowsTypeOK
  <2>3. CASE Bundling!Abort(t)
    BY <2>1, <2>3 DEF Bundling!Abort, Bundling!Discard, RowsTypeOK
  <2> QED BY <2>2, <2>3
<1>5. ReplacesItems'
  <2>1. Bundling!Idle \notin EditedCombo
    BY BundleRequestServes DEF BundleRequest
  <2> QED BY <1>2, <2>1 DEF ReplacesItems
<1>6. BundlersHold'
  BY <1>1, <1>2 DEF BundlersHold, Bundling!Unlock, RowsTypeOK
<1>7. /\ Bundling!DraftsAreHeld(part, partDraft, partHolder)'
      /\ Bundling!DraftsAreHeld(bundle, bundleDraft, bundleHolder)'
  <2>1. CASE Bundling!Commit(t)
    BY <1>1, <2>1 DEF Bundling!Commit, Bundling!Variants, Bundling!Bundles, Bundling!View,
       Bundling!Unlock, Bundling!DraftsAreHeld, RowsTypeOK
  <2>2. CASE Bundling!Abort(t)
    BY <1>1, <2>2 DEF Bundling!Abort, Bundling!Discard, Bundling!Unlock, Bundling!DraftsAreHeld,
       RowsTypeOK
  <2> QED BY <2>1, <2>2
<1> QED BY <1>3, <1>4, <1>5, <1>6, <1>7

LEMMA RowsStep ==
    ASSUME BodiesAssumption, BundlingInv, [Bundling!BundlingNext]_(Bundling!bundlingVars)
    PROVE  BundlingInv'
<1>1. CASE UNCHANGED Bundling!bundlingVars
  BY <1>1 DEF Bundling!bundlingVars, Bundling!AtVariants, Bundling!AtCombos, BundlingInv,
     RowsTypeOK, RequestsTypeOK,
     ReplacesItems, BundlersHold, Bundling!DraftsAreHeld
<1>2. ASSUME NEW t \in Tx, Bundling!Ask(t) PROVE BundlingInv'
  BY <1>2, AskKeepsRows
<1>3. ASSUME NEW t \in Tx, Bundling!Serve(t) PROVE BundlingInv'
  BY <1>3, DecisionKeepsRows, EditKeepsRows, StatusesKeepRows, OneStatementKeepsRows,
     EndKeepsRows DEF Bundling!Serve
<1> QED BY <1>1, <1>2, <1>3 DEF Bundling!BundlingNext

-----------------------------------------------------------------------------
(* A request nobody overlaps.  What its checks saw stands until it commits, *)
(* and the only rows that move are its own.                                 *)

\* An edit: the items are those it sent, or those that were there, and the combo
\* is on the page only if it was or the request puts it there.
LoneEdit(t) ==
    LET r   == bundleRequest[t]
        row == bundleDraft[r.combo]
        was == bundle[r.combo]
    IN
    /\ partDraft = part
    /\ \A c \in Combo \ {r.combo} : bundleDraft[c] = bundle[c]
    /\ r.wasLive = was.live
    /\ r.stage # "check" => Bundling!PassesChecks(r)
    /\ r.stage = "replace" => r.seen = was.items
    /\ r.stage \in {"write", "commit"} =>
          Bundling!Parts(row) = IF r.variants = Keep THEN Bundling!Parts(was) ELSE r.variants
    /\ r.stage = "write" => row.live = was.live
    /\ r.stage = "commit" /\ row.live => r.live = TRUE \/ was.live

\* A change of statuses: the variants it retires are in no live combo.
LoneStatuses(t) ==
    LET r == bundleRequest[t] IN
    /\ bundleDraft = bundle
    /\ \A v \in r.variants : part[v] /\ ~r.on => v \in r.retired
    /\ \A v \in Variant : part[v] /\ ~partDraft[v] => ~r.on /\ v \in r.retired
    /\ r.stage # "check" => \A v \in r.retired : Bundling!LiveWith(v) = {}

LoneServes(t) ==
    /\ bundleRequest[t] \in CreatedCombo /\ bundleRequest[t].stage = "insert" =>
                  Bundling!PassesChecks(bundleRequest[t])
    /\ bundleRequest[t] \in EditedCombo => LoneEdit(t)
    /\ bundleRequest[t] \in RestatedVariants => LoneStatuses(t)

LoneBundling == \A t \in Tx : bundleAlone[t] => LoneServes(t)

BundleHistories == Histories(bundleRequest, bundleAlone)
LoneInBundling  == LoneIsLone(bundleRequest, bundleAlone)

LoneBundlingInv == BundlingInv /\ BundleHistories /\ LoneInBundling /\ LoneBundling

\* A lone request sees the newest rows, and before it writes these are the
\* committed ones.
LEMMA LoneBundlerSeesNewest ==
    ASSUME BundlingInv, LoneInBundling, NEW t \in Tx, bundleAlone[t]
    PROVE  /\ bundleRequest[t] \in BundleRequest /\ bundleRequest[t] # Bundling!Idle
           /\ Bundling!Bundles(t) = bundleDraft /\ Bundling!Variants(t) = partDraft
           /\ bundleRequest[t].stage \notin {"set", "commit"} => partDraft = part
           /\ bundleRequest[t].stage \notin {"set", "write", "commit"} => bundleDraft = bundle
<1> USE DEF BundlingInv, RowsTypeOK, RequestsTypeOK
<1>1. /\ \A v \in Variant : partHolder[v] \in {NoTx, t}
      /\ \A c \in Combo : bundleHolder[c] \in {NoTx, t}
  BY DEF LoneInBundling, LoneIsLone, Bundling!Idle, Idle, BundlersHold
<1>2. \A v \in Variant : Bundling!Variants(t)[v] = partDraft[v]
  BY <1>1 DEF Bundling!Variants, Bundling!View, Bundling!DraftsAreHeld
<1>3. \A c \in Combo : Bundling!Bundles(t)[c] = bundleDraft[c]
  BY <1>1 DEF Bundling!Bundles, Bundling!View, Bundling!DraftsAreHeld
<1>4. Bundling!Bundles(t) = bundleDraft /\ Bundling!Variants(t) = partDraft
  BY <1>2, <1>3 DEF Bundling!Bundles, Bundling!Variants, Bundling!View
<1>5. ASSUME bundleRequest[t].stage \notin {"set", "commit"} PROVE partDraft = part
  <2>1. \A v \in Variant : partHolder[v] = NoTx
    BY <1>1, <1>5 DEF BundlersHold
  <2>2. \A v \in Variant : partDraft[v] = part[v]
    BY <2>1 DEF Bundling!DraftsAreHeld
  <2> QED BY <2>2
<1>6. ASSUME bundleRequest[t].stage \notin {"set", "write", "commit"} PROVE bundleDraft = bundle
  <2>1. \A c \in Combo : bundleHolder[c] = NoTx
    BY <1>1, <1>6 DEF BundlersHold
  <2>2. \A c \in Combo : bundleDraft[c] = bundle[c]
    BY <2>1 DEF Bundling!DraftsAreHeld
  <2> QED BY <2>2
<1> QED BY <1>4, <1>5, <1>6 DEF LoneInBundling, LoneIsLone, Bundling!Idle, Idle

\* A request that begins alone finds no row in anybody's hands.
LEMMA LoneBegins ==
    ASSUME BodiesAssumption, LoneBundlingInv, NEW t \in Tx, Bundling!Ask(t)
    PROVE  LoneBundlingInv'
<1> USE DEF LoneBundlingInv
<1>1. /\ BundlingInv' /\ UNCHANGED <<Bundling!AtVariants, Bundling!AtCombos>>
  BY AskKeepsRows
<1>2. PICK q \in BundleRequest : Bundling!Starts(t, q) /\ bundleRequest'[t] = q /\ AsRead(q)
  BY AskKeepsRows
<1>3. BundleHistories' /\ LoneInBundling' /\ \A u \in Tx \ {t} : ~bundleAlone'[u]
  <2>1. /\ bundleAlone' \in [Tx -> BOOLEAN]
        /\ bundleAlone'[t] => \A u \in Tx : bundleRequest[u] = Bundling!Idle
        /\ \A u \in Tx \ {t} : bundleAlone'[u] => bundleAlone[u] /\ bundleRequest[u] = Bundling!Idle
    BY <1>2 DEF Bundling!Starts, Bundling!Active, BundleHistories, Histories
  <2>2. /\ Histories(bundleRequest, bundleAlone) /\ LoneIsLone(bundleRequest, bundleAlone)
        /\ q # Idle /\ bundleRequest' = [bundleRequest EXCEPT ![t] = q] /\ Bundling!Idle = Idle
    BY <1>2, BundleRequestServes
       DEF Bundling!Starts, Bundling!Go, Bundling!Idle, Idle, BundleHistories, LoneInBundling
  <2>3. /\ Histories(bundleRequest', bundleAlone') /\ LoneIsLone(bundleRequest', bundleAlone')
        /\ \A u \in Tx \ {t} : ~bundleAlone'[u]
    BY <2>1, <2>2 DEF Histories, LoneIsLone
  <2> QED BY <2>3 DEF BundleHistories, LoneInBundling, Histories, LoneIsLone
<1>4. ASSUME bundleAlone'[t] PROVE partDraft = part /\ bundleDraft = bundle
  <2>1. \A u \in Tx : bundleRequest[u] = Bundling!Idle
    BY <1>2, <1>4 DEF Bundling!Starts, Bundling!Active
  <2>2. /\ \A v \in Variant : partHolder[v] = NoTx
        /\ \A c \in Combo : bundleHolder[c] = NoTx
    BY <2>1 DEF BundlingInv, BundlersHold, RowsTypeOK
  <2>3. /\ \A v \in Variant : partDraft[v] = part[v]
        /\ \A c \in Combo : bundleDraft[c] = bundle[c]
    BY <2>2 DEF BundlingInv, Bundling!DraftsAreHeld, RowsTypeOK
  <2> QED BY <2>3 DEF BundlingInv, RowsTypeOK
<1>5. ASSUME bundleAlone'[t] PROVE LoneServes(t)'
  <2>1. partDraft' = part' /\ bundleDraft' = bundle'
    BY <1>1, <1>4, <1>5 DEF Bundling!AtVariants, Bundling!AtCombos
  <2>2. bundleRequest'[t] \in EditedCombo => LoneEdit(t)'
    BY <1>1, <1>2, <2>1 DEF AsRead, LoneEdit, Bundling!AtCombos, EditedCombo
  <2>3. bundleRequest'[t] \in RestatedVariants => LoneStatuses(t)'
    BY <1>1, <1>2, <2>1 DEF AsRead, LoneStatuses, Bundling!AtVariants, RestatedVariants
  <2> QED BY <1>2, <2>2, <2>3 DEF LoneServes, AsRead
<1> QED BY <1>1, <1>3, <1>5 DEF LoneBundling

\* The last step of a request leaves nobody alone.
LEMMA LoneEnds ==
    ASSUME LoneBundlingInv, BundlingInv', NEW t \in Tx, bundleRequest[t] # Bundling!Idle,
           Bundling!Ends(t)
    PROVE  LoneBundlingInv'
<1>1. BundleHistories' /\ LoneInBundling' /\ \A u \in Tx : ~bundleAlone'[u]
  BY EndsKeepsLone DEF Bundling!Ends, Bundling!Go, Bundling!Idle, Idle, BundleHistories,
     LoneInBundling, LoneBundlingInv
<1> QED BY <1>1 DEF LoneBundlingInv, LoneBundling

LEMMA LoneContinues ==
    ASSUME LoneBundlingInv, BundlingInv', NEW t \in Tx, bundleRequest[t] # Bundling!Idle,
           NEW q \in BundleRequest, Bundling!Continues(t, q), bundleAlone[t] => LoneServes(t)'
    PROVE  LoneBundlingInv'
<1>1. /\ BundleHistories' /\ LoneInBundling' /\ bundleAlone' = bundleAlone
      /\ \A u \in Tx \ {t} : ~bundleAlone'[u]
  BY BundleRequestServes, ContinuesKeepsLone
     DEF Bundling!Continues, Bundling!Go, Bundling!Idle, Idle, BundleHistories, LoneInBundling,
        LoneBundlingInv
<1> QED BY <1>1 DEF LoneBundlingInv, LoneBundling

\* The checks let a request go on only if they hold (PassesChecks,
\* assertVariantsNotInLiveCombo).
LEMMA LoneDecides ==
    ASSUME BodiesAssumption, LoneBundlingInv, BundlingInv', NEW t \in Tx,
           Bundling!CheckCombo(t) \/ Bundling!CheckVariants(t)
    PROVE  LoneBundlingInv'
<1> DEFINE r == bundleRequest[t]
<1>1. r.stage = "check" /\ r # Bundling!Idle /\ UNCHANGED <<Bundling!AtVariants, Bundling!AtCombos>>
  BY DEF Bundling!CheckCombo, Bundling!CheckVariants, Bundling!Decide, Bundling!Idle
<1>2. CASE Bundling!Ends(t)
  BY <1>1, <1>2, LoneEnds
<1>3. CASE Bundling!CheckCombo(t) /\ ~Bundling!Ends(t)
  <2>1. Bundling!PassesChecks(r) /\ r.op \in {"create", "edit"}
    BY <1>3 DEF Bundling!CheckCombo, Bundling!Decide
  <2>2. r \in CreatedCombo \/ r \in EditedCombo
    BY <1>1, <2>1, NextStatement DEF LoneBundlingInv
  <2>3. PICK q \in CreatedCombo \cup EditedCombo :
           /\ Bundling!Continues(t, q)
           /\ q.variants = r.variants /\ q.live = r.live
           /\ q.wasLive = r.wasLive /\ q.combo = r.combo
           /\ q \in EditedCombo => r \in EditedCombo
           /\ q.stage \notin {"replace", "commit"}
           /\ q.stage = "write" => q.variants = Keep
    <3> DEFINE s == IF r.op = "create" THEN "insert"
             ELSE IF r.variants = Keep THEN "write" ELSE "clear"
               q == [r EXCEPT !.stage = s]
    <3>1. Bundling!Continues(t, q)
      BY <1>3 DEF Bundling!CheckCombo, Bundling!Decide
    <3>2. q.stage = s /\ q.variants = r.variants /\ q.live = r.live
          /\ q.wasLive = r.wasLive /\ q.combo = r.combo
          /\ q \in CreatedCombo \cup EditedCombo /\ (q \in EditedCombo => r \in EditedCombo)
      BY <2>2 DEF CreatedCombo, EditedCombo
    <3>3. q.stage \notin {"replace", "commit"} /\ (q.stage = "write" => q.variants = Keep)
      BY <3>2
    <3> HIDE DEF q
    <3> QED BY <3>1, <3>2, <3>3
  <2>4. bundleRequest'[t] = q
    BY <1>1, <2>3 DEF Bundling!Continues, Bundling!Go, LoneBundlingInv, BundlingInv, RequestsTypeOK
  <2>5. Bundling!PassesChecks(q)'
    BY <1>1, <2>1, <2>3 DEF Bundling!PassesChecks, Bundling!OnSale, Bundling!AtVariants,
       Bundling!AtCombos
  <2>6. ASSUME bundleAlone[t] PROVE LoneServes(t)'
    <3>1. bundleDraft = bundle
      BY <1>1, <2>6, LoneBundlerSeesNewest DEF LoneBundlingInv
    <3>2. q \in EditedCombo => LoneEdit(t)
      BY <2>3, <2>6 DEF LoneBundlingInv, LoneBundling, LoneServes
    <3>3. q \in EditedCombo => LoneEdit(t)'
      BY <1>1, <2>3, <2>4, <2>5, <3>1, <3>2 DEF LoneEdit, Bundling!AtVariants, Bundling!AtCombos
    <3>4. q \notin RestatedVariants
      BY <2>3 DEF CreatedCombo, EditedCombo, RestatedVariants
    <3> QED BY <2>4, <2>5, <3>3, <3>4 DEF LoneServes
  <2> QED BY <1>1, <2>3, <2>6, LoneContinues DEF BundleRequest
<1>4. CASE Bundling!CheckVariants(t) /\ ~Bundling!Ends(t)
  <2> DEFINE q == [r EXCEPT !.stage = "set"]
  <2>1. /\ \A v \in r.retired : Bundling!LiveWith(v) = {}
        /\ Bundling!Continues(t, q) /\ r.op = "statuses"
    BY <1>4 DEF Bundling!CheckVariants, Bundling!Decide
  <2>2. r \in RestatedVariants
    BY <1>1, <2>1, NextStatement DEF LoneBundlingInv
  <2>3. /\ q \in RestatedVariants /\ q.stage = "set" /\ q.variants = r.variants
        /\ q.on = r.on /\ q.retired = r.retired
    BY <2>2 DEF RestatedVariants
  <2>4. bundleRequest'[t] = q
    BY <1>1, <2>1 DEF Bundling!Continues, Bundling!Go, LoneBundlingInv, BundlingInv, RequestsTypeOK
  <2> HIDE DEF q
  <2>5. q \in BundleRequest /\ q \notin CreatedCombo /\ q \notin EditedCombo
    BY <2>3 DEF BundleRequest, RestatedVariants, CreatedCombo, EditedCombo
  <2>6. \A v : Bundling!LiveWith(v)' = Bundling!LiveWith(v)
    BY <1>1 DEF Bundling!LiveWith, Bundling!AtCombos
  <2>7. ASSUME bundleAlone[t] PROVE LoneServes(t)'
    <3>1. LoneStatuses(t)
      BY <2>2, <2>7 DEF LoneBundlingInv, LoneBundling, LoneServes
    <3>2. LoneStatuses(t)'
      BY <1>1, <2>1, <2>3, <2>4, <2>6, <3>1 DEF LoneStatuses, Bundling!AtVariants, Bundling!AtCombos
    <3> QED BY <2>4, <2>5, <3>2 DEF LoneServes
  <2> QED BY <1>1, <2>1, <2>5, <2>7, LoneContinues
<1> QED BY <1>2, <1>3, <1>4

\* The items an edit sends are all the combo has, and it is live only by an edit
\* that put it there (replaceComboItems, update).
LEMMA LoneEdits ==
    ASSUME BodiesAssumption, LoneBundlingInv, BundlingInv', NEW t \in Tx,
           Bundling!ClearItems(t) \/ Bundling!ReplaceItems(t) \/ Bundling!WriteStatus(t)
    PROVE  LoneBundlingInv'
<1> DEFINE r == bundleRequest[t]
           c == r.combo
<1>1. r \in EditedCombo /\ r # Bundling!Idle /\ r.stage \in {"clear", "replace", "write"}
  <2>1. r.stage \in {"clear", "replace", "write"}
    BY DEF Bundling!ClearItems, Bundling!ReplaceItems, Bundling!WriteStatus
  <2>2. r # Bundling!Idle
    BY <2>1 DEF Bundling!Idle
  <2> QED BY <2>1, <2>2, NextStatement DEF LoneBundlingInv
<1>2. c \in Combo /\ bundle[c] \in Row /\ bundleDraft \in [Combo -> Row]
  BY <1>1 DEF EditedCombo, LoneBundlingInv, BundlingInv, RowsTypeOK
<1>3. PICK q \in EditedCombo :
         /\ Bundling!Continues(t, q) /\ q.stage \in {"replace", "write", "commit"}
         /\ q.combo = c /\ q.variants = r.variants /\ q.live = r.live /\ q.wasLive = r.wasLive
         /\ q.stage = "replace" => r.stage = "clear" /\ q.seen = Bundling!Bundles(t)[c].items
         /\ q.stage = "write" => r.stage = "replace"
         /\ q.stage = "commit" => r.stage = "write"
         /\ r.stage = "clear" =>
               q.stage = "replace" /\ UNCHANGED <<Bundling!AtVariants, Bundling!AtCombos>>
         /\ r.stage = "replace" => q.stage = "write" /\ Bundling!ReplaceItems(t)
         /\ r.stage = "write" => q.stage = "commit" /\ Bundling!WriteStatus(t)
  <2>1. CASE Bundling!ClearItems(t)
    <3> DEFINE q == [r EXCEPT !.stage = "replace", !.seen = Bundling!Bundles(t)[c].items]
    <3>1. /\ r.stage = "clear" /\ Bundling!Continues(t, q)
          /\ UNCHANGED <<Bundling!AtVariants, Bundling!AtCombos>>
      BY <2>1 DEF Bundling!ClearItems
    <3>2. q.combo = c /\ q.variants = r.variants /\ q.live = r.live /\ q.wasLive = r.wasLive
          /\ q.stage = "replace" /\ q.seen = Bundling!Bundles(t)[c].items
      BY <1>1 DEF EditedCombo
    <3>3. Bundling!Bundles(t)[c].items \in SUBSET Item
      BY <1>2 DEF Bundling!Bundles, Bundling!View, LoneBundlingInv, BundlingInv, RowsTypeOK, Row
    <3>4. q \in EditedCombo
      BY <1>1, <3>3 DEF EditedCombo
    <3> HIDE DEF q
    <3> QED BY <3>1, <3>2, <3>4
  <2>2. CASE Bundling!ReplaceItems(t)
    <3> DEFINE q == [r EXCEPT !.stage = "write", !.seen = {}]
    <3>1. r.stage = "replace" /\ Bundling!Continues(t, q)
      BY <2>2 DEF Bundling!ReplaceItems
    <3>2. q \in EditedCombo /\ q.combo = c /\ q.variants = r.variants /\ q.live = r.live
          /\ q.wasLive = r.wasLive /\ q.stage = "write"
      BY <1>1 DEF EditedCombo
    <3> HIDE DEF q
    <3> QED BY <2>2, <3>1, <3>2
  <2>3. CASE Bundling!WriteStatus(t)
    <3> DEFINE q == [r EXCEPT !.stage = "commit"]
    <3>1. r.stage = "write" /\ Bundling!Continues(t, q)
      BY <2>3 DEF Bundling!WriteStatus
    <3>2. q \in EditedCombo /\ q.combo = c /\ q.variants = r.variants /\ q.live = r.live
          /\ q.wasLive = r.wasLive /\ q.stage = "commit"
      BY <1>1 DEF EditedCombo
    <3> HIDE DEF q
    <3> QED BY <2>3, <3>1, <3>2
  <2> QED BY <2>1, <2>2, <2>3
<1>4. bundleRequest'[t] = q
  BY <1>1, <1>3 DEF Bundling!Continues, Bundling!Go, LoneBundlingInv, BundlingInv, RequestsTypeOK
<1>5. UNCHANGED <<part, partDraft, bundle>>
  BY DEF Bundling!ClearItems, Bundling!ReplaceItems, Bundling!WriteStatus, Bundling!WriteCombo,
     Bundling!AtVariants, Bundling!AtCombos
<1>6. ASSUME bundleAlone[t] PROVE LoneEdit(t)'
  <2>1. LoneEdit(t) /\ Bundling!Bundles(t) = bundleDraft
    BY <1>1, <1>6, LoneBundlerSeesNewest DEF LoneBundlingInv, LoneBundling, LoneServes
  <2>2. r.stage # "write" => bundleDraft = bundle
    BY <1>1, <1>6, LoneBundlerSeesNewest DEF LoneBundlingInv
  <2>3. Bundling!PassesChecks(q)'
    BY <1>1, <1>3, <1>5, <2>1 DEF LoneEdit, Bundling!PassesChecks, Bundling!OnSale
  <2>4. CASE r.stage = "clear"
    BY <1>3, <1>4, <1>5, <2>1, <2>2, <2>3, <2>4 DEF LoneEdit, Bundling!AtCombos
  <2>5. CASE r.stage = "replace"
    <3> DEFINE old  == bundleDraft[c]
               list == old.lists + 1
               row  == [old EXCEPT !.lists = list,
                                   !.items = (old.items \ r.seen) \cup Bundling!Items(r.variants, list)]
    <3>1. bundleDraft' = [bundleDraft EXCEPT ![c] = row]
      BY <1>3, <2>5 DEF Bundling!ReplaceItems, Bundling!WriteCombo
    <3>2. r.variants # Keep /\ r.variants \in SUBSET Variant /\ list \in Nat
      BY <1>1, <1>2, <2>5 DEF LoneBundlingInv, BundlingInv, ReplacesItems, EditedCombo,
         BodiesAssumption, Row
    <3>3. old.items \ r.seen = {}
      BY <2>1, <2>2, <2>5 DEF LoneEdit
    <3>4. row.items = Bundling!Items(r.variants, list) /\ row.live = old.live
      BY <1>2, <3>3 DEF Row
    <3>5. Bundling!Parts(row) = r.variants
      BY <3>2, <3>4, ItemsBring DEF Bundling!Parts
    <3> HIDE DEF row
    <3> QED BY <1>2, <1>3, <1>4, <1>5, <2>1, <2>2, <2>3, <2>5, <3>1, <3>2, <3>4, <3>5 DEF LoneEdit
  <2>6. CASE r.stage = "write"
    <3> DEFINE row == IF r.live = Keep THEN bundleDraft[c]
                  ELSE [bundleDraft[c] EXCEPT !.live = r.live]
    <3>1. bundleDraft' = [bundleDraft EXCEPT ![c] = row]
      BY <1>3, <2>6 DEF Bundling!WriteStatus, Bundling!WriteCombo
    <3>2. row.items = bundleDraft[c].items
      BY <1>2 DEF Row
    <3>3. row.live => r.live = TRUE \/ bundleDraft[c].live
      BY <1>1, <1>2 DEF Row, EditedCombo
    <3>4. Bundling!Parts(row) = Bundling!Parts(bundleDraft[c])
      BY <3>2 DEF Bundling!Parts
    <3> HIDE DEF row
    <3> QED BY <1>2, <1>3, <1>4, <1>5, <2>1, <2>3, <2>6, <3>1, <3>3, <3>4 DEF LoneEdit
  <2> QED BY <1>1, <2>4, <2>5, <2>6
<1>7. q \in BundleRequest /\ q \notin CreatedCombo /\ q \notin RestatedVariants
  BY <1>3 DEF BundleRequest, EditedCombo, CreatedCombo, RestatedVariants
<1>8. bundleAlone[t] => LoneServes(t)'
  BY <1>4, <1>6, <1>7 DEF LoneServes
<1> QED BY <1>1, <1>3, <1>7, <1>8, LoneContinues

\* The variants a lone request has set are those it was asked to, and the combos
\* its trigger locks stay as they are.
LEMMA LoneRestates ==
    ASSUME BodiesAssumption, LoneBundlingInv, BundlingInv', NEW t \in Tx,
           Bundling!SetStatus(t) \/ Bundling!TouchCombo(t) \/ Bundling!StatusesSet(t)
    PROVE  LoneBundlingInv'
<1> DEFINE r == bundleRequest[t]
<1>1. r \in RestatedVariants /\ r # Bundling!Idle /\ r.stage = "set"
  <2>1. r.stage = "set"
    BY DEF Bundling!SetStatus, Bundling!TouchCombo, Bundling!StatusesSet
  <2>2. r # Bundling!Idle
    BY <2>1 DEF Bundling!Idle
  <2> QED BY <2>1, <2>2, NextStatement DEF LoneBundlingInv
<1>2. PICK q \in RestatedVariants :
         /\ Bundling!Continues(t, q) /\ q.stage \in {"set", "commit"}
         /\ q.on = r.on /\ q.retired = r.retired /\ q.variants \subseteq r.variants
         /\ UNCHANGED <<part, bundle, bundleDraft>>
         /\ \/ partDraft' = partDraft
            \/ \E v \in r.variants : partDraft' = [partDraft EXCEPT ![v] = r.on]
  <2>1. CASE Bundling!SetStatus(t)
    <3>1. PICK v \in r.variants :
             /\ partDraft' = [partDraft EXCEPT ![v] = r.on]
             /\ Bundling!Continues(t, [r EXCEPT !.variants = @ \ {v},
                   !.touched = {c \in Combo : v \in Bundling!Parts(Bundling!Bundles(t)[c])}])
             /\ UNCHANGED <<part, bundle, bundleDraft>>
      BY <2>1 DEF Bundling!SetStatus, Bundling!AtCombos
    <3> DEFINE touched == {c \in Combo : v \in Bundling!Parts(Bundling!Bundles(t)[c])}
               q == [r EXCEPT !.variants = @ \ {v}, !.touched = touched]
    <3>2. touched \in SUBSET Combo /\ Bundling!Continues(t, q)
      BY <3>1
    <3> HIDE DEF touched
    <3>3. q \in RestatedVariants /\ q.stage = "set" /\ q.on = r.on /\ q.retired = r.retired
          /\ q.variants \subseteq r.variants
      BY <1>1, <3>2 DEF RestatedVariants
    <3> HIDE DEF q
    <3> QED BY <3>1, <3>2, <3>3
  <2>2. CASE Bundling!TouchCombo(t)
    <3>1. PICK c \in r.touched : Bundling!Continues(t, [r EXCEPT !.touched = @ \ {c}])
      BY <2>2 DEF Bundling!TouchCombo
    <3> DEFINE q == [r EXCEPT !.touched = @ \ {c}]
    <3>2. q \in RestatedVariants /\ q.stage = "set" /\ q.on = r.on /\ q.retired = r.retired
          /\ q.variants = r.variants
      BY <1>1 DEF RestatedVariants
    <3>3. Bundling!Continues(t, q) /\ UNCHANGED <<part, partDraft, bundle, bundleDraft>>
      BY <2>2, <3>1 DEF Bundling!TouchCombo, Bundling!AtVariants
    <3> HIDE DEF q
    <3> QED BY <3>2, <3>3
  <2>3. CASE Bundling!StatusesSet(t)
    <3> DEFINE q == [r EXCEPT !.stage = "commit"]
    <3>1. q \in RestatedVariants /\ q.stage = "commit" /\ q.on = r.on /\ q.retired = r.retired
          /\ q.variants = r.variants
      BY <1>1 DEF RestatedVariants
    <3>2. Bundling!Continues(t, q) /\ UNCHANGED <<part, partDraft, bundle, bundleDraft>>
      BY <2>3 DEF Bundling!StatusesSet, Bundling!AtVariants, Bundling!AtCombos
    <3> HIDE DEF q
    <3> QED BY <3>1, <3>2
  <2> QED BY <2>1, <2>2, <2>3
<1>3. bundleRequest'[t] = q
  BY <1>1, <1>2 DEF Bundling!Continues, Bundling!Go, LoneBundlingInv, BundlingInv, RequestsTypeOK
<1>4. ASSUME bundleAlone[t] PROVE LoneStatuses(t)'
  <2>1. LoneStatuses(t)
    BY <1>1, <1>4 DEF LoneBundlingInv, LoneBundling, LoneServes
  <2>2. \A v : Bundling!LiveWith(v)' = Bundling!LiveWith(v)
    BY <1>2 DEF Bundling!LiveWith
  <2>3. r.on \in BOOLEAN /\ partDraft \in [Variant -> BOOLEAN]
    BY <1>1 DEF RestatedVariants, LoneBundlingInv, BundlingInv, RowsTypeOK
  <2>4. ASSUME NEW v \in Variant, part[v], ~partDraft'[v]
        PROVE  ~r.on /\ v \in r.retired
    BY <1>2, <2>1, <2>3, <2>4 DEF LoneStatuses
  <2> QED BY <1>1, <1>2, <1>3, <2>1, <2>2, <2>4 DEF LoneStatuses
<1>5. q \in BundleRequest /\ q \notin CreatedCombo /\ q \notin EditedCombo
  BY <1>2 DEF BundleRequest, EditedCombo, CreatedCombo, RestatedVariants
<1>6. bundleAlone[t] => LoneServes(t)'
  BY <1>3, <1>4, <1>5 DEF LoneServes
<1> QED BY <1>1, <1>2, <1>5, <1>6, LoneContinues

LEMMA LoneBundlingStep ==
    ASSUME BodiesAssumption, LoneBundlingInv, [Bundling!BundlingNext]_(Bundling!bundlingVars)
    PROVE  LoneBundlingInv'
<1>1. BundlingInv'
  BY RowsStep DEF LoneBundlingInv
<1>2. CASE UNCHANGED Bundling!bundlingVars
  <2>1. UNCHANGED <<part, partDraft, bundle, bundleDraft, bundleRequest, bundleAlone>>
    BY <1>2 DEF Bundling!bundlingVars, Bundling!AtVariants, Bundling!AtCombos
  <2>2. BundleHistories' /\ LoneInBundling'
    BY <2>1 DEF LoneBundlingInv, BundleHistories, LoneInBundling, Histories, LoneIsLone
  <2>3. LoneBundling'
    BY <2>1 DEF LoneBundlingInv, LoneBundling, LoneServes, LoneEdit, LoneStatuses,
       Bundling!PassesChecks,
       Bundling!OnSale, Bundling!LiveWith
  <2> QED BY <1>1, <2>2, <2>3 DEF LoneBundlingInv
<1>3. ASSUME NEW t \in Tx, Bundling!Ask(t) PROVE LoneBundlingInv'
  BY <1>3, LoneBegins
<1>4. ASSUME NEW t \in Tx,
             Bundling!Insert(t) \/ Bundling!DeleteCombo(t) \/ Bundling!Commit(t) \/ Bundling!Abort(t)
      PROVE  LoneBundlingInv'
  <2>1. bundleRequest[t] # Bundling!Idle
    <3>1. CASE Bundling!Insert(t) \/ Bundling!DeleteCombo(t) \/ Bundling!Commit(t)
      <4>1. bundleRequest[t].stage \in {"insert", "delete", "commit"}
        BY <3>1 DEF Bundling!Insert, Bundling!DeleteCombo, Bundling!Commit
      <4> QED BY <4>1 DEF Bundling!Idle
    <3>2. CASE Bundling!Abort(t)
      BY <3>2 DEF Bundling!Abort
    <3> QED BY <1>4, <3>1, <3>2
  <2>2. Bundling!Ends(t)
    BY <1>4 DEF Bundling!Insert, Bundling!DeleteCombo, Bundling!Commit, Bundling!Abort
  <2> QED BY <1>1, <2>1, <2>2, LoneEnds
<1>5. ASSUME NEW t \in Tx, Bundling!Serve(t) PROVE LoneBundlingInv'
  BY <1>1, <1>4, <1>5, LoneDecides, LoneEdits, LoneRestates DEF Bundling!Serve
<1> QED BY <1>2, <1>3, <1>5 DEF Bundling!BundlingNext

LEMMA LoneBundlingHolds ==
    ASSUME BodiesAssumption
    PROVE  Bundling!BundlingSpec => []LoneBundlingInv
<1>1. Bundling!BundlingInit => LoneBundlingInv
  <2> SUFFICES ASSUME Bundling!BundlingInit PROVE LoneBundlingInv
    OBVIOUS
  <2>1. BundleHistories /\ LoneInBundling
    BY NobodyYet DEF Bundling!BundlingInit, BundleHistories, LoneInBundling, Bundling!Idle, Idle
  <2>2. Bundling!Draft(FirstParts) \in Row /\ Bundling!Blank \in Row
    BY DraftRow DEF BodiesAssumption, Bundling!Blank, Row
  <2>3. RowsTypeOK
    BY <2>2 DEF Bundling!BundlingInit, RowsTypeOK
  <2>4. RequestsTypeOK /\ ReplacesItems
    <3>1. Bundling!Idle \notin EditedCombo
      BY BundleRequestServes DEF BundleRequest
    <3> QED BY <3>1 DEF Bundling!BundlingInit, RequestsTypeOK, ReplacesItems
  <2>5. BundlersHold
    BY NoTxAssumption DEF Bundling!BundlingInit, BundlersHold
  <2>6. /\ Bundling!DraftsAreHeld(part, partDraft, partHolder)
        /\ Bundling!DraftsAreHeld(bundle, bundleDraft, bundleHolder)
    BY DEF Bundling!BundlingInit, Bundling!DraftsAreHeld
  <2>7. LoneBundling
    BY DEF Bundling!BundlingInit, LoneBundling
  <2> QED BY <2>1, <2>3, <2>4, <2>5, <2>6, <2>7 DEF LoneBundlingInv, BundlingInv
<1>2. LoneBundlingInv /\ [Bundling!BundlingNext]_(Bundling!bundlingVars) => LoneBundlingInv'
  BY LoneBundlingStep
<1> QED BY <1>1, <1>2, PTL DEF Bundling!BundlingSpec

\* For every set of variants, combos and requests before and after it, a request
\* nobody overlaps puts no retired variant in a live combo, and the items a lone
\* edit sends are all the combo has (resolveComboItems,
\* assertNoInactiveBundledVariants, assertVariantsNotInLiveCombo,
\* replaceComboItems).
THEOREM LoneKeepsBundles == Bundling!BundlingSpec => LoneRequestKeepsBundles
<1> USE DEF LoneRequestKeepsBundles
<1>0. BodiesAssumption
  BY BundlingAssumption DEF BodiesAssumption
<1>1. ASSUME LoneBundlingInv, NEW t \in Tx, bundleAlone[t], Bundling!Commit(t) \/ Bundling!Insert(t)
      PROVE  /\ \A c \in Combo, v \in Variant :
                   Bundling!Broken(bundle', part', c, v) => Bundling!Broken(bundle, part, c, v)
             /\ bundleRequest[t].op = "edit" /\ bundleRequest[t].variants # Keep =>
                   Bundling!Parts(bundle'[bundleRequest[t].combo]) = bundleRequest[t].variants
  <2> DEFINE r == bundleRequest[t]
  <2>1. /\ r \in BundleRequest /\ r # Bundling!Idle
        /\ Bundling!Bundles(t) = bundleDraft /\ Bundling!Variants(t) = partDraft
    BY <1>1, LoneBundlerSeesNewest DEF LoneBundlingInv
  <2>2. LoneServes(t)
    BY <1>1 DEF LoneBundlingInv, LoneBundling
  <2>3. CASE Bundling!Insert(t)
    <3>1. r \in CreatedCombo /\ r.stage = "insert"
      <4>1. r.stage = "insert"
        BY <2>3 DEF Bundling!Insert
      <4> QED BY <1>0, <1>1, <2>1, <4>1, NextStatement DEF LoneBundlingInv
    <3> DEFINE row == [Bundling!Draft(r.variants) EXCEPT !.live = r.live]
    <3>2. bundle' = [bundle EXCEPT ![r.combo] = row] /\ part' = part
      BY <2>3 DEF Bundling!Insert, Bundling!AtVariants
    <3>3. r.variants \in SUBSET Variant /\ r.variants # Keep /\ r.combo \in Combo
      BY <1>0, <3>1 DEF CreatedCombo, BodiesAssumption
    <3>4. \A v \in r.variants : part[v]
      BY <2>2, <3>1, <3>3 DEF LoneServes, Bundling!PassesChecks, Bundling!OnSale
    <3>5. Bundling!Parts(row) = r.variants
      <4>1. /\ Bundling!Draft(r.variants) \in Row
            /\ Bundling!Parts(Bundling!Draft(r.variants)) = r.variants
        BY <3>3, DraftRow
      <4>2. row.items = Bundling!Draft(r.variants).items
        BY <4>1 DEF Row
      <4> QED BY <4>1, <4>2 DEF Bundling!Parts
    <3> HIDE DEF row
    <3>6. r.op # "edit"
      BY <3>1 DEF CreatedCombo
    <3>7. bundle \in [Combo -> Row]
      BY <1>1 DEF LoneBundlingInv, BundlingInv, RowsTypeOK
    <3> QED BY <3>2, <3>3, <3>4, <3>5, <3>6, <3>7 DEF Bundling!Broken
  <2>4. CASE Bundling!Commit(t)
    <3>1. bundle' = bundleDraft /\ part' = partDraft /\ r.stage = "commit"
      BY <2>1, <2>4 DEF Bundling!Commit
    <3>2. r \in EditedCombo \/ r \in RestatedVariants
      BY <1>0, <1>1, <2>1, <3>1, NextStatement DEF LoneBundlingInv
    <3>3. CASE r \in EditedCombo
      <4>1. LoneEdit(t)
        BY <2>2, <3>3 DEF LoneServes
      <4>2. /\ partDraft = part /\ \A c \in Combo \ {r.combo} : bundleDraft[c] = bundle[c]
            /\ Bundling!Parts(bundleDraft[r.combo]) = IF r.variants = Keep THEN Bundling!Parts(bundle[r.combo])
                                             ELSE r.variants
            /\ bundleDraft[r.combo].live => r.live = TRUE \/ bundle[r.combo].live
            /\ r.wasLive = bundle[r.combo].live /\ Bundling!PassesChecks(r)
        BY <3>1, <4>1 DEF LoneEdit
      <4>3. ASSUME NEW v \in Variant, Bundling!Broken(bundleDraft, partDraft, r.combo, v)
            PROVE  Bundling!Broken(bundle, part, r.combo, v)
        BY <4>2, <4>3 DEF Bundling!Broken, Bundling!PassesChecks, Bundling!OnSale
      <4>4. \A c \in Combo \ {r.combo}, v \in Variant :
                Bundling!Broken(bundleDraft, partDraft, c, v) => Bundling!Broken(bundle, part, c, v)
        BY <4>2 DEF Bundling!Broken
      <4> QED BY <3>1, <4>2, <4>3, <4>4
    <3>4. CASE r \in RestatedVariants
      <4>1. LoneStatuses(t)
        BY <2>2, <3>4 DEF LoneServes
      <4>2. ASSUME NEW c \in Combo, NEW v \in Variant, Bundling!Broken(bundleDraft, partDraft, c, v)
            PROVE  Bundling!Broken(bundle, part, c, v)
        <5>1. bundle[c].live /\ v \in Bundling!Parts(bundle[c])
          BY <4>1, <4>2 DEF LoneStatuses, Bundling!Broken
        <5>2. ASSUME part[v] PROVE FALSE
          <6>1. Bundling!LiveWith(v) = {}
            BY <3>1, <4>1, <4>2, <5>2 DEF LoneStatuses, Bundling!Broken
          <6> QED BY <5>1, <6>1 DEF Bundling!LiveWith
        <5> QED BY <5>1, <5>2 DEF Bundling!Broken
      <4>3. r.op # "edit"
        BY <3>4 DEF RestatedVariants
      <4> QED BY <3>1, <4>2, <4>3
    <3> QED BY <3>2, <3>3, <3>4
  <2> QED BY <1>1, <2>3, <2>4
<1>2. LoneBundlingInv /\ [Bundling!BundlingNext]_(Bundling!bundlingVars) =>
        [\A t \in Tx : bundleAlone[t] /\ (Bundling!Commit(t) \/ Bundling!Insert(t)) =>
            /\ \A c \in Combo, v \in Variant :
                  Bundling!Broken(bundle', part', c, v) => Bundling!Broken(bundle, part, c, v)
            /\ bundleRequest[t].op = "edit" /\ bundleRequest[t].variants # Keep =>
                  Bundling!Parts(bundle'[bundleRequest[t].combo]) = bundleRequest[t].variants]_
           (Bundling!bundlingVars)
  BY <1>1
<1> QED BY <1>0, LoneBundlingHolds, <1>2, PTL
       DEF Bundling!BundlingSpec, Bundling!LoneRequestKeepsBundles

-----------------------------------------------------------------------------
(* The courier companies.                                                  *)

Slugs == {n.slug : n \in Spelling}

NamedRows   == {row \in [name : Spelling, slug : Slugs] : row.slug = row.name.slug}
CompanyRows == {Couriers!NoRow} \cup NamedRows

Submission == [op : {"submit"}, stage : {"slug", "insert"}, name : Spelling]
Attachment == [op : {"submit"}, stage : {"attach"}, company : Company]
ZoneEdit   == [op : {"edit"}, stage : {"lookup", "rename", "zone"}, zone : Zone, company : Company,
               names : SUBSET Spelling, contact : BOOLEAN]
ZoneDelete == [op : {"delete"}, stage : {"delete"}, zone : Zone]

CourierRequest == Submission \cup Attachment \cup ZoneEdit \cup ZoneDelete

CouriersTypeOK ==
    /\ company \in [Company -> CompanyRows] /\ companyDraft \in [Company -> CompanyRows]
    /\ companyHolder \in [Company -> Tx \cup {NoTx}]
    /\ courierRequest \in [Tx -> CourierRequest \cup {Couriers!Idle}]

\* What the index on the slug keeps apart: rows, and rows about to be.
SlugsApart ==
    \A p, q \in Company : p # q =>
        \A one \in {company[p], companyDraft[p]}, other \in {company[q], companyDraft[q]} :
            one # Couriers!NoRow /\ other # Couriers!NoRow => one.slug # other.slug

CouriersInv == CouriersTypeOK /\ SlugsApart

\* The statements of a request.
LEMMA CourierGoesOn ==
    ASSUME CouriersTypeOK, NEW t \in Tx, courierRequest[t] # Couriers!Idle
    PROVE  /\ courierRequest[t].stage \in {"slug", "insert"} => courierRequest[t] \in Submission
           /\ courierRequest[t].stage \in {"lookup", "rename"} => courierRequest[t] \in ZoneEdit
BY DEF CouriersTypeOK, CourierRequest, Submission, Attachment, ZoneEdit, ZoneDelete

\* A row of one company becomes another row that no other company has or is
\* about to have.
LEMMA RowsStayApart ==
    ASSUME CouriersInv, NEW p \in Company, NEW row \in NamedRows,
           ~Couriers!Taken(p, row),
           company' \in {company, [company EXCEPT ![p] = row]},
           companyDraft' = [companyDraft EXCEPT ![p] = row]
    PROVE  /\ SlugsApart'
           /\ company' \in [Company -> CompanyRows] /\ companyDraft' \in [Company -> CompanyRows]
<1>1. \A q \in Company \ {p} : \A other \in {company[q], companyDraft[q]} :
          other # Couriers!NoRow => other.slug # row.slug
  BY DEF Couriers!Taken
<1>2. /\ \A q \in Company \ {p} : company'[q] = company[q] /\ companyDraft'[q] = companyDraft[q]
      /\ company'[p] \in {company[p], row} /\ companyDraft'[p] = row
  BY DEF CouriersInv, CouriersTypeOK
<1>3. SlugsApart'
  BY <1>1, <1>2 DEF CouriersInv, SlugsApart
<1> QED BY <1>3 DEF CouriersInv, CouriersTypeOK, CompanyRows

\* What a commit shows or a rollback discards was apart already.
LEMMA FewerRowsApart ==
    ASSUME CouriersInv, NEW t \in Tx,
           \/ company' = Couriers!Companies(t) /\ companyDraft' = companyDraft
           \/ /\ company' = company
              /\ companyDraft' = Couriers!Discard(company, companyDraft, companyHolder, t)
           \/ company' = company /\ companyDraft' = companyDraft
    PROVE  /\ SlugsApart'
           /\ company' \in [Company -> CompanyRows] /\ companyDraft' \in [Company -> CompanyRows]
<1>1. /\ company' \in [Company -> CompanyRows] /\ companyDraft' \in [Company -> CompanyRows]
      /\ \A p \in Company : /\ company'[p] \in {company[p], companyDraft[p]}
                            /\ companyDraft'[p] \in {company[p], companyDraft[p]}
  BY DEF CouriersInv, CouriersTypeOK, Couriers!Companies, Couriers!View, Couriers!Discard
<1> QED BY <1>1 DEF CouriersInv, SlugsApart

LEMMA CouriersStep ==
    ASSUME CouriersInv, [Couriers!CouriersNext]_(Couriers!couriersVars)
    PROVE  CouriersInv'
<1>1. CASE UNCHANGED Couriers!couriersVars
  BY <1>1 DEF Couriers!couriersVars, Couriers!AtCouriers, CouriersInv, CouriersTypeOK, SlugsApart
<1>2. ASSUME NEW t \in Tx, Couriers!Ask(t)
      PROVE  CouriersInv'
  <2>1. /\ company' = company /\ companyDraft' = companyDraft /\ companyHolder' = companyHolder
        /\ \E r \in CourierRequest : courierRequest' = [courierRequest EXCEPT ![t] = r]
    <3>1. CASE \E n \in Spelling : Couriers!BeginSubmit(t, n)
      <4>1. PICK n \in Spelling : Couriers!BeginSubmit(t, n)
        BY <3>1
      <4>2. \A p \in Couriers!Named(company, n) :
               [op |-> "submit", stage |-> "attach", company |-> p] \in Attachment
        BY DEF Couriers!Named, Couriers!Known, Attachment
      <4>3. [op |-> "submit", stage |-> "slug", name |-> n] \in Submission
        BY DEF Submission
      <4> QED BY <4>1, <4>2, <4>3 DEF Couriers!BeginSubmit, Couriers!Starts, Couriers!Go,
                 Couriers!AtCouriers, CourierRequest
    <3>2. CASE \E z \in Couriers!Zones, names \in {{}} \cup {{n} : n \in Spelling}, contact \in BOOLEAN :
                 Couriers!BeginEdit(t, z, names, contact)
      <4>1. PICK z \in Couriers!Zones, names \in {{}} \cup {{n} : n \in Spelling}, contact \in BOOLEAN :
                 Couriers!BeginEdit(t, z, names, contact)
        BY <3>2
      <4> DEFINE renames == {n \in names : n # company[zone[z]].name}
                 r == [op |-> "edit", stage |-> IF renames = {} THEN "zone" ELSE "lookup", zone |-> z,
                       company |-> zone[z], names |-> renames, contact |-> contact]
      <4>2. z \in Zone /\ zone[z] \in Company /\ renames \in SUBSET Spelling
        BY DEF Couriers!Zones
      <4>3. r \in ZoneEdit
        <5> HIDE DEF renames
        <5> QED BY <4>2 DEF ZoneEdit
      <4>4. courierRequest' = [courierRequest EXCEPT ![t] = r]
        BY <4>1 DEF Couriers!BeginEdit, Couriers!Starts, Couriers!Go
      <4> QED BY <4>1, <4>3, <4>4 DEF Couriers!BeginEdit, Couriers!AtCouriers, CourierRequest
    <3>3. CASE \E z \in Couriers!Zones : Couriers!BeginDelete(t, z)
      <4>1. PICK z \in Couriers!Zones : Couriers!BeginDelete(t, z)
        BY <3>3
      <4>2. [op |-> "delete", stage |-> "delete", zone |-> z] \in ZoneDelete
        BY DEF ZoneDelete, Couriers!Zones
      <4> QED BY <4>1, <4>2 DEF Couriers!BeginDelete, Couriers!Starts, Couriers!Go,
                 Couriers!AtCouriers, CourierRequest
    <3> QED BY <1>2, <3>1, <3>2, <3>3 DEF Couriers!Ask
  <2>2. CouriersTypeOK'
    BY <2>1 DEF CouriersInv, CouriersTypeOK
  <2> QED BY <2>1, <2>2 DEF CouriersInv, SlugsApart
<1>3. ASSUME NEW t \in Tx, NEW r \in CourierRequest \cup {Couriers!Idle},
             courierRequest' = [courierRequest EXCEPT ![t] = r],
             companyHolder' \in [Company -> Tx \cup {NoTx}],
             SlugsApart', company' \in [Company -> CompanyRows], companyDraft' \in [Company -> CompanyRows]
      PROVE  CouriersInv'
  BY <1>3 DEF CouriersInv, CouriersTypeOK
<1>4. \A t \in Tx : /\ companyHolder \in [Company -> Tx \cup {NoTx}]
                    /\ Couriers!Unlock(companyHolder, t) \in [Company -> Tx \cup {NoTx}]
                    /\ \A p : Couriers!Lock(companyHolder, t, p) \in [Company -> Tx \cup {NoTx}]
  BY DEF CouriersInv, CouriersTypeOK, Couriers!Unlock, Couriers!Lock
<1>5. ASSUME NEW t \in Tx, Couriers!Serve(t)
      PROVE  CouriersInv'
  <2> DEFINE r == courierRequest[t]
  <2>1. r # Couriers!Idle
    BY <1>5 DEF Couriers!Serve, Couriers!Active
  <2>2. CASE Couriers!CheckSlug(t)
    <3>1. r \in Submission
      BY <2>1, <2>2, CourierGoesOn DEF Couriers!CheckSlug, CouriersInv
    <3>2. [r EXCEPT !.stage = "insert"] \in CourierRequest
      BY <3>1 DEF Submission, CourierRequest
    <3>3. /\ courierRequest' = [courierRequest EXCEPT ![t] = [r EXCEPT !.stage = "insert"]]
          /\ company' = company /\ companyDraft' = companyDraft /\ companyHolder' = companyHolder
      BY <2>2 DEF Couriers!CheckSlug, Couriers!Continues, Couriers!Go, Couriers!AtCouriers
    <3> QED BY <1>3, <1>4, <3>2, <3>3, FewerRowsApart
  <2>3. CASE Couriers!LookUp(t)
    <3>1. r \in ZoneEdit
      BY <2>1, <2>3, CourierGoesOn DEF Couriers!LookUp, CouriersInv
    <3>2. [r EXCEPT !.stage = "rename"] \in CourierRequest
      BY <3>1 DEF ZoneEdit, CourierRequest
    <3>3. /\ courierRequest' = [courierRequest EXCEPT ![t] = [r EXCEPT !.stage = "rename"]]
          /\ company' = company /\ companyDraft' = companyDraft /\ companyHolder' = companyHolder
      BY <2>3 DEF Couriers!LookUp, Couriers!Continues, Couriers!Go, Couriers!AtCouriers
    <3> QED BY <1>3, <1>4, <3>2, <3>3, FewerRowsApart
  <2>4. CASE Couriers!InsertCompany(t)
    <3>1. r \in Submission
      BY <2>1, <2>4, CourierGoesOn DEF Couriers!InsertCompany, CouriersInv
    <3>2. r.name \in Spelling
      BY <3>1 DEF Submission
    <3>3. PICK p \in Company :
             /\ ~Couriers!Taken(p, Couriers!Row(r.name))
             /\ company' = [company EXCEPT ![p] = Couriers!Row(r.name)]
             /\ companyDraft' = [companyDraft EXCEPT ![p] = Couriers!Row(r.name)]
      BY <2>4 DEF Couriers!InsertCompany, Couriers!Known
    <3>4. courierRequest' = [courierRequest EXCEPT ![t] = Couriers!Idle] /\ companyHolder' = companyHolder
      BY <2>4 DEF Couriers!InsertCompany, Couriers!Ends, Couriers!Go
    <3>5. Couriers!Row(r.name) \in NamedRows
      BY <3>2 DEF Couriers!Row, NamedRows, Slugs
    <3>6. /\ SlugsApart' /\ company' \in [Company -> CompanyRows]
          /\ companyDraft' \in [Company -> CompanyRows]
      BY <3>3, <3>5, RowsStayApart
    <3> QED BY <1>3, <1>4, <3>4, <3>6
  <2>5. CASE Couriers!RenameCompany(t)
    <3>1. r \in ZoneEdit
      BY <2>1, <2>5, CourierGoesOn DEF Couriers!RenameCompany, CouriersInv
    <3>2. PICK n \in r.names :
             /\ ~Couriers!Taken(r.company, Couriers!Renamed(r.company, n))
             /\ companyDraft' = [companyDraft EXCEPT ![r.company] = Couriers!Renamed(r.company, n)]
      BY <2>5 DEF Couriers!RenameCompany
    <3>3. n \in Spelling /\ r.company \in Company
      BY <3>1 DEF ZoneEdit
    <3>4. Couriers!Renamed(r.company, n) \in NamedRows
      <4>1. companyDraft[r.company] \in CompanyRows
        BY <3>3 DEF CouriersInv, CouriersTypeOK
      <4>2. companyDraft[r.company] \in [name : Spelling \cup {Undrawn}, slug : Slugs \cup {Undrawn}]
        BY <4>1 DEF CompanyRows, NamedRows, Couriers!NoRow
      <4> QED BY <3>3, <4>2 DEF Couriers!Renamed, NamedRows, Slugs
    <3>5. [r EXCEPT !.stage = "zone"] \in CourierRequest
      BY <3>1 DEF ZoneEdit, CourierRequest
    <3>6. /\ courierRequest' = [courierRequest EXCEPT ![t] = [r EXCEPT !.stage = "zone"]]
          /\ company' = company /\ companyHolder' = Couriers!Lock(companyHolder, t, r.company)
      BY <2>5 DEF Couriers!RenameCompany, Couriers!Continues, Couriers!Go
    <3>7. /\ SlugsApart' /\ company' \in [Company -> CompanyRows]
          /\ companyDraft' \in [Company -> CompanyRows]
      <4>1. PICK p \in Company : p = r.company
        BY <3>3
      <4> QED BY <3>2, <3>3, <3>4, <3>6, <4>1, RowsStayApart
    <3> QED BY <1>3, <1>4, <3>5, <3>6, <3>7
  <2>6. CASE Couriers!AttachZone(t) \/ Couriers!DeleteZone(t)
    <3>1. /\ courierRequest' = [courierRequest EXCEPT ![t] = Couriers!Idle]
          /\ company' = company /\ companyDraft' = companyDraft /\ companyHolder' = companyHolder
      BY <2>6 DEF Couriers!AttachZone, Couriers!DeleteZone, Couriers!Ends, Couriers!Go
    <3> QED BY <1>3, <1>4, <3>1, FewerRowsApart
  <2>7. CASE Couriers!EditZone(t)
    <3>1. /\ courierRequest' = [courierRequest EXCEPT ![t] = Couriers!Idle]
          /\ company' = Couriers!Companies(t) /\ companyDraft' = companyDraft
          /\ companyHolder' = Couriers!Unlock(companyHolder, t)
      BY <2>7 DEF Couriers!EditZone, Couriers!Ends, Couriers!Go
    <3> QED BY <1>3, <1>4, <3>1, FewerRowsApart
  <2>8. CASE Couriers!Fails(t)
    <3>1. /\ courierRequest' = [courierRequest EXCEPT ![t] = Couriers!Idle] /\ company' = company
          /\ companyDraft' = Couriers!Discard(company, companyDraft, companyHolder, t)
          /\ companyHolder' = Couriers!Unlock(companyHolder, t)
      BY <2>8 DEF Couriers!Fails, Couriers!Ends, Couriers!Go
    <3> QED BY <1>3, <1>4, <3>1, FewerRowsApart
  <2> QED BY <1>5, <2>2, <2>3, <2>4, <2>5, <2>6, <2>7, <2>8 DEF Couriers!Serve
<1> QED BY <1>1, <1>2, <1>5 DEF Couriers!CouriersNext

\* No two companies have one name but for its case, however submissions and
\* renames overlap: the look-ups and the index on the name would let such a
\* pair pass, the index on the slug does not (DeliveryService).
THEOREM NamesStayApart == Couriers!CouriersSpec => []NamesApart
<1>1. Couriers!CouriersInit => CouriersInv
  BY DEF Couriers!CouriersInit, CouriersInv, CouriersTypeOK, CompanyRows, SlugsApart
<1>2. CouriersInv /\ [Couriers!CouriersNext]_(Couriers!couriersVars) => CouriersInv'
  BY CouriersStep
<1>3. CouriersInv => NamesApart
  <2> SUFFICES ASSUME CouriersInv, NEW p \in Couriers!Known(company), NEW q \in Couriers!Known(company),
                      p # q, company[p].name.lower = company[q].name.lower
               PROVE  FALSE
    BY DEF NamesApart, Couriers!NamesApart
  <2>1. company[p] \in NamedRows /\ company[q] \in NamedRows
    BY DEF CouriersInv, CouriersTypeOK, CompanyRows, Couriers!Known
  <2>2. company[p].slug = company[q].slug
    BY <2>1, CouriersAssumption DEF NamedRows
  <2>3. company[p].slug # company[q].slug
    BY DEF CouriersInv, SlugsApart, Couriers!Known
  <2> QED BY <2>2, <2>3
<1> QED BY <1>1, <1>2, <1>3, PTL DEF Couriers!CouriersSpec

-----------------------------------------------------------------------------
(* The account of an e-mail address and its one-time codes.                *)

AccountOps == {"register", "managed", "social", "resend", "forgot", "verify", "reset", "change",
               "deactivate"}
AccountStages == {"read", "insert", "cool", "code", "match", "burn", "status", "verified", "password",
                  "deactivate", "commit"}
AccountRequest == [op : AccountOps, stage : AccountStages, type : Accounts!OtpType,
                   code : Code \cup {0}, era : Nat, opens : BOOLEAN]

IsAccount(rows) ==
    /\ rows = [p \in Accounts!Part |-> rows[p]]
    /\ rows["user"] \in Accounts!UserRow /\ rows["security"] \in Accounts!SecurityRow

AccountsTypeOK ==
    /\ IsAccount(account) /\ IsAccount(accountDraft)
    /\ accountHolder \in [Accounts!Part -> Tx \cup {NoTx}]
    /\ code \in [Code -> Accounts!CodeRow] /\ codeDraft \in [Code -> Accounts!CodeRow]
    /\ codeHolder \in [Code -> Tx \cup {NoTx}]
    /\ accountRequest \in [Tx -> AccountRequest \cup {Accounts!Idle}]
    /\ broken \in BOOLEAN

Creators == {"register", "managed", "social"}
Spenders == {"verify", "reset"}

\* Which requests reach which statement, and which of them have a transaction.
FitsStage(r) ==
    CASE r.stage = "read"       -> ~r.opens
      [] r.stage = "insert"     -> r.op \in Creators /\ r.opens
      [] r.stage = "cool"       -> r.op \in {"resend", "forgot"} /\ ~r.opens
      [] r.stage = "code"       -> \/ r.op \in {"resend", "forgot"} /\ ~r.opens
                                   \/ r.op = "register" /\ r.opens
      [] r.stage \in {"match", "burn"} -> r.op \in Spenders /\ r.opens
      [] r.stage \in {"status", "verified"} -> \/ r.op = "social" /\ ~r.opens
                                               \/ r.op = "verify" /\ r.type = "SIGNUP" /\ r.opens
      [] r.stage = "password"   -> (r.op = "reset" /\ r.opens) \/ (r.op = "change" /\ ~r.opens)
      [] r.stage = "deactivate" -> r.op = "deactivate" /\ ~r.opens
      [] r.stage = "commit"     -> r.op \in Creators \cup Spenders /\ r.opens

FitsType(r) ==
    /\ r.op = "register" => r.type = "SIGNUP"
    /\ r.op \in {"reset", "forgot"} => r.type = "PASSWORD_RESET"

\* What a transaction holds, statement by statement.
HoldsNothing(t) ==
    (\A p \in Accounts!Part : accountHolder[p] # t) /\ (\A c \in Code : codeHolder[c] # t)

HoldsCreated(t) ==
    LET r == accountRequest[t] IN
    /\ account["user"].status = "none"
    /\ \A p \in Accounts!Part : accountHolder[p] = t /\ accountDraft[p] = Accounts!Created(r.op)[p]
    /\ r.op = "register" /\ r.stage = "commit" =>
          \E c \in Code : codeHolder[c] = t /\ codeDraft[c].live /\ codeDraft[c].type = "SIGNUP"

HoldsSpent(t) ==
    LET r == accountRequest[t] IN
    /\ r.code \in Code /\ code[r.code].live /\ code[r.code].type = r.type
    /\ accountHolder["user"] = t <=>
          \/ r.op = "verify" /\ r.type = "SIGNUP" /\ r.stage \in {"verified", "commit"}
          \/ r.op = "reset" /\ r.stage = "commit"
    /\ accountHolder["security"] = t <=> r.op = "verify" /\ r.type = "SIGNUP" /\ r.stage = "commit"
    /\ accountHolder["user"] = t /\ r.op = "verify" => accountDraft["user"].status = "ACTIVE"
    /\ accountHolder["user"] = t /\ r.op = "reset" =>
          /\ accountDraft["user"].status = account["user"].status
          /\ accountDraft["user"].password > account["user"].password
    /\ accountHolder["security"] = t => accountDraft["security"].verified = "yes"

HoldsCodes(t) ==
    LET r == accountRequest[t] IN
    \A c \in Code : codeHolder[c] = t =>
        /\ code[c].live => codeDraft[c].live /\ codeDraft[c].type = code[c].type
        /\ codeDraft[c].used /\ ~code[c].used => r.op \in Spenders /\ r.code = c

\* An account that was there when a request read it is there still.
FindsAccount(r) ==
    r.stage # "read" /\ ~(r.op \in Creators /\ r.opens) => account["user"].status # "none"

HoldsWhat(t) ==
    LET r == accountRequest[t] IN
    IF r = Accounts!Idle THEN HoldsNothing(t)
    ELSE /\ FitsStage(r) /\ FitsType(r) /\ FindsAccount(r)
         /\ ~r.opens \/ r.stage \in {"insert", "match", "burn"} => HoldsNothing(t)
         /\ r.opens /\ r.op \in Creators /\ r.stage # "insert" => HoldsCreated(t)
         /\ r.op \in Spenders /\ r.stage \notin {"read", "match"} => HoldsSpent(t)
         /\ HoldsCodes(t)

\* Whoever is pending was never deactivated, and so is whatever a pending
\* account was given to be activated by.
ErasFit ==
    /\ \A row \in {account["user"], accountDraft["user"]} :
          /\ row.status \in {"none", "PENDING"} => row.era = 0
          /\ row.status = "none" => row.password = 0
          /\ row.status = "DEACTIVATED" => row.era > 0
    /\ \A c \in Code : \A row \in {code[c], codeDraft[c]} : row.type = "SIGNUP" => row.era = 0
    /\ \A t \in Tx : LET r == accountRequest[t] IN r # Accounts!Idle =>
          /\ r.stage \in {"insert", "cool", "code"} /\ r.type = "SIGNUP" => r.era = 0
          /\ r.op = "social" /\ r.stage \in {"status", "verified"} => r.era = 0

AccountsInv ==
    /\ AccountsTypeOK
    /\ Accounts!DraftsAreHeld(account, accountDraft, accountHolder)
    /\ Accounts!DraftsAreHeld(code, codeDraft, codeHolder)
    /\ \A t \in Tx : HoldsWhat(t)
    /\ ErasFit
    /\ Accounts!AccountsAreWhole

\* The tables, apart from what anybody holds of them.
AccountTables ==
    /\ AccountsTypeOK
    /\ Accounts!DraftsAreHeld(account, accountDraft, accountHolder)
    /\ Accounts!DraftsAreHeld(code, codeDraft, codeHolder)

\* What a step of t leaves to the others.
OthersAreLeft(t) ==
    /\ \A u \in Tx \ {t} : accountRequest'[u] = accountRequest[u]
    /\ \A u \in Tx \ {t}, p \in Accounts!Part :
          /\ accountHolder'[p] = u <=> accountHolder[p] = u
          /\ accountHolder[p] = u => accountDraft'[p] = accountDraft[p] /\ account'[p] = account[p]
    /\ \A u \in Tx \ {t}, c \in Code :
          /\ codeHolder'[c] = u <=> codeHolder[c] = u
          /\ codeHolder[c] = u => codeDraft'[c] = codeDraft[c] /\ code'[c] = code[c]
    /\ account["user"].status # "none" => account'["user"].status # "none"
    /\ \A c \in Code : code[c].live => code'[c].live /\ code'[c].type = code[c].type

LEMMA OthersHoldOn ==
    ASSUME AccountsInv, NEW t \in Tx, OthersAreLeft(t), NEW u \in Tx \ {t}
    PROVE  HoldsWhat(u)'
<1> DEFINE r == accountRequest[u]
<1>1. HoldsWhat(u) /\ accountRequest'[u] = r /\ "user" \in Accounts!Part /\ "security" \in Accounts!Part
  BY DEF AccountsInv, OthersAreLeft, Accounts!Part
<1>2. HoldsNothing(u) => HoldsNothing(u)'
  BY DEF HoldsNothing, OthersAreLeft
<1>3. HoldsCreated(u) => HoldsCreated(u)'
  BY <1>1 DEF HoldsCreated, OthersAreLeft
<1>4. HoldsSpent(u) => HoldsSpent(u)'
  BY <1>1 DEF HoldsSpent, OthersAreLeft
<1>5. HoldsCodes(u) => HoldsCodes(u)'
  BY <1>1 DEF HoldsCodes, OthersAreLeft
<1>6. FindsAccount(r) => FindsAccount(r)'
  BY <1>1 DEF FindsAccount, OthersAreLeft
<1>7. CASE r = Accounts!Idle
  BY <1>1, <1>2, <1>7 DEF HoldsWhat
<1>8. CASE r # Accounts!Idle
  BY <1>1, <1>2, <1>3, <1>4, <1>5, <1>6, <1>8 DEF HoldsWhat
<1> QED BY <1>7, <1>8

\* What a part of an account is written with.
FitsPart(p, row) ==
    IF p = "user" THEN row \in Accounts!UserRow ELSE row \in Accounts!SecurityRow

\* The parts of an account change as the columns allow.
LEMMA AccountChanges ==
    ASSUME NEW rows, IsAccount(rows), NEW p \in Accounts!Part, NEW row,
           FitsPart(p, row)
    PROVE  /\ IsAccount([rows EXCEPT ![p] = row])
           /\ [rows EXCEPT ![p] = row][p] = row
           /\ \A q \in Accounts!Part \ {p} : [rows EXCEPT ![p] = row][q] = rows[q]
<1> DEFINE next == [rows EXCEPT ![p] = row]
<1>1. DOMAIN rows = Accounts!Part
  BY DEF IsAccount
<1>2. /\ next = [q \in Accounts!Part |-> IF q = p THEN row ELSE rows[q]]
      /\ next[p] = row /\ \A q \in Accounts!Part \ {p} : next[q] = rows[q]
  BY <1>1
<1>3. next = [q \in Accounts!Part |-> next[q]]
  BY <1>2
<1>4. CASE p = "user"
  BY <1>2, <1>3, <1>4 DEF IsAccount, Accounts!Part, FitsPart
<1>5. CASE p = "security"
  BY <1>2, <1>3, <1>5 DEF IsAccount, Accounts!Part, FitsPart
<1> QED BY <1>2, <1>4, <1>5 DEF Accounts!Part

\* A statement in t's transaction writes a part of the account.
LEMMA DraftsPart ==
    ASSUME AccountsInv, NEW t \in Tx, NEW p \in Accounts!Part, NEW row,
           FitsPart(p, row),
           accountRequest[t].opens, Accounts!WriteAccount(t, p, row), broken' = broken,
           NEW q \in AccountRequest, Accounts!Go(t, q)
    PROVE  /\ AccountTables' /\ OthersAreLeft(t) /\ accountRequest'[t] = q
           /\ account' = account /\ code' = code /\ codeDraft' = codeDraft /\ codeHolder' = codeHolder
           /\ accountHolder[p] \in {NoTx, t}
           /\ accountHolder'[p] = t /\ accountDraft'[p] = row
           /\ \A d \in Accounts!Part \ {p} : /\ accountHolder'[d] = accountHolder[d]
                                             /\ accountDraft'[d] = accountDraft[d]
<1>1. /\ accountDraft' = [accountDraft EXCEPT ![p] = row]
      /\ accountHolder[p] \in {NoTx, t} /\ accountHolder' = [accountHolder EXCEPT ![p] = t]
      /\ account' = account /\ code' = code /\ codeDraft' = codeDraft /\ codeHolder' = codeHolder
  BY DEF Accounts!WriteAccount, Accounts!InTx, Accounts!Free, Accounts!Lock, Accounts!AtCodes
<1>2. /\ IsAccount(accountDraft') /\ accountDraft'[p] = row
      /\ \A d \in Accounts!Part \ {p} : accountDraft'[d] = accountDraft[d]
  <2>1. IsAccount(accountDraft)
    BY DEF AccountsInv, AccountsTypeOK
  <2>2. /\ IsAccount([accountDraft EXCEPT ![p] = row]) /\ [accountDraft EXCEPT ![p] = row][p] = row
        /\ \A d \in Accounts!Part \ {p} : [accountDraft EXCEPT ![p] = row][d] = accountDraft[d]
    BY <2>1, AccountChanges
  <2> QED BY <1>1, <2>2
<1>3. /\ accountHolder' \in [Accounts!Part -> Tx \cup {NoTx}] /\ accountHolder'[p] = t
      /\ \A d \in Accounts!Part \ {p} : accountHolder'[d] = accountHolder[d]
  BY <1>1 DEF AccountsInv, AccountsTypeOK
<1>4. /\ accountRequest' = [accountRequest EXCEPT ![t] = q] /\ accountRequest'[t] = q
      /\ accountRequest' \in [Tx -> AccountRequest \cup {Accounts!Idle}]
      /\ \A u \in Tx \ {t} : accountRequest'[u] = accountRequest[u]
  BY DEF Accounts!Go, AccountsInv, AccountsTypeOK
<1>5. AccountsTypeOK'
  BY <1>1, <1>2, <1>3, <1>4 DEF AccountsInv, AccountsTypeOK
<1>6. Accounts!DraftsAreHeld(account, accountDraft, accountHolder)'
  BY <1>1, <1>2, <1>3, NoTxAssumption DEF AccountsInv, AccountsTypeOK, Accounts!DraftsAreHeld
<1>7. Accounts!DraftsAreHeld(code, codeDraft, codeHolder)'
  BY <1>1 DEF AccountsInv, Accounts!DraftsAreHeld
<1>8. OthersAreLeft(t)
  BY <1>1, <1>2, <1>3, <1>4, NoTxAssumption DEF OthersAreLeft
<1> QED BY <1>1, <1>2, <1>3, <1>4, <1>5, <1>6, <1>7, <1>8 DEF AccountTables

\* The same in t's transaction on a code.
LEMMA DraftsCode ==
    ASSUME AccountsInv, NEW t \in Tx, NEW c \in Code, NEW row \in Accounts!CodeRow,
           accountRequest[t].opens, Accounts!WriteCode(t, c, row), broken' = broken,
           UNCHANGED <<account, accountDraft, accountHolder>>,
           NEW q \in AccountRequest, Accounts!Go(t, q)
    PROVE  /\ AccountTables' /\ OthersAreLeft(t) /\ accountRequest'[t] = q /\ code' = code
           /\ codeHolder[c] \in {NoTx, t}
           /\ codeHolder'[c] = t /\ codeDraft'[c] = row
           /\ \A d \in Code \ {c} : codeHolder'[d] = codeHolder[d] /\ codeDraft'[d] = codeDraft[d]
<1>1. /\ codeDraft' = [codeDraft EXCEPT ![c] = row] /\ code' = code
      /\ codeHolder[c] \in {NoTx, t} /\ codeHolder' = [codeHolder EXCEPT ![c] = t]
      /\ account' = account /\ accountDraft' = accountDraft /\ accountHolder' = accountHolder
  BY DEF Accounts!WriteCode, Accounts!InTx, Accounts!Free, Accounts!Lock
<1>2. /\ codeDraft' \in [Code -> Accounts!CodeRow] /\ codeDraft'[c] = row
      /\ \A d \in Code \ {c} : codeDraft'[d] = codeDraft[d]
      /\ codeHolder' \in [Code -> Tx \cup {NoTx}] /\ codeHolder'[c] = t
      /\ \A d \in Code \ {c} : codeHolder'[d] = codeHolder[d]
  BY <1>1 DEF AccountsInv, AccountsTypeOK
<1>4. /\ accountRequest' = [accountRequest EXCEPT ![t] = q] /\ accountRequest'[t] = q
      /\ accountRequest' \in [Tx -> AccountRequest \cup {Accounts!Idle}]
      /\ \A u \in Tx \ {t} : accountRequest'[u] = accountRequest[u]
  BY DEF Accounts!Go, AccountsInv, AccountsTypeOK
<1>5. AccountsTypeOK'
  BY <1>1, <1>2, <1>4 DEF AccountsInv, AccountsTypeOK
<1>6. /\ Accounts!DraftsAreHeld(code, codeDraft, codeHolder)'
      /\ Accounts!DraftsAreHeld(account, accountDraft, accountHolder)'
  BY <1>1, <1>2, NoTxAssumption DEF AccountsInv, AccountsTypeOK, Accounts!DraftsAreHeld
<1>8. OthersAreLeft(t)
  BY <1>1, <1>2, <1>4, NoTxAssumption DEF OthersAreLeft
<1> QED BY <1>1, <1>2, <1>4, <1>5, <1>6, <1>8 DEF AccountTables

\* A statement outside any transaction writes a part of an account that is
\* there.
LEMMA WritesPart ==
    ASSUME AccountsInv, NEW t \in Tx, NEW p \in Accounts!Part, NEW row,
           FitsPart(p, row),
           p = "user" => row.status # "none",
           ~accountRequest[t].opens, Accounts!WriteAccount(t, p, row), broken' = broken,
           NEW q \in AccountRequest \cup {Accounts!Idle}, Accounts!Go(t, q)
    PROVE  /\ AccountTables' /\ OthersAreLeft(t) /\ accountRequest'[t] = q
           /\ accountHolder[p] = NoTx /\ accountHolder' = accountHolder
           /\ account'[p] = row /\ accountDraft'[p] = row
           /\ \A d \in Accounts!Part \ {p} : account'[d] = account[d] /\ accountDraft'[d] = accountDraft[d]
           /\ code' = code /\ codeDraft' = codeDraft /\ codeHolder' = codeHolder
<1>1. /\ accountDraft' = [accountDraft EXCEPT ![p] = row] /\ account' = [account EXCEPT ![p] = row]
      /\ accountHolder[p] = NoTx /\ accountHolder' = accountHolder
      /\ code' = code /\ codeDraft' = codeDraft /\ codeHolder' = codeHolder
  BY DEF Accounts!WriteAccount, Accounts!InTx, Accounts!AtCodes
<1>2. /\ IsAccount(accountDraft') /\ accountDraft'[p] = row
      /\ \A d \in Accounts!Part \ {p} : accountDraft'[d] = accountDraft[d]
  <2>1. IsAccount(accountDraft)
    BY DEF AccountsInv, AccountsTypeOK
  <2>2. /\ IsAccount([accountDraft EXCEPT ![p] = row]) /\ [accountDraft EXCEPT ![p] = row][p] = row
        /\ \A d \in Accounts!Part \ {p} : [accountDraft EXCEPT ![p] = row][d] = accountDraft[d]
    BY <2>1, AccountChanges
  <2> QED BY <1>1, <2>2
<1>3. /\ IsAccount(account') /\ account'[p] = row
      /\ \A d \in Accounts!Part \ {p} : account'[d] = account[d]
  <2>1. IsAccount(account)
    BY DEF AccountsInv, AccountsTypeOK
  <2>2. /\ IsAccount([account EXCEPT ![p] = row]) /\ [account EXCEPT ![p] = row][p] = row
        /\ \A d \in Accounts!Part \ {p} : [account EXCEPT ![p] = row][d] = account[d]
    BY <2>1, AccountChanges
  <2> QED BY <1>1, <2>2
<1>4. /\ accountRequest' = [accountRequest EXCEPT ![t] = q] /\ accountRequest'[t] = q
      /\ accountRequest' \in [Tx -> AccountRequest \cup {Accounts!Idle}]
      /\ \A u \in Tx \ {t} : accountRequest'[u] = accountRequest[u]
  BY DEF Accounts!Go, AccountsInv, AccountsTypeOK
<1>5. AccountsTypeOK'
  BY <1>1, <1>2, <1>3, <1>4 DEF AccountsInv, AccountsTypeOK
<1>6. Accounts!DraftsAreHeld(account, accountDraft, accountHolder)'
  BY <1>1, <1>2, <1>3 DEF AccountsInv, AccountsTypeOK, Accounts!DraftsAreHeld
<1>7. Accounts!DraftsAreHeld(code, codeDraft, codeHolder)'
  BY <1>1 DEF AccountsInv, Accounts!DraftsAreHeld
<1>8. OthersAreLeft(t)
  <2>1. account["user"].status # "none" => account'["user"].status # "none"
    BY <1>3 DEF Accounts!Part
  <2>2. \A u \in Tx \ {t}, d \in Accounts!Part :
          accountHolder[d] = u => accountDraft'[d] = accountDraft[d] /\ account'[d] = account[d]
    BY <1>1, <1>2, <1>3, NoTxAssumption
  <2> QED BY <1>1, <1>4, <2>1, <2>2 DEF OthersAreLeft
<1> QED BY <1>1, <1>2, <1>3, <1>4, <1>5, <1>6, <1>7, <1>8 DEF AccountTables
\* A statement outside any transaction inserts a code.
LEMMA WritesCode ==
    ASSUME AccountsInv, NEW t \in Tx, NEW c \in Code, NEW row \in Accounts!CodeRow,
           ~codeDraft[c].live,
           ~accountRequest[t].opens, Accounts!WriteCode(t, c, row), broken' = broken,
           UNCHANGED <<account, accountDraft, accountHolder>>,
           NEW q \in AccountRequest \cup {Accounts!Idle}, Accounts!Go(t, q)
    PROVE  /\ AccountTables' /\ OthersAreLeft(t) /\ accountRequest'[t] = q
           /\ codeHolder[c] = NoTx /\ codeHolder' = codeHolder
           /\ code'[c] = row /\ codeDraft'[c] = row
           /\ \A d \in Code \ {c} : code'[d] = code[d] /\ codeDraft'[d] = codeDraft[d]
<1>1. /\ codeDraft' = [codeDraft EXCEPT ![c] = row] /\ code' = [code EXCEPT ![c] = row]
      /\ codeHolder[c] = NoTx /\ codeHolder' = codeHolder
      /\ account' = account /\ accountDraft' = accountDraft /\ accountHolder' = accountHolder
  BY DEF Accounts!WriteCode, Accounts!InTx
<1>2. /\ codeDraft' \in [Code -> Accounts!CodeRow] /\ codeDraft'[c] = row
      /\ \A d \in Code \ {c} : codeDraft'[d] = codeDraft[d]
      /\ code' \in [Code -> Accounts!CodeRow] /\ code'[c] = row
      /\ \A d \in Code \ {c} : code'[d] = code[d]
  BY <1>1 DEF AccountsInv, AccountsTypeOK
<1>3. ~code[c].live
  BY <1>1 DEF AccountsInv, AccountsTypeOK, Accounts!DraftsAreHeld
<1>4. /\ accountRequest' = [accountRequest EXCEPT ![t] = q] /\ accountRequest'[t] = q
      /\ accountRequest' \in [Tx -> AccountRequest \cup {Accounts!Idle}]
      /\ \A u \in Tx \ {t} : accountRequest'[u] = accountRequest[u]
  BY DEF Accounts!Go, AccountsInv, AccountsTypeOK
<1>5. AccountsTypeOK'
  BY <1>1, <1>2, <1>4 DEF AccountsInv, AccountsTypeOK
<1>6. Accounts!DraftsAreHeld(code, codeDraft, codeHolder)'
  BY <1>1, <1>2 DEF AccountsInv, AccountsTypeOK, Accounts!DraftsAreHeld
<1>7. Accounts!DraftsAreHeld(account, accountDraft, accountHolder)'
  BY <1>1 DEF AccountsInv, Accounts!DraftsAreHeld
<1>8. OthersAreLeft(t)
  <2>1. \A u \in Tx \ {t}, d \in Code :
          codeHolder[d] = u => codeDraft'[d] = codeDraft[d] /\ code'[d] = code[d]
    BY <1>1, <1>2, NoTxAssumption
  <2>2. \A d \in Code : code[d].live => code'[d].live /\ code'[d].type = code[d].type
    BY <1>2, <1>3
  <2> QED BY <1>1, <1>4, <2>1, <2>2 DEF OthersAreLeft
<1> QED BY <1>1, <1>2, <1>4, <1>5, <1>6, <1>7, <1>8 DEF AccountTables

\* What is left to show of a step of t.
LEMMA AccountsStep ==
    ASSUME AccountsInv, NEW t \in Tx, AccountTables', OthersAreLeft(t), HoldsWhat(t)', ErasFit',
           Accounts!AccountsAreWhole'
    PROVE  AccountsInv'
<1>1. \A u \in Tx \ {t} : HoldsWhat(u)'
  BY OthersHoldOn
<1> QED BY <1>1 DEF AccountsInv, AccountTables

\* The next stage of a request, and nothing else of it.
LEMMA NextStage ==
    ASSUME NEW r \in AccountRequest, NEW s \in AccountStages, NEW q, q = [r EXCEPT !.stage = s]
    PROVE  /\ q \in AccountRequest /\ q # Accounts!Idle
           /\ q.stage = s /\ q.op = r.op /\ q.type = r.type /\ q.code = r.code
           /\ q.era = r.era /\ q.opens = r.opens
<1>1. /\ q \in AccountRequest /\ q.stage = s /\ q.op = r.op /\ q.type = r.type /\ q.code = r.code
      /\ q.era = r.era /\ q.opens = r.opens
  BY DEF AccountRequest
<1>2. s # "idle" /\ Accounts!Idle.stage = "idle"
  BY DEF AccountStages, Accounts!Idle
<1> QED BY <1>1, <1>2

\* A step of t that leaves the tables alone and writes nothing next.
LEMMA QuietStep ==
    ASSUME AccountsInv, NEW t \in Tx, HoldsNothing(t), accountRequest[t].stage # "verified",
           UNCHANGED <<account, accountDraft, accountHolder, code, codeDraft, codeHolder, broken>>,
           NEW q \in AccountRequest \cup {Accounts!Idle}, Accounts!Go(t, q),
           q # Accounts!Idle =>
              /\ FitsStage(q) /\ FitsType(q) /\ FindsAccount(q)
              /\ q.opens => q.stage \in {"insert", "match"}
              /\ q.stage \in {"insert", "cool", "code"} /\ q.type = "SIGNUP" => q.era = 0
              /\ q.op = "social" /\ q.stage \in {"status", "verified"} => q.era = 0
    PROVE  AccountsInv'
<1>1. /\ accountRequest' = [accountRequest EXCEPT ![t] = q] /\ accountRequest'[t] = q
      /\ accountRequest' \in [Tx -> AccountRequest \cup {Accounts!Idle}]
      /\ \A u \in Tx \ {t} : accountRequest'[u] = accountRequest[u]
  BY DEF Accounts!Go, AccountsInv, AccountsTypeOK
<1>2. AccountTables'
  BY <1>1 DEF AccountTables, AccountsInv, AccountsTypeOK, Accounts!DraftsAreHeld
<1>3. OthersAreLeft(t)
  BY <1>1 DEF OthersAreLeft
<1>4. HoldsWhat(t)'
  <2>1. HoldsNothing(t)' /\ FindsAccount(q)' = FindsAccount(q)
    BY DEF HoldsNothing, FindsAccount
  <2>2. HoldsCodes(t)'
    BY <2>1 DEF HoldsNothing, HoldsCodes
  <2>3. CASE q = Accounts!Idle
    BY <1>1, <2>1, <2>3 DEF HoldsWhat
  <2>4. CASE q # Accounts!Idle
    <3>1. ~(q.opens /\ q.op \in Creators /\ q.stage # "insert")
      BY <2>4 DEF FitsStage, Creators, Spenders
    <3>2. q.stage \in AccountStages
      BY <2>4 DEF AccountRequest
    <3>3. ~(q.op \in Spenders /\ q.stage \notin {"read", "match"})
      BY <2>4, <3>2 DEF FitsStage, Creators, Spenders, AccountStages
    <3> QED BY <1>1, <2>1, <2>2, <2>4, <3>1, <3>3 DEF HoldsWhat
  <2> QED BY <2>3, <2>4
<1>5. ErasFit'
  BY <1>1 DEF ErasFit, AccountsInv
<1>6. Accounts!AccountsAreWhole'
  BY <1>1 DEF AccountsInv, Accounts!AccountsAreWhole, Accounts!User, Accounts!Active, Accounts!Idle
<1> QED BY <1>2, <1>3, <1>4, <1>5, <1>6, AccountsStep
\* What is known of a request that is past reading.
LEMMA ServedFacts ==
    ASSUME AccountsInv, NEW t \in Tx, NEW s \in AccountStages, accountRequest[t].stage = s
    PROVE  /\ accountRequest[t] \in AccountRequest
           /\ FitsStage(accountRequest[t]) /\ FitsType(accountRequest[t])
           /\ FindsAccount(accountRequest[t])
           /\ ~accountRequest[t].opens \/ s \in {"read", "insert", "match", "burn"} => HoldsNothing(t)
           /\ accountRequest[t].opens /\ accountRequest[t].op \in Creators /\ s # "insert" => HoldsCreated(t)
           /\ accountRequest[t].op \in Spenders /\ s \notin {"read", "match"} => HoldsSpent(t)
           /\ HoldsCodes(t)
<1>1. HoldsWhat(t) /\ accountRequest[t] \in AccountRequest \cup {Accounts!Idle}
  BY DEF AccountsInv, AccountsTypeOK
<1>2. accountRequest[t] # Accounts!Idle
  BY DEF AccountStages, Accounts!Idle
<1>3. s = "read" => ~accountRequest[t].opens
  BY <1>1, <1>2 DEF HoldsWhat, FitsStage
<1> QED BY <1>1, <1>2, <1>3 DEF HoldsWhat

LEMMA AskKeepsAccounts == ASSUME AccountsInv, NEW t \in Tx, Accounts!Ask(t) PROVE AccountsInv'
<1>1. PICK op \in AccountOps, type \in Accounts!OtpType, c \in Code \cup {0} :
         Accounts!Begin(t, Accounts!Asked(op, type, c)) /\ FitsType(Accounts!Asked(op, type, c))
  BY DEF Accounts!Ask, Accounts!BeginRegister, Accounts!BeginManaged, Accounts!BeginSocial,
     Accounts!BeginResend, Accounts!BeginVerify, Accounts!BeginReset, Accounts!BeginForgot,
     Accounts!BeginChange, Accounts!BeginDeactivate, AccountOps, Accounts!OtpType, FitsType,
     Accounts!Asked
<1> DEFINE q == Accounts!Asked(op, type, c)
<1>2. q \in AccountRequest /\ q.stage = "read" /\ ~q.opens
  BY DEF AccountRequest, Accounts!Asked, AccountStages
<1>3. FitsStage(q) /\ FindsAccount(q)
  BY <1>2 DEF FitsStage, FindsAccount
<1>4. /\ accountRequest[t] = Accounts!Idle /\ Accounts!Go(t, q)
      /\ UNCHANGED <<account, accountDraft, accountHolder, code, codeDraft, codeHolder, broken>>
  BY <1>1 DEF Accounts!Begin, Accounts!Starts, Accounts!AtAccount, Accounts!AtCodes
<1>5. HoldsNothing(t) /\ accountRequest[t].stage # "verified"
  BY <1>4 DEF AccountsInv, HoldsWhat, Accounts!Idle
<1> HIDE DEF q
<1> QED BY <1>1, <1>2, <1>3, <1>4, <1>5, QuietStep DEF q

LEMMA ReadKeepsAccounts == ASSUME AccountsInv, NEW t \in Tx, Accounts!Read(t) PROVE AccountsInv'
<1> DEFINE r == accountRequest[t]
           stage == Accounts!FirstStage(r)
           q == [r EXCEPT !.stage = stage, !.era = Accounts!User.era,
                          !.opens = r.op \in {"register", "managed", "verify", "reset"}
                                    \/ Accounts!User.status = "none"]
<1>1. /\ r.stage = "read"
      /\ UNCHANGED <<account, accountDraft, accountHolder, code, codeDraft, codeHolder, broken>>
  BY DEF Accounts!Read, Accounts!AtAccount, Accounts!AtCodes
<1>2. r \in AccountRequest /\ FitsType(r) /\ HoldsNothing(t)
  BY <1>1, ServedFacts DEF AccountStages
<1>3. CASE Accounts!Go(t, Accounts!Idle)
  BY <1>1, <1>2, <1>3, QuietStep
<1>4. CASE Accounts!MayProceed(r) /\ stage # "done" /\ Accounts!Go(t, q)
  <2>1. /\ Accounts!User \in Accounts!UserRow /\ Accounts!User = account["user"]
        /\ Accounts!User.status \in {"none", "PENDING"} => Accounts!User.era = 0
        /\ Accounts!User.status = "none" => Accounts!User.password = 0
    BY DEF AccountsInv, AccountsTypeOK, IsAccount, Accounts!User, ErasFit
  <2>2. r.op \in AccountOps
    BY <1>2 DEF AccountRequest
  <2>3. /\ r.op \in {"register", "managed"} => stage = "insert"
        /\ r.op = "social" => \/ Accounts!User.status = "none" /\ stage = "insert"
                              \/ Accounts!User.status = "PENDING" /\ stage = "status"
        /\ r.op \in {"resend", "forgot"} => stage = "cool"
        /\ r.op \in {"verify", "reset"} => stage = "match"
        /\ r.op = "change" => stage = "password"
        /\ r.op = "deactivate" => stage = "deactivate"
    BY <1>4, <2>1, <2>2 DEF Accounts!MayProceed, Accounts!FirstStage, AccountOps, Accounts!UserRow
  <2>4. /\ r.op \in {"register", "managed"} => Accounts!User.status = "none"
        /\ r.op = "resend" /\ r.type = "SIGNUP" => Accounts!User.status = "PENDING"
        /\ r.op \in {"resend", "forgot", "verify", "reset", "change", "deactivate"} =>
              Accounts!User.status # "none"
    <3>2. CASE r.op = "resend"
      BY <1>4, <3>2 DEF Accounts!MayProceed
    <3>3. CASE r.op = "change"
      <4>1. Accounts!User.password > 0
        BY <1>4, <3>3 DEF Accounts!MayProceed
      <4> QED BY <2>1, <3>3, <4>1 DEF Accounts!UserRow
    <3>4. CASE r.op \in {"register", "managed"}
      BY <1>4, <3>4 DEF Accounts!MayProceed
    <3>5. CASE r.op \in {"forgot", "verify", "reset", "deactivate"}
      BY <1>4, <3>5 DEF Accounts!MayProceed
    <3>6. CASE r.op = "social"
      BY <3>6
    <3> QED BY <2>2, <3>2, <3>3, <3>4, <3>5, <3>6 DEF AccountOps
  <2>5. stage \in AccountStages
    BY <2>2, <2>3 DEF AccountOps, AccountStages
  <2>6. /\ q.stage = stage /\ q.op = r.op /\ q.type = r.type /\ q.code = r.code
        /\ q.era = Accounts!User.era
        /\ q.opens = (r.op \in {"register", "managed", "verify", "reset"}
                      \/ Accounts!User.status = "none")
    BY <1>2 DEF AccountRequest
  <2>7. q \in AccountRequest
    <3>1. Accounts!User.era \in Nat
      BY <2>1 DEF Accounts!UserRow
    <3> QED BY <1>2, <2>5, <3>1 DEF AccountRequest
  <2> HIDE DEF q, stage
  <2>8. FitsStage(q) /\ FitsType(q) /\ FindsAccount(q)
    <3>1. FitsType(q)
      BY <1>2, <2>6 DEF FitsType
    <3>2. FindsAccount(q)
      BY <2>1, <2>2, <2>3, <2>4, <2>6 DEF FindsAccount, Creators, AccountOps
    <3>3. FitsStage(q)
      BY <2>1, <2>2, <2>3, <2>4, <2>6 DEF FitsStage, Creators, Spenders, AccountOps
    <3> QED BY <3>1, <3>2, <3>3
  <2>9. q.opens => q.stage \in {"insert", "match"}
    BY <2>1, <2>2, <2>3, <2>4, <2>6 DEF AccountOps
  <2>10. /\ q.stage \in {"insert", "cool", "code"} /\ q.type = "SIGNUP" => q.era = 0
         /\ q.op = "social" /\ q.stage \in {"status", "verified"} => q.era = 0
    <3>1. r.op = "forgot" => r.type # "SIGNUP"
      BY <1>2 DEF FitsType
    <3> QED BY <2>1, <2>2, <2>3, <2>4, <2>6, <3>1 DEF AccountOps
  <2> QED BY <1>1, <1>2, <1>4, <2>7, <2>8, <2>9, <2>10, QuietStep
<1> QED BY <1>3, <1>4 DEF Accounts!Read, Accounts!Continues, Accounts!Ends
LEMMA CoolKeepsAccounts == ASSUME AccountsInv, NEW t \in Tx, Accounts!Cool(t) PROVE AccountsInv'
<1> DEFINE r == accountRequest[t]
           q == [r EXCEPT !.stage = "code"]
<1>1. /\ r.stage = "cool"
      /\ UNCHANGED <<account, accountDraft, accountHolder, code, codeDraft, codeHolder, broken>>
  BY DEF Accounts!Cool, Accounts!AtAccount, Accounts!AtCodes
<1>2. r \in AccountRequest /\ FitsStage(r) /\ FitsType(r) /\ FindsAccount(r)
  BY <1>1, ServedFacts DEF AccountStages
<1>3. r.op \in {"resend", "forgot"} /\ ~r.opens /\ HoldsNothing(t)
  BY <1>1, <1>2, ServedFacts DEF FitsStage, AccountStages
<1>4. CASE Accounts!Go(t, Accounts!Idle)
  BY <1>1, <1>3, <1>4, QuietStep
<1>5. CASE Accounts!Go(t, q)
  <2>1. /\ q \in AccountRequest /\ q # Accounts!Idle
        /\ q.stage = "code" /\ q.op = r.op /\ q.type = r.type /\ q.code = r.code
        /\ q.era = r.era /\ q.opens = r.opens
    BY <1>2, NextStage DEF AccountStages
  <2> HIDE DEF q
  <2>2. FitsStage(q) /\ FitsType(q) /\ FindsAccount(q)
    BY <1>1, <1>2, <1>3, <2>1 DEF FitsStage, FitsType, FindsAccount, Creators
  <2>3. r.type = "SIGNUP" => r.era = 0
    BY <1>1, <1>2 DEF AccountsInv, ErasFit, Accounts!Idle
  <2> QED BY <1>1, <1>3, <1>5, <2>1, <2>2, <2>3, QuietStep
<1> QED BY <1>4, <1>5 DEF Accounts!Cool, Accounts!Continues, Accounts!Ends

LEMMA MatchKeepsAccounts == ASSUME AccountsInv, NEW t \in Tx, Accounts!Match(t) PROVE AccountsInv'
<1> DEFINE r == accountRequest[t]
           q == [r EXCEPT !.stage = "burn"]
<1>1. /\ r.stage = "match"
      /\ UNCHANGED <<account, accountDraft, accountHolder, code, codeDraft, codeHolder, broken>>
  BY DEF Accounts!Match, Accounts!AtAccount, Accounts!AtCodes
<1>2. r \in AccountRequest /\ FitsStage(r) /\ FitsType(r) /\ FindsAccount(r) /\ HoldsNothing(t)
  BY <1>1, ServedFacts DEF AccountStages
<1>3. r.op \in Spenders /\ r.opens
  BY <1>1, <1>2 DEF FitsStage
<1>4. CASE Accounts!Go(t, Accounts!Idle)
  BY <1>1, <1>2, <1>4, QuietStep
<1>5. CASE r.code \in Accounts!Latest(r.type) /\ Accounts!Go(t, q)
  <2>1. /\ q \in AccountRequest /\ q # Accounts!Idle
        /\ q.stage = "burn" /\ q.op = r.op /\ q.type = r.type /\ q.code = r.code
        /\ q.era = r.era /\ q.opens = r.opens
    BY <1>2, NextStage DEF AccountStages
  <2> HIDE DEF q
  <2>2. /\ accountRequest' = [accountRequest EXCEPT ![t] = q] /\ accountRequest'[t] = q
        /\ accountRequest' \in [Tx -> AccountRequest \cup {Accounts!Idle}]
        /\ \A u \in Tx \ {t} : accountRequest'[u] = accountRequest[u]
    BY <1>5, <2>1 DEF Accounts!Go, AccountsInv, AccountsTypeOK
  <2>3. AccountTables' /\ OthersAreLeft(t)
    BY <1>1, <2>2 DEF AccountTables, OthersAreLeft, AccountsInv, AccountsTypeOK, Accounts!DraftsAreHeld
  <2>4. HoldsWhat(t)'
    <3>1. r.code \in Code /\ code[r.code].live /\ code[r.code].type = r.type
      BY <1>5 DEF Accounts!Latest, Accounts!Unspent
    <3>2. HoldsNothing(t)' /\ FindsAccount(accountRequest[t])'
      BY <1>1, <1>2, <2>1, <2>2 DEF HoldsNothing, FindsAccount
    <3>3. HoldsSpent(t)'
      BY <1>1, <1>2, <2>1, <2>2, <3>1, <3>2 DEF HoldsSpent, HoldsNothing, Accounts!Part
    <3>4. HoldsCodes(t)'
      BY <3>2 DEF HoldsNothing, HoldsCodes
    <3>5. FitsStage(q) /\ FitsType(q)
      BY <1>2, <1>3, <2>1 DEF FitsStage, FitsType
    <3>6. q.op \notin Creators
      BY <1>3, <2>1 DEF Creators, Spenders
    <3> QED BY <2>1, <2>2, <3>2, <3>3, <3>4, <3>5, <3>6 DEF HoldsWhat
  <2>5. ErasFit'
    BY <1>1, <1>3, <2>1, <2>2 DEF ErasFit, AccountsInv, Spenders
  <2>6. Accounts!AccountsAreWhole'
    BY <1>1, <2>2 DEF AccountsInv, Accounts!AccountsAreWhole, Accounts!User, Accounts!Active, Accounts!Idle
  <2> QED BY <2>3, <2>4, <2>5, <2>6, AccountsStep
<1> QED BY <1>4, <1>5 DEF Accounts!Match, Accounts!Continues, Accounts!Ends

LEMMA InsertAccountKeepsAccounts ==
    ASSUME AccountsInv, NEW t \in Tx, Accounts!InsertAccount(t) PROVE AccountsInv'
<1> DEFINE r == accountRequest[t]
           s == Accounts!AfterInsert(r.op)
           q == [r EXCEPT !.stage = s]
           rows == Accounts!Created(r.op)
<1>1. /\ r.stage = "insert" /\ \A p \in Accounts!Part : accountHolder[p] \in {NoTx, t}
      /\ accountDraft["user"].status = "none"
      /\ accountDraft' = rows /\ accountHolder' = [p \in Accounts!Part |-> t]
      /\ Accounts!Go(t, q)
      /\ UNCHANGED <<account, code, codeDraft, codeHolder, broken>>
  BY DEF Accounts!InsertAccount, Accounts!Continues, Accounts!Free, Accounts!AtCodes
<1>2. r \in AccountRequest /\ FitsStage(r) /\ FitsType(r) /\ HoldsNothing(t)
  BY <1>1, ServedFacts DEF AccountStages
<1>3. r.op \in Creators /\ r.opens
  BY <1>1, <1>2 DEF FitsStage
<1>4. /\ s \in AccountStages /\ s \in {"code", "commit"} /\ (s = "code" <=> r.op = "register")
      /\ q \in AccountRequest /\ q # Accounts!Idle
      /\ q.stage = s /\ q.op = r.op /\ q.type = r.type /\ q.code = r.code
      /\ q.era = r.era /\ q.opens = r.opens
  <2>1. s \in AccountStages /\ s \in {"code", "commit"} /\ (s = "code" <=> r.op = "register")
    BY DEF Accounts!AfterInsert, AccountStages
  <2> QED BY <1>2, <2>1, NextStage
<1>5. /\ IsAccount(rows) /\ rows["user"].era = 0
      /\ rows["user"].status \in {"PENDING", "ACTIVE"} /\ rows["security"].verified # "none"
  BY <1>3 DEF IsAccount, Accounts!Created, Accounts!Account, Accounts!Part, Accounts!UserRow,
     Accounts!SecurityRow, Creators
<1> HIDE DEF q, s, rows
<1>6. account["user"].status = "none" /\ \A p \in Accounts!Part : accountHolder[p] = NoTx
  BY <1>1, <1>2 DEF HoldsNothing, AccountsInv, AccountsTypeOK, Accounts!DraftsAreHeld, Accounts!Part
<1>7. /\ accountRequest' = [accountRequest EXCEPT ![t] = q] /\ accountRequest'[t] = q
      /\ accountRequest' \in [Tx -> AccountRequest \cup {Accounts!Idle}]
      /\ \A u \in Tx \ {t} : accountRequest'[u] = accountRequest[u]
  BY <1>1, <1>4 DEF Accounts!Go, AccountsInv, AccountsTypeOK
<1>8. AccountTables'
  <2>1. AccountsTypeOK'
    BY <1>1, <1>5, <1>7 DEF AccountsInv, AccountsTypeOK
  <2>2. Accounts!DraftsAreHeld(account, accountDraft, accountHolder)'
    BY <1>1, NoTxAssumption DEF Accounts!DraftsAreHeld
  <2>3. Accounts!DraftsAreHeld(code, codeDraft, codeHolder)'
    BY <1>1 DEF AccountsInv, Accounts!DraftsAreHeld
  <2> QED BY <2>1, <2>2, <2>3 DEF AccountTables
<1>9. OthersAreLeft(t)
  BY <1>1, <1>6, <1>7, NoTxAssumption DEF OthersAreLeft
<1>10. HoldsWhat(t)'
  <2>1. HoldsCodes(t)'
    BY <1>1, <1>2 DEF HoldsNothing, HoldsCodes
  <2>2. HoldsCreated(t)'
    BY <1>1, <1>4, <1>6, <1>7 DEF HoldsCreated, rows
  <2>3. FitsStage(q) /\ FitsType(q) /\ FindsAccount(accountRequest[t])'
    BY <1>2, <1>3, <1>4, <1>7 DEF FitsStage, FitsType, FindsAccount, Creators
  <2>4. q.op \notin Spenders
    BY <1>3, <1>4 DEF Creators, Spenders
  <2> QED BY <1>3, <1>4, <1>7, <2>1, <2>2, <2>3, <2>4 DEF HoldsWhat
<1>11. ErasFit'
  <2>1. ErasFit
    BY DEF AccountsInv
  <2>2. q.type = "SIGNUP" => q.era = 0
    <3>1. r # Accounts!Idle
      BY <1>1 DEF Accounts!Idle
    <3>2. r.type = "SIGNUP" => r.era = 0
      BY <1>1, <2>1, <3>1 DEF ErasFit
    <3> QED BY <1>4, <3>2
  <2>3. \A u \in Tx : LET x == accountRequest'[u] IN x # Accounts!Idle =>
          /\ x.stage \in {"insert", "cool", "code"} /\ x.type = "SIGNUP" => x.era = 0
          /\ x.op = "social" /\ x.stage \in {"status", "verified"} => x.era = 0
    BY <1>4, <1>7, <2>1, <2>2 DEF ErasFit
  <2>4. \A row \in {account["user"], rows["user"]} :
          /\ row.status \in {"none", "PENDING"} => row.era = 0
          /\ row.status = "none" => row.password = 0
          /\ row.status = "DEACTIVATED" => row.era > 0
    BY <1>5, <2>1 DEF ErasFit
  <2> QED BY <1>1, <2>1, <2>3, <2>4 DEF ErasFit
<1>12. Accounts!AccountsAreWhole'
  BY <1>1, <1>7 DEF AccountsInv, Accounts!AccountsAreWhole, Accounts!User, Accounts!Active, Accounts!Idle
<1> QED BY <1>8, <1>9, <1>10, <1>11, <1>12, AccountsStep
LEMMA InsertCodeKeepsAccounts ==
    ASSUME AccountsInv, NEW t \in Tx, Accounts!InsertCode(t)
    PROVE  AccountsInv' /\ account' = account /\ \A c \in Code : code'[c].used => code[c].used
<1> DEFINE r == accountRequest[t]
           q == [r EXCEPT !.stage = "commit"]
           row == [live |-> TRUE, type |-> r.type, used |-> FALSE, era |-> r.era]
<1>1. /\ r.stage = "code" /\ broken' = broken
      /\ UNCHANGED <<account, accountDraft, accountHolder>>
      /\ IF r.opens THEN Accounts!Go(t, q) ELSE Accounts!Go(t, Accounts!Idle)
  BY DEF Accounts!InsertCode, Accounts!Continues, Accounts!Ends, Accounts!AtAccount
<1>2. PICK c \in Code : ~codeDraft[c].live /\ Accounts!WriteCode(t, c, row)
  BY DEF Accounts!InsertCode
<1>3. /\ r \in AccountRequest /\ FitsStage(r) /\ FitsType(r) /\ FindsAccount(r) /\ HoldsCodes(t)
      /\ ~r.opens => HoldsNothing(t)
  BY <1>1, ServedFacts DEF AccountStages
<1>4. r.opens => r.op = "register" /\ HoldsCreated(t)
  BY <1>1, <1>3, ServedFacts DEF FitsStage, AccountStages, Creators
<1>5. row \in Accounts!CodeRow /\ row.live /\ row.type = r.type /\ ~row.used /\ row.era = r.era
  BY <1>3 DEF Accounts!CodeRow, AccountRequest
<1>6. r.type = "SIGNUP" => row.era = 0
  <2>1. r # Accounts!Idle /\ ErasFit
    BY <1>1 DEF Accounts!Idle, AccountsInv
  <2> QED BY <1>1, <1>5, <2>1 DEF ErasFit
<1>7. /\ q \in AccountRequest /\ q # Accounts!Idle
      /\ q.stage = "commit" /\ q.op = r.op /\ q.type = r.type /\ q.code = r.code
      /\ q.era = r.era /\ q.opens = r.opens
  BY <1>3, NextStage DEF AccountStages
<1> HIDE DEF q, row
<1>8. ~code[c].live
  <2>1. codeHolder[c] \in {NoTx, t}
    BY <1>2 DEF Accounts!WriteCode, Accounts!Free
  <2>2. codeHolder[c] = NoTx => codeDraft[c] = code[c]
    BY DEF AccountsInv, AccountsTypeOK, Accounts!DraftsAreHeld
  <2> QED BY <1>2, <1>3, <2>1, <2>2 DEF HoldsCodes
<1>9. CASE r.opens
  <2>1. Accounts!Go(t, q)
    BY <1>1, <1>9
  <2>2. /\ AccountTables' /\ OthersAreLeft(t) /\ accountRequest'[t] = q /\ code' = code
        /\ codeHolder'[c] = t /\ codeDraft'[c] = row
        /\ \A d \in Code \ {c} : codeHolder'[d] = codeHolder[d] /\ codeDraft'[d] = codeDraft[d]
    BY <1>1, <1>2, <1>5, <1>7, <1>9, <2>1, DraftsCode
  <2>3. HoldsWhat(t)'
    <3>1. HoldsCodes(t)'
      <4>1. \A d \in Code : codeHolder'[d] = t =>
              /\ code[d].live => codeDraft'[d].live /\ codeDraft'[d].type = code[d].type
              /\ codeDraft'[d].used /\ ~code[d].used => r.op \in Spenders /\ r.code = d
        BY <1>3, <1>5, <1>8, <2>2 DEF HoldsCodes
      <4> QED BY <1>7, <2>2, <4>1 DEF HoldsCodes
    <3>2. HoldsCreated(t)'
      <4>1. r.type = "SIGNUP"
        BY <1>3, <1>4, <1>9 DEF FitsType
      <4>2. \E d \in Code : codeHolder'[d] = t /\ codeDraft'[d].live /\ codeDraft'[d].type = "SIGNUP"
        BY <1>5, <2>2, <4>1
      <4> QED BY <1>1, <1>4, <1>7, <1>9, <2>2, <4>2 DEF HoldsCreated
    <3>3. FitsStage(q) /\ FitsType(q) /\ FindsAccount(accountRequest[t])'
      BY <1>3, <1>4, <1>7, <1>9, <2>2 DEF FitsStage, FitsType, FindsAccount, Creators
    <3>4. q.op \notin Spenders
      BY <1>4, <1>7, <1>9 DEF Spenders
    <3> QED BY <1>7, <1>9, <2>2, <3>1, <3>2, <3>3, <3>4 DEF HoldsWhat
  <2>4. ErasFit'
    <3>1. ErasFit
      BY DEF AccountsInv
    <3>2. \A u \in Tx : LET x == accountRequest'[u] IN x # Accounts!Idle =>
            /\ x.stage \in {"insert", "cool", "code"} /\ x.type = "SIGNUP" => x.era = 0
            /\ x.op = "social" /\ x.stage \in {"status", "verified"} => x.era = 0
      BY <1>7, <2>2, <3>1 DEF ErasFit, OthersAreLeft
    <3>3. \A d \in Code : \A e \in {code'[d], codeDraft'[d]} : e.type = "SIGNUP" => e.era = 0
      BY <1>5, <1>6, <2>2, <3>1 DEF ErasFit
    <3> QED BY <1>1, <3>1, <3>2, <3>3 DEF ErasFit
  <2>5. Accounts!AccountsAreWhole'
    BY <1>1, <2>2 DEF AccountsInv, Accounts!AccountsAreWhole, Accounts!User, Accounts!Active,
       OthersAreLeft
  <2> QED BY <1>1, <2>2, <2>3, <2>4, <2>5, AccountsStep
<1>10. CASE ~r.opens
  <2>1. Accounts!Go(t, Accounts!Idle)
    BY <1>1, <1>10
  <2>2. /\ AccountTables' /\ OthersAreLeft(t) /\ accountRequest'[t] = Accounts!Idle
        /\ codeHolder' = codeHolder /\ code'[c] = row /\ codeDraft'[c] = row
        /\ \A d \in Code \ {c} : code'[d] = code[d] /\ codeDraft'[d] = codeDraft[d]
    BY <1>1, <1>2, <1>5, <1>10, <2>1, WritesCode
  <2>3. HoldsWhat(t)'
    <3>1. HoldsNothing(t)'
      BY <1>1, <1>3, <1>10, <2>2 DEF HoldsNothing
    <3> QED BY <2>2, <3>1 DEF HoldsWhat
  <2>4. ErasFit'
    <3>1. ErasFit
      BY DEF AccountsInv
    <3>2. \A u \in Tx : LET x == accountRequest'[u] IN x # Accounts!Idle =>
            /\ x.stage \in {"insert", "cool", "code"} /\ x.type = "SIGNUP" => x.era = 0
            /\ x.op = "social" /\ x.stage \in {"status", "verified"} => x.era = 0
      BY <2>2, <3>1 DEF ErasFit, OthersAreLeft
    <3>3. \A d \in Code : \A e \in {code'[d], codeDraft'[d]} : e.type = "SIGNUP" => e.era = 0
      BY <1>5, <1>6, <2>2, <3>1 DEF ErasFit
    <3> QED BY <1>1, <3>1, <3>2, <3>3 DEF ErasFit
  <2>5. Accounts!AccountsAreWhole'
    BY <1>1, <2>2 DEF AccountsInv, Accounts!AccountsAreWhole, Accounts!User, Accounts!Active,
       OthersAreLeft, Accounts!Idle
  <2> QED BY <1>1, <1>5, <2>2, <2>3, <2>4, <2>5, AccountsStep
<1> QED BY <1>9, <1>10

LEMMA BurnKeepsAccounts ==
    ASSUME AccountsInv, NEW t \in Tx, Accounts!Burn(t)
    PROVE  AccountsInv' /\ account' = account /\ code' = code
<1> DEFINE r == accountRequest[t]
           s == IF r.op = "reset" THEN "password" ELSE IF r.type = "SIGNUP" THEN "status" ELSE "commit"
           q == [r EXCEPT !.stage = s]
           c == r.code
           row == [codeDraft[c] EXCEPT !.used = TRUE]
<1>1. /\ r.stage = "burn" /\ broken' = broken /\ Accounts!WriteCode(t, c, row) /\ Accounts!Go(t, q)
      /\ UNCHANGED <<account, accountDraft, accountHolder>>
  BY DEF Accounts!Burn, Accounts!Continues, Accounts!AtAccount
<1>2. /\ r \in AccountRequest /\ FitsStage(r) /\ FitsType(r) /\ FindsAccount(r) /\ HoldsNothing(t)
  BY <1>1, ServedFacts DEF AccountStages
<1>3. r.op \in Spenders /\ r.opens
  BY <1>1, <1>2 DEF FitsStage
<1>4. /\ HoldsSpent(t) /\ c \in Code /\ code[c].live /\ code[c].type = r.type
  <2>1. HoldsSpent(t)
    BY <1>1, <1>3, ServedFacts DEF AccountStages
  <2> QED BY <2>1 DEF HoldsSpent
<1>5. codeDraft[c] = code[c] /\ code[c] \in Accounts!CodeRow
  <2>1. codeHolder[c] \in {NoTx, t} /\ codeHolder[c] # t
    BY <1>1, <1>2, <1>3, <1>4 DEF Accounts!WriteCode, Accounts!Free, Accounts!InTx, HoldsNothing
  <2> QED BY <1>4, <2>1 DEF AccountsInv, AccountsTypeOK, Accounts!DraftsAreHeld
<1>6. row \in Accounts!CodeRow /\ row.live /\ row.type = code[c].type /\ row.era = code[c].era
  BY <1>4, <1>5 DEF Accounts!CodeRow
<1>7. /\ s \in AccountStages /\ q \in AccountRequest /\ q # Accounts!Idle
      /\ q.stage = s /\ q.op = r.op /\ q.type = r.type /\ q.code = r.code
      /\ q.era = r.era /\ q.opens = r.opens
  <2>1. s \in AccountStages
    BY DEF AccountStages
  <2> QED BY <1>2, <2>1, NextStage
<1>8. /\ s \in {"password", "status", "commit"} /\ (s = "password" <=> r.op = "reset")
      /\ s = "status" => r.op = "verify" /\ r.type = "SIGNUP"
      /\ s = "commit" => r.op = "verify" /\ r.type # "SIGNUP"
  BY <1>3 DEF Spenders
<1> HIDE DEF q, s, row
<1>9. /\ AccountTables' /\ OthersAreLeft(t) /\ accountRequest'[t] = q /\ code' = code
      /\ codeHolder'[c] = t /\ codeDraft'[c] = row
      /\ \A d \in Code \ {c} : codeHolder'[d] = codeHolder[d] /\ codeDraft'[d] = codeDraft[d]
  BY <1>1, <1>3, <1>4, <1>6, <1>7, DraftsCode
<1>10. HoldsWhat(t)'
  <2>1. HoldsCodes(t)'
    <3>1. \A d \in Code : codeHolder'[d] = t =>
            /\ code[d].live => codeDraft'[d].live /\ codeDraft'[d].type = code[d].type
            /\ codeDraft'[d].used /\ ~code[d].used => r.op \in Spenders /\ r.code = d
      BY <1>2, <1>3, <1>4, <1>6, <1>9 DEF HoldsNothing
    <3> QED BY <1>7, <1>9, <3>1 DEF HoldsCodes
  <2>2. HoldsSpent(t)'
    <3>1. accountHolder'["user"] # t /\ accountHolder'["security"] # t
      BY <1>1, <1>2 DEF HoldsNothing, Accounts!Part
    <3> QED BY <1>4, <1>7, <1>8, <1>9, <3>1 DEF HoldsSpent
  <2>3. FindsAccount(accountRequest[t])'
    BY <1>1, <1>2, <1>3, <1>7, <1>9 DEF FindsAccount, Creators, Spenders
  <2>4. FitsStage(q)
    BY <1>3, <1>7, <1>8 DEF FitsStage, Spenders, Creators
  <2>5. FitsType(q) /\ q.op \notin Creators
    BY <1>2, <1>3, <1>7 DEF FitsType, Creators, Spenders
  <2> QED BY <1>3, <1>7, <1>8, <1>9, <2>1, <2>2, <2>3, <2>4, <2>5 DEF HoldsWhat
<1>11. ErasFit'
  <2>1. ErasFit
    BY DEF AccountsInv
  <2>2. \A u \in Tx : LET x == accountRequest'[u] IN x # Accounts!Idle =>
          /\ x.stage \in {"insert", "cool", "code"} /\ x.type = "SIGNUP" => x.era = 0
          /\ x.op = "social" /\ x.stage \in {"status", "verified"} => x.era = 0
    BY <1>3, <1>7, <1>8, <1>9, <2>1 DEF ErasFit, OthersAreLeft, Spenders
  <2>3. \A d \in Code : \A e \in {code'[d], codeDraft'[d]} : e.type = "SIGNUP" => e.era = 0
    BY <1>4, <1>6, <1>9, <2>1 DEF ErasFit
  <2> QED BY <1>1, <2>1, <2>2, <2>3 DEF ErasFit
<1>12. Accounts!AccountsAreWhole'
  BY <1>1, <1>9 DEF AccountsInv, Accounts!AccountsAreWhole, Accounts!User, Accounts!Active,
     OthersAreLeft, Accounts!Idle
<1> QED BY <1>1, <1>9, <1>10, <1>11, <1>12, AccountsStep
\* What t does not hold, and may write, is as committed.
LEMMA UserAsCommitted ==
    ASSUME AccountsInv, NEW t \in Tx, NEW p \in Accounts!Part, NEW row, Accounts!WriteAccount(t, p, row)
    PROVE  /\ accountHolder[p] \in {NoTx, t}
           /\ ~accountRequest[t].opens => accountHolder[p] = NoTx
           /\ accountHolder[p] = NoTx => accountDraft[p] = account[p]
           /\ accountDraft["user"] \in Accounts!UserRow /\ account["user"] \in Accounts!UserRow
           /\ code' = code
BY DEF AccountsInv, AccountsTypeOK, IsAccount, Accounts!DraftsAreHeld, Accounts!WriteAccount,
   Accounts!Free, Accounts!InTx, Accounts!AtCodes

LEMMA SetActiveKeepsAccounts ==
    ASSUME AccountsInv, NEW t \in Tx, Accounts!SetActive(t)
    PROVE  /\ AccountsInv' /\ code' = code
           /\ \/ account' = account
              \/ accountRequest[t].op = "social" /\ accountRequest[t].era = 0
<1> DEFINE r == accountRequest[t]
           q == [r EXCEPT !.stage = "verified"]
           row == [accountDraft["user"] EXCEPT !.status = "ACTIVE"]
<1>1. /\ r.stage = "status" /\ broken' = broken /\ Accounts!WriteAccount(t, "user", row)
      /\ Accounts!Go(t, q)
  BY DEF Accounts!SetActive, Accounts!Continues
<1>2. /\ r \in AccountRequest /\ FitsStage(r) /\ FitsType(r) /\ FindsAccount(r) /\ HoldsCodes(t)
      /\ ~r.opens => HoldsNothing(t)
  BY <1>1, ServedFacts DEF AccountStages
<1>3. \/ r.op = "social" /\ ~r.opens /\ r.era = 0
      \/ r.op = "verify" /\ r.type = "SIGNUP" /\ r.opens /\ HoldsSpent(t)
  <2>1. r # Accounts!Idle /\ ErasFit
    BY <1>1 DEF Accounts!Idle, AccountsInv
  <2>2. r.op = "social" => r.era = 0
    BY <1>1, <2>1 DEF ErasFit
  <2>3. r.op = "verify" => HoldsSpent(t)
    BY <1>1, ServedFacts DEF AccountStages, Spenders
  <2> QED BY <1>1, <1>2, <2>2, <2>3 DEF FitsStage
<1>4. /\ "user" \in Accounts!Part /\ "security" \in Accounts!Part
      /\ \A p \in Accounts!Part : p = "user" \/ p = "security"
  BY DEF Accounts!Part
<1>5. /\ accountHolder["user"] \in {NoTx, t}
      /\ accountHolder["user"] = NoTx => accountDraft["user"] = account["user"]
      /\ accountDraft["user"] \in Accounts!UserRow /\ code' = code
  BY <1>1, <1>4, UserAsCommitted
<1>6. /\ row \in Accounts!UserRow /\ row.status = "ACTIVE" /\ FitsPart("user", row)
  BY <1>5 DEF Accounts!UserRow, FitsPart
<1>7. /\ q \in AccountRequest /\ q # Accounts!Idle
      /\ q.stage = "verified" /\ q.op = r.op /\ q.type = r.type /\ q.code = r.code
      /\ q.era = r.era /\ q.opens = r.opens
  BY <1>2, NextStage DEF AccountStages
<1>8. FitsStage(q) /\ FitsType(q)
  BY <1>2, <1>3, <1>7 DEF FitsStage, FitsType
<1> HIDE DEF q, row
<1>9. ErasFit
  BY DEF AccountsInv
<1>10. CASE r.op = "social" /\ ~r.opens /\ r.era = 0
  <2>1. /\ AccountTables' /\ OthersAreLeft(t) /\ accountRequest'[t] = q
        /\ accountHolder["user"] = NoTx /\ accountHolder' = accountHolder
        /\ account'["user"] = row /\ accountDraft'["user"] = row
        /\ account'["security"] = account["security"]
        /\ codeDraft' = codeDraft /\ codeHolder' = codeHolder
    BY <1>1, <1>4, <1>6, <1>7, <1>10, WritesPart
  <2>2. HoldsNothing(t)' /\ HoldsCodes(t)'
    BY <1>2, <1>10, <2>1 DEF HoldsNothing, HoldsCodes
  <2>3. HoldsWhat(t)'
    <3>1. FindsAccount(accountRequest[t])'
      BY <1>6, <2>1 DEF FindsAccount
    <3> QED BY <1>7, <1>8, <1>10, <2>1, <2>2, <3>1 DEF HoldsWhat, Spenders
  <2>4. ErasFit'
    <3>1. \A u \in Tx : LET x == accountRequest'[u] IN x # Accounts!Idle =>
            /\ x.stage \in {"insert", "cool", "code"} /\ x.type = "SIGNUP" => x.era = 0
            /\ x.op = "social" /\ x.stage \in {"status", "verified"} => x.era = 0
      BY <1>7, <1>9, <1>10, <2>1 DEF ErasFit, OthersAreLeft
    <3> QED BY <1>5, <1>6, <1>9, <2>1, <3>1 DEF ErasFit
  <2>5. Accounts!AccountsAreWhole'
    <3>1. Accounts!AccountsAreWhole /\ account["user"].status # "none"
      BY <1>1, <1>2, <1>10 DEF AccountsInv, FindsAccount
    <3>2. t \in Accounts!Active'
      BY <1>7, <2>1 DEF Accounts!Active
    <3> QED BY <1>6, <1>7, <1>10, <2>1, <3>1, <3>2 DEF Accounts!AccountsAreWhole, Accounts!User
  <2> QED BY <1>5, <1>10, <2>1, <2>3, <2>4, <2>5, AccountsStep
<1>11. CASE r.op = "verify" /\ r.type = "SIGNUP" /\ r.opens /\ HoldsSpent(t)
  <2>1. /\ AccountTables' /\ OthersAreLeft(t) /\ accountRequest'[t] = q /\ account' = account
        /\ codeDraft' = codeDraft /\ codeHolder' = codeHolder
        /\ accountHolder'["user"] = t /\ accountDraft'["user"] = row
        /\ accountHolder'["security"] = accountHolder["security"]
        /\ accountDraft'["security"] = accountDraft["security"]
    BY <1>1, <1>4, <1>6, <1>7, <1>11, DraftsPart
  <2>2. HoldsCodes(t)'
    BY <1>2, <1>5, <1>7, <2>1 DEF HoldsCodes
  <2>3. HoldsSpent(t)'
    BY <1>1, <1>5, <1>6, <1>7, <1>11, <2>1 DEF HoldsSpent
  <2>4. FindsAccount(accountRequest[t])'
    BY <1>1, <1>2, <1>7, <1>11, <2>1 DEF FindsAccount, Creators
  <2>5. HoldsWhat(t)'
    BY <1>7, <1>8, <1>11, <2>1, <2>2, <2>3, <2>4 DEF HoldsWhat, Creators
  <2>6. ErasFit'
    <3>1. \A u \in Tx : LET x == accountRequest'[u] IN x # Accounts!Idle =>
            /\ x.stage \in {"insert", "cool", "code"} /\ x.type = "SIGNUP" => x.era = 0
            /\ x.op = "social" /\ x.stage \in {"status", "verified"} => x.era = 0
      BY <1>7, <1>9, <1>11, <2>1 DEF ErasFit, OthersAreLeft
    <3> QED BY <1>5, <1>6, <1>9, <2>1, <3>1 DEF ErasFit
  <2>7. Accounts!AccountsAreWhole'
    BY <1>1, <1>5, <2>1 DEF AccountsInv, Accounts!AccountsAreWhole, Accounts!User, Accounts!Active,
       OthersAreLeft, Accounts!Idle
  <2> QED BY <1>5, <2>1, <2>5, <2>6, <2>7, AccountsStep
<1> QED BY <1>3, <1>10, <1>11

LEMMA SetVerifiedKeepsAccounts ==
    ASSUME AccountsInv, NEW t \in Tx, Accounts!SetVerified(t)
    PROVE  AccountsInv' /\ code' = code /\ account'["user"] = account["user"]
<1> DEFINE r == accountRequest[t]
           q == [r EXCEPT !.stage = "commit"]
           row == [verified |-> "yes"]
<1>1. /\ r.stage = "verified" /\ broken' = broken /\ Accounts!WriteAccount(t, "security", row)
      /\ IF r.opens THEN Accounts!Go(t, q) ELSE Accounts!Go(t, Accounts!Idle)
  BY DEF Accounts!SetVerified, Accounts!Continues, Accounts!Ends
<1>2. /\ r \in AccountRequest /\ FitsStage(r) /\ FitsType(r) /\ FindsAccount(r) /\ HoldsCodes(t)
      /\ ~r.opens => HoldsNothing(t)
  BY <1>1, ServedFacts DEF AccountStages
<1>3. \/ r.op = "social" /\ ~r.opens
      \/ r.op = "verify" /\ r.type = "SIGNUP" /\ r.opens /\ HoldsSpent(t)
  <2>1. r.op = "verify" => HoldsSpent(t)
    BY <1>1, ServedFacts DEF AccountStages, Spenders
  <2> QED BY <1>1, <1>2, <2>1 DEF FitsStage
<1>4. /\ "user" \in Accounts!Part /\ "security" \in Accounts!Part
      /\ \A p \in Accounts!Part : p = "user" \/ p = "security"
  BY DEF Accounts!Part
<1>5. code' = code
  BY <1>1, <1>4, UserAsCommitted
<1>6. /\ row.verified = "yes" /\ FitsPart("security", row)
  BY DEF Accounts!SecurityRow, FitsPart
<1>7. /\ q \in AccountRequest /\ q # Accounts!Idle
      /\ q.stage = "commit" /\ q.op = r.op /\ q.type = r.type /\ q.code = r.code
      /\ q.era = r.era /\ q.opens = r.opens
  BY <1>2, NextStage DEF AccountStages
<1> HIDE DEF q, row
<1>8. ErasFit
  BY DEF AccountsInv
<1>9. CASE r.op = "social" /\ ~r.opens
  <2>0. Accounts!Go(t, Accounts!Idle)
    BY <1>1, <1>9
  <2>1. /\ AccountTables' /\ OthersAreLeft(t) /\ accountRequest'[t] = Accounts!Idle
        /\ accountHolder' = accountHolder
        /\ account'["security"] = row /\ account'["user"] = account["user"]
        /\ accountDraft'["user"] = accountDraft["user"]
        /\ codeDraft' = codeDraft /\ codeHolder' = codeHolder
    BY <1>1, <1>4, <1>6, <1>9, <2>0, WritesPart
  <2>2. HoldsWhat(t)'
    <3>1. HoldsNothing(t)'
      BY <1>2, <1>9, <2>1 DEF HoldsNothing
    <3> QED BY <2>1, <3>1 DEF HoldsWhat
  <2>3. ErasFit'
    <3>1. \A u \in Tx : LET x == accountRequest'[u] IN x # Accounts!Idle =>
            /\ x.stage \in {"insert", "cool", "code"} /\ x.type = "SIGNUP" => x.era = 0
            /\ x.op = "social" /\ x.stage \in {"status", "verified"} => x.era = 0
      BY <1>8, <2>1 DEF ErasFit, OthersAreLeft
    <3> QED BY <1>5, <1>8, <2>1, <3>1 DEF ErasFit
  <2>4. Accounts!AccountsAreWhole'
    <3>1. Accounts!AccountsAreWhole /\ account["user"].status # "none"
      BY <1>1, <1>2, <1>9 DEF AccountsInv, FindsAccount
    <3> QED BY <1>5, <1>6, <2>1, <3>1 DEF Accounts!AccountsAreWhole, Accounts!User
  <2> QED BY <1>5, <2>1, <2>2, <2>3, <2>4, AccountsStep
<1>10. CASE r.op = "verify" /\ r.type = "SIGNUP" /\ r.opens /\ HoldsSpent(t)
  <2>0. Accounts!Go(t, q)
    BY <1>1, <1>10
  <2>1. /\ AccountTables' /\ OthersAreLeft(t) /\ accountRequest'[t] = q /\ account' = account
        /\ codeDraft' = codeDraft /\ codeHolder' = codeHolder
        /\ accountHolder'["security"] = t /\ accountDraft'["security"] = row
        /\ accountHolder'["user"] = accountHolder["user"]
        /\ accountDraft'["user"] = accountDraft["user"]
    BY <1>1, <1>4, <1>6, <1>7, <1>10, <2>0, DraftsPart
  <2>2. HoldsCodes(t)'
    BY <1>2, <1>5, <1>7, <2>1 DEF HoldsCodes
  <2>3. HoldsSpent(t)'
    BY <1>1, <1>5, <1>6, <1>7, <1>10, <2>1 DEF HoldsSpent
  <2>4. FindsAccount(accountRequest[t])'
    BY <1>1, <1>2, <1>7, <1>10, <2>1 DEF FindsAccount, Creators
  <2>5. HoldsWhat(t)'
    <3>1. FitsStage(q) /\ FitsType(q)
      BY <1>2, <1>7, <1>10 DEF FitsStage, FitsType, Spenders
    <3> QED BY <1>7, <1>10, <2>1, <2>2, <2>3, <2>4, <3>1 DEF HoldsWhat, Creators
  <2>6. ErasFit'
    <3>1. \A u \in Tx : LET x == accountRequest'[u] IN x # Accounts!Idle =>
            /\ x.stage \in {"insert", "cool", "code"} /\ x.type = "SIGNUP" => x.era = 0
            /\ x.op = "social" /\ x.stage \in {"status", "verified"} => x.era = 0
      BY <1>7, <1>8, <1>10, <2>1 DEF ErasFit, OthersAreLeft
    <3> QED BY <1>5, <1>8, <2>1, <3>1 DEF ErasFit
  <2>7. Accounts!AccountsAreWhole'
    <3>1. r.op # "social"
      BY <1>10
    <3> QED BY <1>1, <1>5, <1>10, <2>1 DEF AccountsInv, Accounts!AccountsAreWhole, Accounts!User,
               Accounts!Active, OthersAreLeft, Accounts!Idle
  <2> QED BY <1>5, <2>1, <2>5, <2>6, <2>7, AccountsStep
<1> QED BY <1>3, <1>9, <1>10
LEMMA SetPasswordKeepsAccounts ==
    ASSUME AccountsInv, NEW t \in Tx, Accounts!SetPassword(t)
    PROVE  AccountsInv' /\ code' = code /\ account'["user"].status = account["user"].status
<1> DEFINE r == accountRequest[t]
           q == [r EXCEPT !.stage = "commit"]
           row == [accountDraft["user"] EXCEPT !.password = @ + 1]
<1>1. /\ r.stage = "password" /\ broken' = broken /\ Accounts!WriteAccount(t, "user", row)
      /\ IF r.opens THEN Accounts!Go(t, q) ELSE Accounts!Go(t, Accounts!Idle)
  BY DEF Accounts!SetPassword, Accounts!Continues, Accounts!Ends
<1>2. /\ r \in AccountRequest /\ FitsStage(r) /\ FitsType(r) /\ FindsAccount(r) /\ HoldsCodes(t)
      /\ ~r.opens => HoldsNothing(t)
  BY <1>1, ServedFacts DEF AccountStages
<1>3. \/ r.op = "change" /\ ~r.opens
      \/ r.op = "reset" /\ r.opens /\ HoldsSpent(t)
  <2>1. r.op = "reset" => HoldsSpent(t)
    BY <1>1, ServedFacts DEF AccountStages, Spenders
  <2> QED BY <1>1, <1>2, <2>1 DEF FitsStage
<1>4. /\ "user" \in Accounts!Part /\ "security" \in Accounts!Part
      /\ \A p \in Accounts!Part : p = "user" \/ p = "security"
  BY DEF Accounts!Part
<1>5. /\ accountDraft["user"] = account["user"] /\ account["user"] \in Accounts!UserRow /\ code' = code
      /\ account["user"].status # "none"
  <2>1. accountHolder["user"] # t
    BY <1>1, <1>2, <1>3, <1>4 DEF HoldsNothing, HoldsSpent
  <2>2. account["user"].status # "none"
    BY <1>1, <1>2, <1>3 DEF FindsAccount, Creators
  <2> QED BY <1>1, <1>4, <2>1, <2>2, UserAsCommitted
<1>6. /\ row \in Accounts!UserRow /\ row.status = account["user"].status /\ row.era = account["user"].era
      /\ row.password = account["user"].password + 1 /\ FitsPart("user", row)
  BY <1>5 DEF Accounts!UserRow, FitsPart
<1>7. /\ q \in AccountRequest /\ q # Accounts!Idle
      /\ q.stage = "commit" /\ q.op = r.op /\ q.type = r.type /\ q.code = r.code
      /\ q.era = r.era /\ q.opens = r.opens
  BY <1>2, NextStage DEF AccountStages
<1> HIDE DEF q, row
<1>8. ErasFit
  BY DEF AccountsInv
<1>9. CASE r.op = "change" /\ ~r.opens
  <2>0. Accounts!Go(t, Accounts!Idle)
    BY <1>1, <1>9
  <2>1. /\ AccountTables' /\ OthersAreLeft(t) /\ accountRequest'[t] = Accounts!Idle
        /\ accountHolder' = accountHolder
        /\ account'["user"] = row /\ accountDraft'["user"] = row
        /\ account'["security"] = account["security"]
        /\ codeDraft' = codeDraft /\ codeHolder' = codeHolder
    BY <1>1, <1>4, <1>5, <1>6, <1>9, <2>0, WritesPart
  <2>2. HoldsWhat(t)'
    <3>1. HoldsNothing(t)'
      BY <1>2, <1>5, <1>9, <2>1 DEF HoldsNothing
    <3> QED BY <2>1, <3>1 DEF HoldsWhat
  <2>3. ErasFit'
    <3>1. \A u \in Tx : LET x == accountRequest'[u] IN x # Accounts!Idle =>
            /\ x.stage \in {"insert", "cool", "code"} /\ x.type = "SIGNUP" => x.era = 0
            /\ x.op = "social" /\ x.stage \in {"status", "verified"} => x.era = 0
      BY <1>8, <2>1 DEF ErasFit, OthersAreLeft
    <3>2. account["user"].status # "none"
      BY <1>5
    <3> QED BY <1>5, <1>6, <1>8, <2>1, <3>1 DEF ErasFit
  <2>4. Accounts!AccountsAreWhole'
    BY <1>1, <1>5, <1>6, <2>1 DEF AccountsInv, Accounts!AccountsAreWhole, Accounts!User,
       Accounts!Active, OthersAreLeft, Accounts!Idle
  <2> QED BY <1>5, <1>6, <2>1, <2>2, <2>3, <2>4, AccountsStep
<1>10. CASE r.op = "reset" /\ r.opens /\ HoldsSpent(t)
  <2>0. Accounts!Go(t, q)
    BY <1>1, <1>10
  <2>1. /\ AccountTables' /\ OthersAreLeft(t) /\ accountRequest'[t] = q /\ account' = account
        /\ codeDraft' = codeDraft /\ codeHolder' = codeHolder
        /\ accountHolder'["user"] = t /\ accountDraft'["user"] = row
        /\ accountHolder'["security"] = accountHolder["security"]
        /\ accountDraft'["security"] = accountDraft["security"]
    BY <1>1, <1>4, <1>6, <1>7, <1>10, <2>0, DraftsPart
  <2>2. HoldsCodes(t)'
    BY <1>2, <1>5, <1>7, <2>1 DEF HoldsCodes
  <2>3. HoldsSpent(t)'
    <3>1. row.password > account["user"].password
      BY <1>5, <1>6 DEF Accounts!UserRow
    <3> QED BY <1>1, <1>5, <1>6, <1>7, <1>10, <2>1, <3>1 DEF HoldsSpent
  <2>4. FindsAccount(accountRequest[t])'
    BY <1>1, <1>2, <1>7, <1>10, <2>1 DEF FindsAccount, Creators
  <2>5. HoldsWhat(t)'
    <3>1. FitsStage(q) /\ FitsType(q)
      BY <1>2, <1>7, <1>10 DEF FitsStage, FitsType, Spenders
    <3> QED BY <1>7, <1>10, <2>1, <2>2, <2>3, <2>4, <3>1 DEF HoldsWhat, Creators
  <2>6. ErasFit'
    <3>1. \A u \in Tx : LET x == accountRequest'[u] IN x # Accounts!Idle =>
            /\ x.stage \in {"insert", "cool", "code"} /\ x.type = "SIGNUP" => x.era = 0
            /\ x.op = "social" /\ x.stage \in {"status", "verified"} => x.era = 0
      BY <1>7, <1>8, <1>10, <2>1 DEF ErasFit, OthersAreLeft
    <3> QED BY <1>5, <1>6, <1>8, <2>1, <3>1 DEF ErasFit
  <2>7. Accounts!AccountsAreWhole'
    BY <1>1, <1>5, <2>1 DEF AccountsInv, Accounts!AccountsAreWhole, Accounts!User, Accounts!Active,
       OthersAreLeft, Accounts!Idle
  <2> QED BY <1>5, <2>1, <2>5, <2>6, <2>7, AccountsStep
<1> QED BY <1>3, <1>9, <1>10

LEMMA DeactivateKeepsAccounts ==
    ASSUME AccountsInv, NEW t \in Tx, Accounts!Deactivate(t)
    PROVE  AccountsInv' /\ code' = code /\ account'["user"].status = "DEACTIVATED"
<1> DEFINE r == accountRequest[t]
           row == [accountDraft["user"] EXCEPT !.status = "DEACTIVATED", !.era = @ + 1]
<1>1. /\ r.stage = "deactivate" /\ broken' = broken /\ Accounts!WriteAccount(t, "user", row)
      /\ Accounts!Go(t, Accounts!Idle)
  BY DEF Accounts!Deactivate, Accounts!Ends
<1>2. FitsStage(r) /\ FindsAccount(r) /\ (~r.opens => HoldsNothing(t))
  BY <1>1, ServedFacts DEF AccountStages
<1>3. r.op = "deactivate" /\ ~r.opens /\ HoldsNothing(t) /\ account["user"].status # "none"
  BY <1>1, <1>2 DEF FitsStage, FindsAccount
<1>4. /\ "user" \in Accounts!Part /\ "security" \in Accounts!Part
      /\ \A p \in Accounts!Part : p = "user" \/ p = "security"
  BY DEF Accounts!Part
<1>5. accountDraft["user"] = account["user"] /\ account["user"] \in Accounts!UserRow /\ code' = code
  BY <1>1, <1>3, <1>4, UserAsCommitted
<1>6. /\ row \in Accounts!UserRow /\ row.status = "DEACTIVATED" /\ row.era > 0 /\ FitsPart("user", row)
  <2>1. account["user"].era \in Nat
    BY <1>5 DEF Accounts!UserRow
  <2>2. row.status = "DEACTIVATED" /\ row.era = account["user"].era + 1
    BY <1>5 DEF Accounts!UserRow
  <2>3. account["user"].era + 1 \in Nat /\ account["user"].era + 1 > 0
    BY <2>1
  <2>4. row \in Accounts!UserRow
    BY <1>5, <2>3 DEF Accounts!UserRow
  <2> QED BY <2>2, <2>3, <2>4 DEF FitsPart
<1> HIDE DEF row
<1>7. /\ AccountTables' /\ OthersAreLeft(t) /\ accountRequest'[t] = Accounts!Idle
      /\ accountHolder' = accountHolder
      /\ account'["user"] = row /\ accountDraft'["user"] = row
      /\ account'["security"] = account["security"]
      /\ codeDraft' = codeDraft /\ codeHolder' = codeHolder
  BY <1>1, <1>3, <1>4, <1>6, WritesPart
<1>8. HoldsWhat(t)'
  <2>1. HoldsNothing(t)'
    BY <1>3, <1>5, <1>7 DEF HoldsNothing
  <2> QED BY <1>7, <2>1 DEF HoldsWhat
<1>9. ErasFit'
  <2>1. ErasFit
    BY DEF AccountsInv
  <2>2. \A u \in Tx : LET x == accountRequest'[u] IN x # Accounts!Idle =>
          /\ x.stage \in {"insert", "cool", "code"} /\ x.type = "SIGNUP" => x.era = 0
          /\ x.op = "social" /\ x.stage \in {"status", "verified"} => x.era = 0
    BY <1>7, <2>1 DEF ErasFit, OthersAreLeft
  <2> QED BY <1>5, <1>6, <1>7, <2>1, <2>2 DEF ErasFit
<1>10. Accounts!AccountsAreWhole'
  BY <1>3, <1>6, <1>7 DEF AccountsInv, Accounts!AccountsAreWhole, Accounts!User
<1> QED BY <1>5, <1>6, <1>7, <1>8, <1>9, <1>10, AccountsStep

\* What a commit makes visible.
LEMMA CommitShows ==
    ASSUME AccountsInv, NEW t \in Tx, Accounts!Commit(t)
    PROVE  LET r == accountRequest[t] IN
           /\ account' = [p \in Accounts!Part |->
                             IF accountHolder[p] = t THEN accountDraft[p] ELSE account[p]]
           /\ code' = [c \in Code |-> IF codeHolder[c] = t THEN codeDraft[c] ELSE code[c]]
           /\ r.opens /\ FitsType(r) /\ HoldsCodes(t)
           /\ \/ /\ r.op \in Creators /\ account["user"].status = "none"
                 /\ account'["user"] = Accounts!Created(r.op)["user"]
                 /\ account'["security"] = Accounts!Created(r.op)["security"]
                 /\ r.op = "register" => \E c \in Code : code'[c].live /\ code'[c].type = "SIGNUP"
              \/ /\ r.op \in Spenders /\ account["user"].status # "none"
                 /\ r.code \in Code /\ code[r.code].live /\ code[r.code].type = r.type
                 /\ r.op = "reset" => /\ account'["user"].status = account["user"].status
                                      /\ account'["user"].password > account["user"].password
                                      /\ account'["security"] = account["security"]
                 /\ r.op = "verify" /\ r.type = "SIGNUP" =>
                       account'["user"].status = "ACTIVE" /\ account'["security"].verified = "yes"
                 /\ r.op = "verify" /\ r.type # "SIGNUP" => account' = account
<1> DEFINE r == accountRequest[t]
<1>1. r.stage = "commit"
  BY DEF Accounts!Commit
<1>2. /\ account' = [p \in Accounts!Part |->
                        IF accountHolder[p] = t THEN accountDraft[p] ELSE account[p]]
      /\ code' = [c \in Code |-> IF codeHolder[c] = t THEN codeDraft[c] ELSE code[c]]
  <2>1. DOMAIN accountHolder = Accounts!Part /\ DOMAIN codeHolder = Code
    BY DEF AccountsInv, AccountsTypeOK
  <2> QED BY <2>1 DEF Accounts!Commit, Accounts!View
<1>3. /\ FitsStage(r) /\ FitsType(r) /\ FindsAccount(r) /\ HoldsCodes(t)
      /\ r.opens /\ r.op \in Creators => HoldsCreated(t)
      /\ r.op \in Spenders => HoldsSpent(t)
  BY <1>1, ServedFacts DEF AccountStages
<1>4. r.op \in Creators \cup Spenders /\ r.opens
  BY <1>1, <1>3 DEF FitsStage
<1>5. "user" \in Accounts!Part /\ "security" \in Accounts!Part
  BY DEF Accounts!Part
<1>6. CASE r.op \in Creators
  <2>1. HoldsCreated(t)
    BY <1>3, <1>4, <1>6
  <2>2. r.op = "register" => \E c \in Code : code'[c].live /\ code'[c].type = "SIGNUP"
    BY <1>1, <1>2, <2>1 DEF HoldsCreated
  <2>3. /\ account["user"].status = "none"
        /\ account'["user"] = Accounts!Created(r.op)["user"]
        /\ account'["security"] = Accounts!Created(r.op)["security"]
    BY <1>2, <1>5, <2>1 DEF HoldsCreated
  <2> QED BY <1>2, <1>3, <1>4, <1>6, <2>2, <2>3
<1>7. CASE r.op \in Spenders
  <2>1. HoldsSpent(t)
    BY <1>3, <1>7
  <2>2. account["user"].status # "none"
    BY <1>1, <1>3, <1>7 DEF FindsAccount, Creators, Spenders
  <2>3. r.op = "verify" /\ r.type # "SIGNUP" => account' = account
    <3>1. SUFFICES ASSUME r.op = "verify", r.type # "SIGNUP" PROVE account' = account
      OBVIOUS
    <3>2. \A p \in Accounts!Part : accountHolder[p] # t
      BY <2>1, <3>1 DEF HoldsSpent, Accounts!Part
    <3>3. account = [p \in Accounts!Part |-> account[p]]
      BY DEF AccountsInv, AccountsTypeOK, IsAccount
    <3> QED BY <1>2, <3>2, <3>3
  <2>4. r.op = "reset" => /\ account'["user"].status = account["user"].status
                          /\ account'["user"].password > account["user"].password
                          /\ account'["security"] = account["security"]
    BY <1>1, <1>2, <1>5, <2>1 DEF HoldsSpent
  <2>5. r.op = "verify" /\ r.type = "SIGNUP" =>
           account'["user"].status = "ACTIVE" /\ account'["security"].verified = "yes"
    BY <1>1, <1>2, <1>5, <2>1 DEF HoldsSpent
  <2>6. r.code \in Code /\ code[r.code].live /\ code[r.code].type = r.type
    BY <2>1 DEF HoldsSpent
  <2> QED BY <1>2, <1>3, <1>4, <1>7, <2>2, <2>3, <2>4, <2>5, <2>6
<1> QED BY <1>4, <1>6, <1>7
LEMMA CommitKeepsAccounts == ASSUME AccountsInv, NEW t \in Tx, Accounts!Commit(t) PROVE AccountsInv'
<1> DEFINE r == accountRequest[t]
<1>1. /\ accountHolder' = [p \in Accounts!Part |-> IF accountHolder[p] = t THEN NoTx ELSE accountHolder[p]]
      /\ codeHolder' = [c \in Code |-> IF codeHolder[c] = t THEN NoTx ELSE codeHolder[c]]
      /\ UNCHANGED <<accountDraft, codeDraft, broken>> /\ Accounts!Go(t, Accounts!Idle)
      /\ r.stage = "commit"
  <2>1. DOMAIN accountHolder = Accounts!Part /\ DOMAIN codeHolder = Code
    BY DEF AccountsInv, AccountsTypeOK
  <2> QED BY <2>1 DEF Accounts!Commit, Accounts!Release, Accounts!Unlock, Accounts!Ends
<1>2. /\ account' = [p \in Accounts!Part |-> IF accountHolder[p] = t THEN accountDraft[p] ELSE account[p]]
      /\ code' = [c \in Code |-> IF codeHolder[c] = t THEN codeDraft[c] ELSE code[c]]
      /\ HoldsCodes(t)
  BY CommitShows
<1>3. /\ accountRequest' = [accountRequest EXCEPT ![t] = Accounts!Idle] /\ accountRequest'[t] = Accounts!Idle
      /\ accountRequest' \in [Tx -> AccountRequest \cup {Accounts!Idle}]
      /\ \A u \in Tx \ {t} : accountRequest'[u] = accountRequest[u]
  BY <1>1 DEF Accounts!Go, AccountsInv, AccountsTypeOK
<1>4. \A c \in Code : code[c].live => code'[c].live /\ code'[c].type = code[c].type
  BY <1>2 DEF HoldsCodes
<1>5. AccountTables'
  <2>1. IsAccount(account')
    BY <1>2 DEF AccountsInv, AccountsTypeOK, IsAccount, Accounts!Part
  <2>2. /\ accountHolder' \in [Accounts!Part -> Tx \cup {NoTx}] /\ codeHolder' \in [Code -> Tx \cup {NoTx}]
        /\ code' \in [Code -> Accounts!CodeRow]
    BY <1>1, <1>2 DEF AccountsInv, AccountsTypeOK
  <2>3. AccountsTypeOK'
    BY <1>1, <1>3, <2>1, <2>2 DEF AccountsInv, AccountsTypeOK
  <2>4. Accounts!DraftsAreHeld(account, accountDraft, accountHolder)'
    BY <1>1, <1>2, NoTxAssumption DEF AccountsInv, AccountsTypeOK, Accounts!DraftsAreHeld
  <2>5. Accounts!DraftsAreHeld(code, codeDraft, codeHolder)'
    BY <1>1, <1>2, NoTxAssumption DEF AccountsInv, AccountsTypeOK, Accounts!DraftsAreHeld
  <2> QED BY <2>3, <2>4, <2>5 DEF AccountTables
<1>6. account'["user"].status # "none"
  <2>1. r.op \in Creators => Accounts!Created(r.op)["user"].status # "none"
    BY DEF Accounts!Created, Accounts!Account, Accounts!Part, Creators
  <2>2. r.op \in Spenders => r.op = "reset" \/ r.op = "verify"
    BY DEF Spenders
  <2> QED BY <2>1, <2>2, CommitShows
<1>7. OthersAreLeft(t)
  <2>1. \A u \in Tx \ {t}, p \in Accounts!Part :
          /\ accountHolder'[p] = u <=> accountHolder[p] = u
          /\ accountHolder[p] = u => accountDraft'[p] = accountDraft[p] /\ account'[p] = account[p]
    BY <1>1, <1>2, NoTxAssumption
  <2>2. \A u \in Tx \ {t}, c \in Code :
          /\ codeHolder'[c] = u <=> codeHolder[c] = u
          /\ codeHolder[c] = u => codeDraft'[c] = codeDraft[c] /\ code'[c] = code[c]
    BY <1>1, <1>2, NoTxAssumption
  <2> QED BY <1>3, <1>4, <1>6, <2>1, <2>2 DEF OthersAreLeft
<1>8. HoldsWhat(t)'
  <2>1. HoldsNothing(t)'
    BY <1>1, NoTxAssumption DEF HoldsNothing
  <2> QED BY <1>3, <2>1 DEF HoldsWhat
<1>9. ErasFit'
  <2>1. ErasFit /\ "user" \in Accounts!Part
    BY DEF AccountsInv, Accounts!Part
  <2>2. \A u \in Tx : LET x == accountRequest'[u] IN x # Accounts!Idle =>
          /\ x.stage \in {"insert", "cool", "code"} /\ x.type = "SIGNUP" => x.era = 0
          /\ x.op = "social" /\ x.stage \in {"status", "verified"} => x.era = 0
    BY <1>3, <2>1 DEF ErasFit
  <2>3. account'["user"] \in {account["user"], accountDraft["user"]}
    BY <1>2, <2>1
  <2>4. \A c \in Code : code'[c] \in {code[c], codeDraft[c]}
    BY <1>2
  <2> QED BY <1>1, <2>1, <2>2, <2>3, <2>4 DEF ErasFit
<1>10. Accounts!AccountsAreWhole'
  <2>1. Accounts!AccountsAreWhole /\ r # Accounts!Idle /\ r.stage # "verified"
    BY <1>1 DEF AccountsInv, Accounts!Idle
  <2>2. CASE r.op \in Creators
    <3>1. /\ account'["user"] = Accounts!Created(r.op)["user"]
          /\ account'["security"] = Accounts!Created(r.op)["security"]
          /\ r.op = "register" => \E c \in Code : code'[c].live /\ code'[c].type = "SIGNUP"
      BY <2>2, CommitShows DEF Creators, Spenders
    <3>2. \/ /\ r.op = "register" /\ account'["user"].status = "PENDING"
             /\ account'["security"].verified = "no"
          \/ account'["user"].status = "ACTIVE" /\ account'["security"].verified = "yes"
      BY <2>2, <3>1 DEF Accounts!Created, Accounts!Account, Accounts!Part, Creators
    <3> QED BY <3>1, <3>2 DEF Accounts!AccountsAreWhole, Accounts!User
  <2>3. CASE r.op \in Spenders
    <3>1. \/ account'["user"].status = "ACTIVE" /\ account'["security"].verified = "yes"
          \/ account'["user"].status = account["user"].status /\ account'["security"] = account["security"]
      <4>1. r.op = "reset" \/ r.op = "verify"
        BY <2>3 DEF Spenders
      <4>2. r.op \notin Creators
        BY <2>3 DEF Creators, Spenders
      <4> QED BY <4>1, <4>2, CommitShows
    <3>2. \A u \in Accounts!Active : accountRequest[u].stage = "verified" =>
             u \in Accounts!Active' /\ accountRequest'[u] = accountRequest[u]
      BY <1>3, <2>1 DEF Accounts!Active
    <3> QED BY <1>1, <1>4, <2>1, <3>1, <3>2 DEF Accounts!AccountsAreWhole, Accounts!User
  <2> QED BY <2>2, <2>3, CommitShows
<1> QED BY <1>5, <1>7, <1>8, <1>9, <1>10, AccountsStep

LEMMA AbortKeepsAccounts ==
    ASSUME AccountsInv, NEW t \in Tx, Accounts!Abort(t)
    PROVE  AccountsInv' /\ account' = account /\ code' = code
<1> DEFINE r == accountRequest[t]
<1>1. /\ accountHolder' = [p \in Accounts!Part |-> IF accountHolder[p] = t THEN NoTx ELSE accountHolder[p]]
      /\ codeHolder' = [c \in Code |-> IF codeHolder[c] = t THEN NoTx ELSE codeHolder[c]]
      /\ accountDraft' = [p \in Accounts!Part |-> IF accountHolder[p] = t THEN account[p] ELSE accountDraft[p]]
      /\ codeDraft' = [c \in Code |-> IF codeHolder[c] = t THEN code[c] ELSE codeDraft[c]]
      /\ account' = account /\ code' = code /\ Accounts!Go(t, Accounts!Idle) /\ r # Accounts!Idle
      /\ broken' = (broken \/ (r.op = "social" /\ r.stage = "verified"))
  <2>1. DOMAIN accountHolder = Accounts!Part /\ DOMAIN codeHolder = Code
    BY DEF AccountsInv, AccountsTypeOK
  <2> QED BY <2>1 DEF Accounts!Abort, Accounts!Discard, Accounts!Release, Accounts!Unlock, Accounts!Ends
<1>2. /\ accountRequest' = [accountRequest EXCEPT ![t] = Accounts!Idle] /\ accountRequest'[t] = Accounts!Idle
      /\ accountRequest' \in [Tx -> AccountRequest \cup {Accounts!Idle}]
      /\ \A u \in Tx \ {t} : accountRequest'[u] = accountRequest[u]
  BY <1>1 DEF Accounts!Go, AccountsInv, AccountsTypeOK
<1>3. AccountTables'
  <2>1. IsAccount(accountDraft')
    BY <1>1 DEF AccountsInv, AccountsTypeOK, IsAccount, Accounts!Part
  <2>2. /\ accountHolder' \in [Accounts!Part -> Tx \cup {NoTx}] /\ codeHolder' \in [Code -> Tx \cup {NoTx}]
        /\ codeDraft' \in [Code -> Accounts!CodeRow]
    BY <1>1 DEF AccountsInv, AccountsTypeOK
  <2>3. broken' \in BOOLEAN
    BY <1>1
  <2>4. AccountsTypeOK'
    BY <1>1, <1>2, <2>1, <2>2, <2>3 DEF AccountsInv, AccountsTypeOK
  <2>5. Accounts!DraftsAreHeld(account, accountDraft, accountHolder)'
    BY <1>1, NoTxAssumption DEF AccountsInv, AccountsTypeOK, Accounts!DraftsAreHeld
  <2>6. Accounts!DraftsAreHeld(code, codeDraft, codeHolder)'
    BY <1>1, NoTxAssumption DEF AccountsInv, AccountsTypeOK, Accounts!DraftsAreHeld
  <2> QED BY <2>4, <2>5, <2>6 DEF AccountTables
<1>4. OthersAreLeft(t)
  <2>1. \A u \in Tx \ {t}, p \in Accounts!Part :
          /\ accountHolder'[p] = u <=> accountHolder[p] = u
          /\ accountHolder[p] = u => accountDraft'[p] = accountDraft[p] /\ account'[p] = account[p]
    BY <1>1, NoTxAssumption
  <2>2. \A u \in Tx \ {t}, c \in Code :
          /\ codeHolder'[c] = u <=> codeHolder[c] = u
          /\ codeHolder[c] = u => codeDraft'[c] = codeDraft[c] /\ code'[c] = code[c]
    BY <1>1, NoTxAssumption
  <2> QED BY <1>1, <1>2, <2>1, <2>2 DEF OthersAreLeft
<1>5. HoldsWhat(t)'
  <2>1. HoldsNothing(t)'
    BY <1>1, NoTxAssumption DEF HoldsNothing
  <2> QED BY <1>2, <2>1 DEF HoldsWhat
<1>6. ErasFit'
  <2>1. ErasFit /\ "user" \in Accounts!Part
    BY DEF AccountsInv, Accounts!Part
  <2>2. \A u \in Tx : LET x == accountRequest'[u] IN x # Accounts!Idle =>
          /\ x.stage \in {"insert", "cool", "code"} /\ x.type = "SIGNUP" => x.era = 0
          /\ x.op = "social" /\ x.stage \in {"status", "verified"} => x.era = 0
    BY <1>2, <2>1 DEF ErasFit
  <2>3. accountDraft'["user"] \in {account["user"], accountDraft["user"]}
    BY <1>1, <2>1
  <2>4. \A c \in Code : codeDraft'[c] \in {code[c], codeDraft[c]}
    BY <1>1
  <2> QED BY <1>1, <2>1, <2>2, <2>3, <2>4 DEF ErasFit
<1>7. Accounts!AccountsAreWhole'
  <2>1. Accounts!AccountsAreWhole
    BY DEF AccountsInv
  <2>2. (broken \/ \E u \in Accounts!Active : accountRequest[u].op = "social" /\ accountRequest[u].stage = "verified") =>
        (broken \/ \E u \in Accounts!Active : accountRequest[u].op = "social" /\ accountRequest[u].stage = "verified")'
    BY <1>1, <1>2 DEF Accounts!Active
  <2> QED BY <1>1, <2>1, <2>2 DEF Accounts!AccountsAreWhole, Accounts!User
<1> QED BY <1>1, <1>3, <1>4, <1>5, <1>6, <1>7, AccountsStep
LEMMA AgesKeepsAccounts == ASSUME AccountsInv, NEW c \in Code, Accounts!Ages(c) PROVE AccountsInv'
<1>1. UNCHANGED <<account, accountDraft, accountHolder, code, codeDraft, codeHolder, broken, accountRequest>>
  BY DEF Accounts!Ages, Accounts!AtAccount, Accounts!AtCodes
<1>2. AccountsTypeOK'
  BY <1>1 DEF AccountsInv, AccountsTypeOK
<1>3. /\ Accounts!DraftsAreHeld(account, accountDraft, accountHolder)'
      /\ Accounts!DraftsAreHeld(code, codeDraft, codeHolder)'
  BY <1>1 DEF AccountsInv, Accounts!DraftsAreHeld
<1>4. \A t \in Tx : HoldsWhat(t)'
  BY <1>1 DEF AccountsInv, HoldsWhat, HoldsNothing, HoldsCreated, HoldsSpent, HoldsCodes, FindsAccount
<1>5. ErasFit' /\ Accounts!AccountsAreWhole'
  BY <1>1 DEF AccountsInv, ErasFit, Accounts!AccountsAreWhole, Accounts!User, Accounts!Active
<1> QED BY <1>2, <1>3, <1>4, <1>5 DEF AccountsInv

LEMMA AccountsStart == Accounts!AccountsInit => AccountsInv
<1> SUFFICES ASSUME Accounts!AccountsInit PROVE AccountsInv
  OBVIOUS
<1>1. /\ accountDraft = account /\ accountHolder = [p \in Accounts!Part |-> NoTx]
      /\ codeDraft = code /\ codeHolder = [c \in Code |-> NoTx] /\ broken = FALSE
      /\ accountRequest = [t \in Tx |-> Accounts!Idle]
  BY DEF Accounts!AccountsInit
<1>2. /\ IsAccount(account) /\ account["user"].era = 0 /\ account["user"].status \in {"none", "PENDING", "ACTIVE"}
      /\ account["user"].status = "none" <=> account["security"].verified = "none"
      /\ account["user"].status = "none" => account["user"].password = 0
      /\ account["user"].status = "ACTIVE" => account["security"].verified = "yes"
  <2>1. PICK status \in {"none", "PENDING", "ACTIVE"}, password \in Nat, verified \in {"none", "no", "yes"} :
           /\ account = Accounts!Account(status, "EMAIL", password, verified)
           /\ status = "none" => password = 0 /\ verified = "none"
           /\ status = "PENDING" => verified = "no"
           /\ status = "ACTIVE" => verified = "yes"
    BY DEF Accounts!AccountsInit
  <2>2. /\ account["user"] = [status |-> status, authProvider |-> "EMAIL", password |-> password, era |-> 0]
        /\ account["security"] = [verified |-> verified]
        /\ account = [p \in Accounts!Part |-> account[p]]
    BY <2>1 DEF Accounts!Account, Accounts!Part
  <2> QED BY <2>1, <2>2 DEF IsAccount, Accounts!UserRow, Accounts!SecurityRow
<1>3. /\ code \in [Code -> Accounts!CodeRow] /\ \A c \in Code : code[c].era = 0
  <2>1. \A c \in Code : code[c] \in {Accounts!NoCode, [Accounts!NoCode EXCEPT !.live = TRUE]}
    BY DEF Accounts!AccountsInit
  <2>2. code = [c \in Code |-> code[c]]
    BY DEF Accounts!AccountsInit
  <2>3. Accounts!NoCode \in Accounts!CodeRow /\ Accounts!NoCode.era = 0
    BY DEF Accounts!NoCode, Accounts!CodeRow, Accounts!OtpType
  <2>4. /\ [Accounts!NoCode EXCEPT !.live = TRUE] \in Accounts!CodeRow
        /\ [Accounts!NoCode EXCEPT !.live = TRUE].era = 0
    BY <2>3 DEF Accounts!CodeRow
  <2> QED BY <2>1, <2>2, <2>3, <2>4
<1>4. account["user"].status = "PENDING" => \E c \in Code : code[c].live /\ code[c].type = "SIGNUP"
  <2>1. SUFFICES ASSUME account["user"].status = "PENDING"
                 PROVE  code[1].live /\ code[1].type = "SIGNUP"
    BY AccountsAssumption
  <2>2. code = [c \in Code |-> IF c = 1 THEN [Accounts!NoCode EXCEPT !.live = TRUE] ELSE Accounts!NoCode]
    BY <2>1 DEF Accounts!AccountsInit, Accounts!Account, Accounts!Part
  <2> QED BY <2>2, AccountsAssumption DEF Accounts!NoCode
<1>5. AccountsTypeOK
  BY <1>1, <1>2, <1>3 DEF AccountsTypeOK
<1>6. /\ Accounts!DraftsAreHeld(account, accountDraft, accountHolder)
      /\ Accounts!DraftsAreHeld(code, codeDraft, codeHolder)
  BY <1>1 DEF Accounts!DraftsAreHeld
<1>7. \A t \in Tx : HoldsWhat(t)
  BY <1>1, NoTxAssumption DEF HoldsWhat, HoldsNothing
<1>8. ErasFit
  BY <1>1, <1>2, <1>3 DEF ErasFit
<1>9. Accounts!AccountsAreWhole
  BY <1>2, <1>4 DEF Accounts!AccountsAreWhole, Accounts!User
<1> QED BY <1>5, <1>6, <1>7, <1>8, <1>9 DEF AccountsInv

LEMMA AccountsHold == Accounts!AccountsSpec => []AccountsInv
<1>1. AccountsInv /\ [Accounts!AccountsNext]_(Accounts!accountsVars) => AccountsInv'
  <2> SUFFICES ASSUME AccountsInv, [Accounts!AccountsNext]_(Accounts!accountsVars) PROVE AccountsInv'
    OBVIOUS
  <2>1. CASE UNCHANGED Accounts!accountsVars
    <3>1. /\ UNCHANGED <<account, accountDraft, accountHolder, code, codeDraft, codeHolder, broken>>
          /\ accountRequest' = accountRequest
      BY <2>1 DEF Accounts!accountsVars, Accounts!AtAccount, Accounts!AtCodes
    <3>2. AccountsTypeOK' /\ ErasFit'
      BY <3>1 DEF AccountsInv, AccountsTypeOK, ErasFit
    <3>3. /\ Accounts!DraftsAreHeld(account, accountDraft, accountHolder)'
          /\ Accounts!DraftsAreHeld(code, codeDraft, codeHolder)'
      BY <3>1 DEF AccountsInv, Accounts!DraftsAreHeld
    <3>4. \A t \in Tx : HoldsWhat(t)'
      BY <3>1 DEF AccountsInv, HoldsWhat, HoldsNothing, HoldsCreated, HoldsSpent, HoldsCodes, FindsAccount
    <3>5. Accounts!AccountsAreWhole'
      BY <3>1 DEF AccountsInv, Accounts!AccountsAreWhole, Accounts!User, Accounts!Active
    <3> QED BY <3>2, <3>3, <3>4, <3>5 DEF AccountsInv
  <2>2. ASSUME NEW t \in Tx, Accounts!Ask(t) PROVE AccountsInv'
    BY <2>2, AskKeepsAccounts
  <2>3. ASSUME NEW t \in Tx, Accounts!Serve(t) PROVE AccountsInv'
    <3>1. CASE Accounts!Read(t) \/ Accounts!Match(t) \/ Accounts!Cool(t)
      BY <3>1, ReadKeepsAccounts, MatchKeepsAccounts, CoolKeepsAccounts
    <3>2. CASE Accounts!InsertAccount(t) \/ Accounts!InsertCode(t) \/ Accounts!Burn(t)
      BY <3>2, InsertAccountKeepsAccounts, InsertCodeKeepsAccounts, BurnKeepsAccounts
    <3>3. CASE Accounts!SetActive(t) \/ Accounts!SetVerified(t) \/ Accounts!SetPassword(t) \/ Accounts!Deactivate(t)
      BY <3>3, SetActiveKeepsAccounts, SetVerifiedKeepsAccounts, SetPasswordKeepsAccounts,
         DeactivateKeepsAccounts
    <3>4. CASE Accounts!Commit(t) \/ Accounts!Abort(t)
      BY <3>4, CommitKeepsAccounts, AbortKeepsAccounts
    <3> QED BY <2>3, <3>1, <3>2, <3>3, <3>4 DEF Accounts!Serve
  <2>4. ASSUME NEW c \in Code, Accounts!Ages(c) PROVE AccountsInv'
    BY <2>4, AgesKeepsAccounts
  <2> QED BY <2>1, <2>2, <2>3, <2>4 DEF Accounts!AccountsNext
<1> QED BY <1>1, AccountsStart, PTL DEF Accounts!AccountsSpec

\* No account is ever seen without its security row, no pending one without a
\* code to verify it by, and no active one unverified but in, or after, a social
\* activation cut short between its two statements (UserService).
THEOREM AccountsStayWhole == Accounts!AccountsSpec => []AccountsAreWhole
<1>1. AccountsInv => AccountsAreWhole
  BY DEF AccountsInv, AccountsAreWhole
<1> QED BY <1>1, AccountsHold, PTL

\* Which step may change a committed account or code.
LEMMA QuietAccounts ==
    ASSUME AccountsInv, NEW t \in Tx,
           \/ Accounts!Ask(t) \/ Accounts!Read(t) \/ Accounts!Match(t) \/ Accounts!Cool(t)
           \/ Accounts!InsertAccount(t) \/ Accounts!Burn(t) \/ Accounts!Abort(t)
    PROVE  account' = account /\ code' = code
<1>1. CASE Accounts!Ask(t)
  BY <1>1 DEF Accounts!Ask, Accounts!BeginRegister, Accounts!BeginManaged, Accounts!BeginSocial,
     Accounts!BeginResend, Accounts!BeginVerify, Accounts!BeginReset, Accounts!BeginForgot,
     Accounts!BeginChange, Accounts!BeginDeactivate, Accounts!Begin, Accounts!AtAccount, Accounts!AtCodes
<1>2. CASE Accounts!Read(t) \/ Accounts!Match(t) \/ Accounts!Cool(t) \/ Accounts!InsertAccount(t)
  BY <1>2 DEF Accounts!Read, Accounts!Match, Accounts!Cool, Accounts!InsertAccount,
     Accounts!AtAccount, Accounts!AtCodes
<1>3. CASE Accounts!Burn(t) \/ Accounts!Abort(t)
  BY <1>3, BurnKeepsAccounts, AbortKeepsAccounts
<1> QED BY <1>1, <1>2, <1>3

\* A code is spent together with what it is spent on, for any number of codes
\* and overlapping requests: only a commit makes a use visible, and the holder
\* of a used code holds what the code was used for (UserService.verifyOtp,
\* resetPassword).
THEOREM CodesAreSpentWithEffect == Accounts!AccountsSpec => SpentWithItsEffect
<1> DEFINE Spent(c) == \E t \in Accounts!Active :
              /\ accountRequest[t].code = c
              /\ accountRequest[t].op = "reset" => account'["user"].password > Accounts!User.password
              /\ accountRequest[t].op = "verify" /\ accountRequest[t].type = "SIGNUP" =>
                    account'["user"].status = "ACTIVE" /\ account'["security"].verified = "yes"
<1>1. AccountsInv /\ [Accounts!AccountsNext]_(Accounts!accountsVars) =>
        [\A c \in Code : ~code[c].used /\ code'[c].used => Spent(c)]_(Accounts!accountsVars)
  <2> SUFFICES ASSUME AccountsInv, Accounts!AccountsNext, NEW c \in Code, ~code[c].used, code'[c].used
               PROVE  Spent(c)
    OBVIOUS
  <2>1. ASSUME NEW t \in Tx, Accounts!Commit(t) PROVE Spent(c)
    <3> DEFINE r == accountRequest[t]
    <3>1. /\ code'[c] = IF codeHolder[c] = t THEN codeDraft[c] ELSE code[c]
          /\ HoldsCodes(t)
      BY <2>1, CommitShows
    <3>2. r.op \in Spenders /\ r.code = c
      BY <3>1 DEF HoldsCodes
    <3>3. r.op \notin Creators
      BY <3>2 DEF Creators, Spenders
    <3>4. /\ r.op = "reset" => account'["user"].password > account["user"].password
          /\ r.op = "verify" /\ r.type = "SIGNUP" =>
                account'["user"].status = "ACTIVE" /\ account'["security"].verified = "yes"
      BY <2>1, <3>3, CommitShows
    <3>5. t \in Accounts!Active
      BY <2>1 DEF Accounts!Active, Accounts!Commit, Accounts!Idle
    <3> QED BY <3>2, <3>4, <3>5 DEF Accounts!User
  <2>2. ASSUME NEW t \in Tx, Accounts!Serve(t) \/ Accounts!Ask(t), ~Accounts!Commit(t) PROVE FALSE
    <3>1. code' = code \/ \A d \in Code : code'[d].used => code[d].used
      BY <2>2, QuietAccounts, InsertCodeKeepsAccounts, SetActiveKeepsAccounts,
         SetVerifiedKeepsAccounts, SetPasswordKeepsAccounts, DeactivateKeepsAccounts
         DEF Accounts!Serve
    <3> QED BY <3>1
  <2>3. ASSUME NEW d \in Code, Accounts!Ages(d) PROVE FALSE
    BY <2>3 DEF Accounts!Ages, Accounts!AtCodes
  <2> QED BY <2>1, <2>2, <2>3 DEF Accounts!AccountsNext
<1> QED BY <1>1, AccountsHold, PTL DEF Accounts!AccountsSpec, SpentWithItsEffect, Accounts!SpentWithItsEffect

\* Whatever undoes a deactivation was read before it: signup codes and social
\* activations are all of a time before the first one.
THEOREM ReactivationsAreOld == Accounts!AccountsSpec => ReactivationIsOld
<1> DEFINE Old == \E t \in Accounts!Active :
              \/ accountRequest[t].op = "verify" /\ code[accountRequest[t].code].era < Accounts!User.era
              \/ accountRequest[t].op = "social" /\ accountRequest[t].era < Accounts!User.era
<1>1. AccountsInv /\ [Accounts!AccountsNext]_(Accounts!accountsVars) =>
        [Accounts!User.status = "DEACTIVATED" /\ account'["user"].status = "ACTIVE" => Old]_(Accounts!accountsVars)
  <2> SUFFICES ASSUME AccountsInv, Accounts!AccountsNext, Accounts!User.status = "DEACTIVATED",
                      account'["user"].status = "ACTIVE"
               PROVE  Old
    OBVIOUS
  <2>1. ErasFit /\ account["user"].status = "DEACTIVATED" /\ Accounts!User = account["user"]
    BY DEF AccountsInv, Accounts!User
  <2>2. account["user"].era > 0
    BY <2>1 DEF ErasFit
  <2>3. ASSUME NEW t \in Tx, Accounts!Commit(t) PROVE Old
    <3> DEFINE r == accountRequest[t]
    <3>1. /\ r.op \notin Creators /\ r.op \in Spenders /\ r.code \in Code
          /\ code[r.code].type = r.type /\ (r.op = "verify" /\ r.type # "SIGNUP" => account' = account)
          /\ r.op = "reset" => account'["user"].status = account["user"].status
      BY <2>1, <2>3, CommitShows DEF Creators, Spenders
    <3>2. r.op = "verify" /\ r.type = "SIGNUP"
      BY <2>1, <3>1 DEF Spenders
    <3>3. code[r.code].era = 0
      BY <2>1, <3>1, <3>2 DEF ErasFit
    <3>4. t \in Accounts!Active
      BY <2>3 DEF Accounts!Active, Accounts!Commit, Accounts!Idle
    <3> QED BY <2>1, <2>2, <3>2, <3>3, <3>4
  <2>4. ASSUME NEW t \in Tx, Accounts!SetActive(t) PROVE Old
    <3>1. accountRequest[t].op = "social" /\ accountRequest[t].era = 0
      <4>1. account' # account
        BY <2>1
      <4> QED BY <2>4, <4>1, SetActiveKeepsAccounts
    <3>2. t \in Accounts!Active
      BY <2>4 DEF Accounts!Active, Accounts!SetActive, Accounts!Idle
    <3> QED BY <2>1, <2>2, <3>1, <3>2
  <2>5. ASSUME NEW t \in Tx, Accounts!Serve(t) \/ Accounts!Ask(t), ~Accounts!Commit(t), ~Accounts!SetActive(t)
        PROVE  FALSE
    <3>1. account' = account \/ account'["user"].status \in {account["user"].status, "DEACTIVATED"}
      BY <2>5, QuietAccounts, InsertCodeKeepsAccounts,
         SetVerifiedKeepsAccounts, SetPasswordKeepsAccounts, DeactivateKeepsAccounts
         DEF Accounts!Serve
    <3> QED BY <2>1, <3>1
  <2>6. ASSUME NEW d \in Code, Accounts!Ages(d) PROVE FALSE
    BY <2>1, <2>6 DEF Accounts!Ages, Accounts!AtAccount
  <2> QED BY <2>3, <2>4, <2>5, <2>6 DEF Accounts!AccountsNext
<1> QED BY <1>1, AccountsHold, PTL DEF Accounts!AccountsSpec, ReactivationIsOld, Accounts!ReactivationIsOld

-----------------------------------------------------------------------------
(* What a lone upload leaves behind: besides the orphans it found, there   *)
(* are at most the file it read in the row and the one it saved, and which *)
(* of the two it still has to deal with follows from its stage.            *)

LoneFiles(r, order, row, shown, there) ==
    /\ there \subseteq r.before \cup {r.old, r.new}
    /\ r.stage = "upload" => r.op # "delete" /\ r.new = NoFile
    /\ r.op = "create" => /\ r.stage # "unlink" /\ r.old = NoFile
                          /\ \/ row = "none"
                             \/ r.stage = "clean" /\ shown = r.new
    /\ r.op = "update" =>
          /\ r.stage # "clean"
          /\ r.stage = "write" /\ order = "early" => there \subseteq r.before \cup {r.new}
          /\ r.stage = "unlink" /\ order = "late" => row = "live" /\ shown = r.new
    /\ r.op = "delete" => /\ r.stage \in {"write", "unlink"} /\ r.new = NoFile
                          /\ r.stage = "unlink" => row # "live"

UploadLoneInv ==
    /\ Histories(uploadRequest, uploadAlone) /\ LoneIsLone(uploadRequest, uploadAlone)
    /\ \A t \in Tx : uploadAlone[t] => LoneFiles(uploadRequest[t], style, life, image, disk)

LEMMA AskKeepsLoneFiles ==
    ASSUME UploadsInv, UploadLoneInv, NEW t \in Tx, Uploads!Ask(t)
    PROVE  UploadLoneInv'
<1>1. PICK op \in {"create", "update", "delete"}, stage \in {"upload", "write", "unlink"},
           old \in {image, NoFile} :
              /\ Uploads!Begin(t, Uploads!Asked(op, stage, old))
              /\ op = "create" => stage = "upload" /\ life = "none" /\ old = NoFile
              /\ op # "create" => life = "live" /\ old = image
              /\ op = "delete" => stage = "write"
              /\ stage = "write" /\ op = "update" /\ style = "early" => old = NoFile
              /\ stage = "unlink" => style = "early" /\ op = "update"
  <2>1. CASE Uploads!BeginCreate(t) \/ Uploads!BeginReplace(t) \/ Uploads!BeginDelete(t)
    BY <2>1 DEF Uploads!BeginCreate, Uploads!BeginReplace, Uploads!BeginDelete, Uploads!Asked
  <2>2. CASE Uploads!BeginRemoveImage(t)
    BY <2>2 DEF Uploads!BeginRemoveImage, Uploads!AfterUpload, Uploads!Asked
  <2> QED BY <2>1, <2>2 DEF Uploads!Ask
<1> DEFINE q == Uploads!Asked(op, stage, old)
<1>2. /\ q.op = op /\ q.stage = stage /\ q.old = old /\ q.new = NoFile
      /\ q.before = Uploads!Orphans /\ q # Idle
  BY DEF Uploads!Asked, Idle
<1>3. /\ uploadRequest[t] = Idle /\ uploadRequest' = [uploadRequest EXCEPT ![t] = q]
      /\ uploadAlone' = [u \in Tx |-> IF u = t THEN {v \in Tx : uploadRequest[v] # Idle} = {}
                                      ELSE uploadAlone[u] /\ uploadRequest[u] = Idle]
      /\ UNCHANGED <<style, life, image, disk, drawn, doubted>>
  BY <1>1 DEF Uploads!Begin, Uploads!Starts, Uploads!Go, Uploads!Active, Uploads!Idle, Idle
<1> HIDE DEF q
<1>4. \A u \in Tx : uploadAlone'[u] => u = t /\ \A v \in Tx \ {t} : uploadRequest'[v] = Idle
  <2>1. \A u \in Tx \ {t} : ~uploadAlone'[u]
    BY <1>3 DEF UploadLoneInv, LoneIsLone
  <2>2. uploadAlone'[t] => \A v \in Tx : uploadRequest[v] = Idle
    BY <1>3
  <2>3. \A v \in Tx \ {t} : uploadRequest'[v] = uploadRequest[v]
    BY <1>3
  <2> QED BY <2>1, <2>2, <2>3
<1>5. uploadAlone' \in [Tx -> BOOLEAN]
  <2>1. \A u \in Tx \ {t} : (uploadAlone[u] /\ uploadRequest[u] = Idle) = FALSE
    BY DEF UploadLoneInv, LoneIsLone
  <2>2. ({v \in Tx : uploadRequest[v] # Idle} = {}) \in BOOLEAN
    OBVIOUS
  <2> QED BY <1>3, <2>1, <2>2
<1>6. Histories(uploadRequest', uploadAlone')
  BY <1>3, <1>5 DEF UploadLoneInv, Histories
<1>7. uploadRequest'[t] = q
  BY <1>3 DEF UploadLoneInv, Histories
<1>8. LoneIsLone(uploadRequest', uploadAlone')
  BY <1>2, <1>4, <1>7 DEF LoneIsLone
<1>9. disk \subseteq q.before \cup {q.old}
  BY <1>1, <1>2 DEF Uploads!Orphans
<1>10. NoFile \notin disk
  BY UploadsAssumption DEF UploadsInv, UploadsTypeOK
<1>11. LoneFiles(uploadRequest'[t], style', life', image', disk')
  <2>1. style' = style /\ life' = life /\ image' = image /\ disk' = disk
    BY <1>3
  <2>2. disk \subseteq q.before \cup {q.old, q.new}
    BY <1>9
  <2>3. q.op = "update" /\ q.stage = "write" /\ style = "early" => disk \subseteq q.before \cup {q.new}
    BY <1>1, <1>2, <1>9
  <2>4. /\ q.stage = "upload" => q.op # "delete" /\ q.new = NoFile
        /\ q.op = "create" => q.stage = "upload" /\ q.old = NoFile /\ life = "none"
    BY <1>1, <1>2
  <2>5. /\ q.op = "update" => q.stage # "clean" /\ ~(q.stage = "unlink" /\ style = "late")
        /\ q.op = "delete" => q.stage = "write" /\ q.new = NoFile
    BY <1>1, <1>2
  <2> QED BY <1>7, <2>1, <2>2, <2>3, <2>4, <2>5 DEF LoneFiles
<1> QED BY <1>4, <1>6, <1>8, <1>11 DEF UploadLoneInv

\* A request goes on to its next stage, or ends.
LEMMA LoneFilesGoOn ==
    ASSUME UploadLoneInv, NEW t \in Tx, uploadRequest[t] # Idle, NEW q, q # Idle,
           \/ Uploads!Ends(t)
           \/ /\ Uploads!Continues(t, q)
              /\ uploadAlone[t] => LoneFiles(q, style', life', image', disk')
    PROVE  UploadLoneInv'
<1>1. CASE Uploads!Ends(t)
  <2>1. /\ uploadRequest' = [uploadRequest EXCEPT ![t] = Idle]
        /\ uploadAlone' = [uploadAlone EXCEPT ![t] = FALSE]
    BY <1>1 DEF Uploads!Ends, Uploads!Go, Uploads!Idle, Idle
  <2> QED BY <2>1, EndsKeepsLone DEF UploadLoneInv
<1>2. CASE Uploads!Continues(t, q) /\ (uploadAlone[t] => LoneFiles(q, style', life', image', disk'))
  <2>1. uploadRequest' = [uploadRequest EXCEPT ![t] = q] /\ uploadAlone' = uploadAlone
    BY <1>2 DEF Uploads!Continues, Uploads!Go
  <2>2. /\ Histories(uploadRequest', uploadAlone) /\ LoneIsLone(uploadRequest', uploadAlone)
        /\ \A u \in Tx \ {t} : ~uploadAlone[u]
    BY <2>1, ContinuesKeepsLone DEF UploadLoneInv
  <2>3. uploadRequest'[t] = q
    BY <2>1 DEF UploadLoneInv, Histories
  <2>4. uploadAlone[t] => LoneFiles(uploadRequest'[t], style', life', image', disk')
    BY <1>2, <2>3 DEF LoneFiles
  <2> QED BY <2>1, <2>2, <2>4 DEF UploadLoneInv
<1> QED BY <1>1, <1>2

\* A stage of a request, the next one said to be s.
LEMMA NextFileStage ==
    ASSUME NEW r \in UploadRequest, NEW s \in {"upload", "write", "unlink", "clean"}
    PROVE  LET q == [r EXCEPT !.stage = s] IN
           /\ q # Idle /\ q.stage = s
           /\ q.op = r.op /\ q.old = r.old /\ q.new = r.new /\ q.before = r.before
BY DEF UploadRequest, Idle

LEMMA ServeKeepsLoneFiles ==
    ASSUME UploadsInv, UploadLoneInv, NEW t \in Tx, Uploads!Serve(t)
    PROVE  UploadLoneInv'
<1> DEFINE r == uploadRequest[t]
           q(s) == [r EXCEPT !.stage = s]
<1>1. r # Idle /\ r \in UploadRequest
  <2>1. r.stage \in {"upload", "write", "unlink", "clean"} \/ r # Idle
    BY DEF Uploads!Serve, Uploads!Upload, Uploads!Write, Uploads!Unlink, Uploads!Refused,
       Uploads!Doubted, Uploads!Clean, Uploads!Crash, Uploads!Idle, Idle
  <2>2. r # Idle
    BY <2>1 DEF Idle
  <2> QED BY <2>2 DEF Uploads!Idle, Idle, UploadsInv, UploadsTypeOK
<1>2. NoFile \notin disk
  BY UploadsAssumption DEF UploadsInv, UploadsTypeOK
<1>3. uploadAlone[t] => LoneFiles(r, style, life, image, disk)
  BY DEF UploadLoneInv
<1>4. \A s \in {"write", "unlink", "clean"} :
         /\ q(s) # Idle /\ q(s).stage = s
         /\ q(s).op = r.op /\ q(s).old = r.old /\ q(s).new = r.new /\ q(s).before = r.before
  BY <1>1, NextFileStage
<1>5. CASE Uploads!Upload(t)
  <2>1. PICK f \in File \ drawn :
           /\ disk' = disk \cup {f}
           /\ Uploads!Continues(t, [r EXCEPT !.new = f, !.stage = Uploads!AfterUpload(r.old)])
    BY <1>5 DEF Uploads!Upload
  <2> DEFINE p == [r EXCEPT !.new = f, !.stage = Uploads!AfterUpload(r.old)]
  <2>2. /\ p # Idle /\ p.stage = Uploads!AfterUpload(r.old) /\ p.new = f
        /\ p.op = r.op /\ p.old = r.old /\ p.before = r.before
    BY <1>1 DEF UploadRequest, Idle, Uploads!AfterUpload
  <2> HIDE DEF p
  <2>3. r.stage = "upload" /\ UNCHANGED <<style, life, image, doubted>>
    BY <1>5 DEF Uploads!Upload
  <2>4. uploadAlone[t] => LoneFiles(p, style', life', image', disk')
    <3> SUFFICES ASSUME uploadAlone[t] PROVE LoneFiles(p, style', life', image', disk')
      OBVIOUS
    <3>1. LoneFiles(r, style, life, image, disk)
      BY <1>3
    <3>2. /\ disk \subseteq r.before \cup {r.old} \cup {NoFile}
          /\ disk' \subseteq p.before \cup {p.old, p.new}
          /\ r.old = NoFile => disk' \subseteq p.before \cup {p.new}
      BY <1>2, <2>1, <2>2, <2>3, <3>1 DEF LoneFiles
    <3>3. /\ p.stage \in {"write", "unlink"}
          /\ p.stage = "unlink" => style = "early" /\ p.old # NoFile
          /\ p.stage = "write" /\ style = "early" => p.old = NoFile
      BY <2>2 DEF Uploads!AfterUpload
    <3>4. p.op # "delete" /\ (p.op = "create" => p.old = NoFile /\ life' = "none")
      BY <2>2, <2>3, <3>1 DEF LoneFiles
    <3>5. p.stage # "upload" /\ p.stage # "clean" /\ ~(p.stage = "unlink" /\ style = "late")
          /\ (p.op = "create" => p.stage # "unlink")
      BY <3>3, <3>4
    <3>6. style' = style
      BY <2>3
    <3>7. p.op = "update" /\ p.stage = "write" /\ style' = "early" => disk' \subseteq p.before \cup {p.new}
      BY <2>2, <3>2, <3>3, <3>6
    <3> QED BY <3>2, <3>4, <3>5, <3>6, <3>7 DEF LoneFiles
  <2>5. Uploads!Continues(t, p)
    BY <2>1 DEF p
  <2> QED BY <1>1, <2>2, <2>4, <2>5, LoneFilesGoOn
<1> HIDE DEF q
<1>6. CASE Uploads!Write(t)
  <2>1. CASE Uploads!OwesAnUnlink(r)
    <3>1. Uploads!Continues(t, q("unlink"))
      BY <1>6, <2>1 DEF Uploads!Write, q
    <3>2. uploadAlone[t] => LoneFiles(q("unlink"), style', life', image', disk')
      BY <1>1, <1>3, <1>4, <1>6, <2>1 DEF LoneFiles, Uploads!Write, Uploads!OwesAnUnlink, UploadRequest
    <3> QED BY <1>1, <1>4, <3>1, <3>2, LoneFilesGoOn
  <2>2. CASE ~Uploads!OwesAnUnlink(r)
    BY <1>1, <1>6, <2>2, LoneFilesGoOn DEF Uploads!Write
  <2> QED BY <2>1, <2>2
<1>7. CASE Uploads!Unlink(t)
  <2>1. CASE style = "early" /\ r.op = "update"
    <3>1. Uploads!Continues(t, q("write"))
      BY <1>7, <2>1 DEF Uploads!Unlink, q
    <3>2. uploadAlone[t] => LoneFiles(q("write"), style', life', image', disk')
      BY <1>1, <1>3, <1>4, <1>7, <2>1 DEF LoneFiles, Uploads!Unlink
    <3> QED BY <1>1, <1>4, <3>1, <3>2, LoneFilesGoOn
  <2>2. CASE ~(style = "early" /\ r.op = "update")
    BY <1>1, <1>7, <2>2, LoneFilesGoOn DEF Uploads!Unlink
  <2> QED BY <2>1, <2>2
<1>8. CASE Uploads!Refused(t)
  <2>1. CASE r.op = "create"
    <3>1. Uploads!Continues(t, q("clean"))
      BY <1>8, <2>1 DEF Uploads!Refused, q
    <3>2. uploadAlone[t] => LoneFiles(q("clean"), style', life', image', disk')
      BY <1>1, <1>3, <1>4, <1>8, <2>1 DEF LoneFiles, Uploads!Refused
    <3> QED BY <1>1, <1>4, <3>1, <3>2, LoneFilesGoOn
  <2>2. CASE r.op # "create"
    BY <1>1, <1>8, <2>2, LoneFilesGoOn DEF Uploads!Refused
  <2> QED BY <2>1, <2>2
<1>9. CASE Uploads!Doubted(t)
  <2>1. Uploads!Continues(t, q("clean"))
    BY <1>9 DEF Uploads!Doubted, q
  <2>2. uploadAlone[t] => LoneFiles(q("clean"), style', life', image', disk')
    BY <1>1, <1>3, <1>4, <1>9 DEF LoneFiles, Uploads!Doubted
  <2> QED BY <1>1, <1>4, <2>1, <2>2, LoneFilesGoOn
<1>10. CASE Uploads!Clean(t) \/ Uploads!Crash(t)
  BY <1>1, <1>10, LoneFilesGoOn DEF Uploads!Clean, Uploads!Crash
<1> QED BY <1>5, <1>6, <1>7, <1>8, <1>9, <1>10 DEF Uploads!Serve

\* The last step of a lone request.
LEMMA LoneFilesEnd ==
    ASSUME UploadsInv, UploadLoneInv, NEW t \in Tx, uploadAlone[t],
           Uploads!Clean(t) \/ Uploads!Unlink(t) \/ Uploads!Write(t),
           uploadRequest'[t] = Uploads!Idle
    PROVE  Uploads!Orphans' \subseteq uploadRequest[t].before
<1> DEFINE r == uploadRequest[t]
<1>1. r # Idle /\ r \in UploadRequest
  BY DEF Uploads!Write, Uploads!Unlink, Uploads!Clean, Uploads!Idle, Idle, UploadsInv, UploadsTypeOK
<1>2. NoFile \notin disk
  BY UploadsAssumption DEF UploadsInv, UploadsTypeOK
<1>3. LoneFiles(r, style, life, image, disk) /\ uploadRequest = [u \in Tx |-> uploadRequest[u]]
  BY DEF UploadLoneInv, Histories
<1>4. CASE Uploads!Write(t)
  <2>1. ~Uploads!OwesAnUnlink(r)
    <3> SUFFICES ASSUME Uploads!OwesAnUnlink(r) PROVE FALSE
      OBVIOUS
    <3>1. uploadRequest' = [uploadRequest EXCEPT ![t] = [r EXCEPT !.stage = "unlink"]]
      BY <1>4 DEF Uploads!Write, Uploads!Continues, Uploads!Go
    <3>2. uploadRequest'[t] = [r EXCEPT !.stage = "unlink"]
      BY <1>3, <3>1
    <3> QED BY <1>1, <3>2, NextFileStage DEF Uploads!Idle, Idle
  <2>2. CASE r.old = NoFile
    BY <1>1, <1>2, <1>3, <1>4, <2>2 DEF Uploads!Write, Uploads!Orphans, LoneFiles, UploadRequest
  <2>3. CASE r.old # NoFile
    BY <1>1, <1>2, <1>3, <1>4, <2>1, <2>3
       DEF Uploads!Write, Uploads!Orphans, Uploads!OwesAnUnlink, LoneFiles, UploadRequest, UploadsInv, UploadsTypeOK
  <2> QED BY <2>2, <2>3
<1>5. CASE Uploads!Unlink(t)
  <2>1. ~(style = "early" /\ r.op = "update")
    <3> SUFFICES ASSUME style = "early" /\ r.op = "update" PROVE FALSE
      OBVIOUS
    <3>1. uploadRequest' = [uploadRequest EXCEPT ![t] = [r EXCEPT !.stage = "write"]]
      BY <1>5 DEF Uploads!Unlink, Uploads!Continues, Uploads!Go
    <3>2. uploadRequest'[t] = [r EXCEPT !.stage = "write"]
      BY <1>3, <3>1
    <3> QED BY <1>1, <3>2, NextFileStage DEF Uploads!Idle, Idle
  <2>2. style \in {"late", "early"}
    BY DEF UploadsInv, UploadsTypeOK
  <2> QED BY <1>1, <1>2, <1>3, <1>5, <2>1, <2>2
       DEF Uploads!Unlink, Uploads!Orphans, LoneFiles, UploadRequest
<1>6. CASE Uploads!Clean(t)
  BY <1>1, <1>2, <1>3, <1>6 DEF Uploads!Clean, Uploads!Cleaned, Uploads!Orphans, LoneFiles, UploadRequest
<1> QED BY <1>4, <1>5, <1>6

\* Whatever orphans races and crashes have left, an upload, a replacement, a
\* removal or a delete that nobody overlaps and that reaches its end (a refused
\* create: the end of its catch block) adds none, in either order of deleting.
THEOREM LoneUploadsLeaveNothing == Uploads!UploadsSpec => LoneLeavesNoOrphan
<1>1. Uploads!UploadsInit => UploadsInv /\ UploadLoneInv
  <2>1. Uploads!UploadsInit => UploadsInv
    BY DEF Uploads!UploadsInit, UploadsInv, UploadsTypeOK, NamesAreDrawn, WaitsUnknown,
       DoomedIsUnshown, RowIsStored, WaitsToShow, UploadServes
  <2>2. Uploads!UploadsInit => UploadLoneInv
    BY NobodyYet DEF Uploads!UploadsInit, Uploads!Idle, Idle, UploadLoneInv
  <2> QED BY <2>1, <2>2
<1>2. UploadsInv /\ UploadLoneInv /\ [Uploads!UploadsNext]_(Uploads!uploadVars)
        => UploadsInv' /\ UploadLoneInv'
  <2>1. CASE UNCHANGED Uploads!uploadVars
    <3>1. UploadsInv => UploadsInv'
      BY <2>1 DEF Uploads!uploadVars, UploadsInv, UploadsTypeOK, NamesAreDrawn, WaitsUnknown,
         DoomedIsUnshown, RowIsStored, WaitsToShow, UploadServes
    <3>2. UploadLoneInv => UploadLoneInv'
      BY <2>1 DEF Uploads!uploadVars, UploadLoneInv, LoneFiles
    <3> QED BY <3>1, <3>2
  <2> QED BY <2>1, AskKeepsFiles, ServeKeepsFiles, AskKeepsLoneFiles, ServeKeepsLoneFiles
       DEF Uploads!UploadsNext
<1>3. UploadsInv /\ UploadLoneInv =>
        [\A t \in Tx : uploadAlone[t]
            /\ (Uploads!Clean(t) \/ Uploads!Unlink(t) \/ Uploads!Write(t))
            /\ uploadRequest'[t] = Uploads!Idle
              => Uploads!Orphans' \subseteq uploadRequest[t].before]_(Uploads!uploadVars)
  BY LoneFilesEnd
<1> QED BY <1>1, <1>2, <1>3, PTL
     DEF Uploads!UploadsSpec, LoneLeavesNoOrphan, Uploads!LoneLeavesNoOrphan
=============================================================================
