------------------------------ MODULE Couriers ------------------------------
(***************************************************************************)
(* Courier companies and their delivery zones, as DeliveryService keeps    *)
(* them: a submission attaches its zone to the company of that name or     *)
(* creates the company, an edit of a zone may rename its company, a delete *)
(* takes the zone and leaves the company.                                  *)
(*                                                                         *)
(* A company is looked up by its name whatever the case, while the unique  *)
(* index on the name minds the case; a second unique index is on the slug  *)
(* derived from the name.  Contact data, fees and delivery days are left   *)
(* out: the rules about them only refuse a request.                        *)
(***************************************************************************)
EXTENDS Requests

CONSTANTS
    Company, Zone,   \* ids of rows
    Spelling,        \* names as they are written: text, lower (its case folded), slug
    Undrawn, Deleted    \* a zone id not drawn yet; one whose row was deleted

VARIABLES
    company, companyDraft, companyHolder,   \* delivery_providers: name and slug
    zone                                    \* delivery_zones: the company of each

AtCouriers   == <<company, companyDraft, companyHolder, zone>>
couriersVars == <<AtCouriers, request, alone>>

NoRow == [name |-> Undrawn, slug |-> Undrawn]
Row(n) == [name |-> n, slug |-> n.slug]

Known(rows) == {p \in Company : rows[p] # NoRow}
Zones       == {z \in Zone : zone[z] \in Company}

Companies(t) == View(company, companyDraft, companyHolder, t)

CouriersInit ==
    /\ company = [p \in Company |-> NoRow]
    /\ companyDraft = company
    /\ companyHolder = [p \in Company |-> NoTx]
    /\ zone = [z \in Zone |-> Undrawn]
    /\ request = [t \in Tx |-> Idle]
    /\ alone = [t \in Tx |-> FALSE]

\* findProviderByName: findFirst, case-insensitive.
Named(rows, n) == {p \in Known(rows) : rows[p].name.lower = n.lower}

\* The unique indexes: a row under this name or slug, committed or about to be,
\* refuses the write or makes it wait.
Taken(p, row) == \E q \in Company \ {p} : \E other \in {company[q], companyDraft[q]} :
    other # NoRow /\ (other.name = row.name \/ other.slug = row.slug)

-----------------------------------------------------------------------------
(* createExternalDeliveryService                                           *)

BeginSubmit(t, n) ==
    /\ LET found == Named(company, n) IN
       \/ \E p \in found : Starts(t, [op |-> "submit", stage |-> "attach", company |-> p])
       \/ found = {} /\ Starts(t, [op |-> "submit", stage |-> "slug", name |-> n])
    /\ UNCHANGED AtCouriers

\* findProviderBySlug; a conflict is refused.
CheckSlug(t) ==
    LET r == request[t] IN
    /\ r.stage = "slug"
    /\ \A p \in Known(company) : company[p].slug # r.name.slug
    /\ Continues(t, [r EXCEPT !.stage = "insert"])
    /\ UNCHANGED AtCouriers

AddZone(p) == \E z \in Zone :
    zone[z] = Undrawn /\ zone' = [zone EXCEPT ![z] = p]

\* createProviderWithZone and the commit.
InsertCompany(t) ==
    LET row == Row(request[t].name) IN
    /\ request[t].stage = "insert"
    /\ \E p \in Company \ Known(company) :
          /\ ~Taken(p, row)
          /\ company' = [company EXCEPT ![p] = row]
          /\ companyDraft' = [companyDraft EXCEPT ![p] = row]
          /\ AddZone(p)
    /\ Ends(t)
    /\ UNCHANGED companyHolder

\* updateProviderContactInfo, createZoneForProvider and the commit.
AttachZone(t) ==
    LET p == request[t].company IN
    /\ request[t].stage = "attach"
    /\ Free(companyHolder, t, p)
    /\ AddZone(p)
    /\ Ends(t)
    /\ UNCHANGED <<company, companyDraft, companyHolder>>

-----------------------------------------------------------------------------
(* updateExternalDeliveryService.  names: the companyName of the body, or  *)
(* nothing; contact: it says something about phone or office.              *)

BeginEdit(t, z, names, contact) ==
    /\ z \in Zones
    /\ LET p       == zone[z]
           renames == {n \in names : n # company[p].name}
           edit(stage) == [op |-> "edit", stage |-> stage, zone |-> z, company |-> p,
                           names |-> renames, contact |-> contact]
       IN Starts(t, edit(IF renames = {} THEN "zone" ELSE "lookup"))
    /\ UNCHANGED AtCouriers

\* A name of another company is refused.
LookUp(t) ==
    LET r == request[t] IN
    /\ r.stage = "lookup"
    /\ \A n \in r.names : Named(company, n) = {} \/ r.company \in Named(company, n)
    /\ Continues(t, [r EXCEPT !.stage = "rename"])
    /\ UNCHANGED AtCouriers

\* Mutant: the slug stays that of the first name.
RenamedOnly(p, n) == [companyDraft[p] EXCEPT !.name = n]

\* renameProvider
Renamed(p, n) == [companyDraft[p] EXCEPT !.name = n, !.slug = n.slug]

RenameCompany(t) ==
    LET r == request[t] IN
    /\ r.stage = "rename"
    /\ Free(companyHolder, t, r.company)
    /\ \E n \in r.names :
          /\ ~Taken(r.company, Renamed(r.company, n))
          /\ companyDraft' = [companyDraft EXCEPT ![r.company] = Renamed(r.company, n)]
    /\ companyHolder' = Lock(companyHolder, t, r.company)
    /\ Continues(t, [r EXCEPT !.stage = "zone"])
    /\ UNCHANGED <<company, zone>>

\* updateProviderContactInfo where there was no new name; updateZone, which
\* fails if the zone was deleted; the commit.
EditZone(t) ==
    LET r == request[t] IN
    /\ r.stage = "zone"
    /\ r.op = "edit"
    /\ r.contact => Free(companyHolder, t, r.company)
    /\ r.zone \in Zones
    /\ company' = Companies(t)
    /\ companyHolder' = Unlock(companyHolder, t)
    /\ Ends(t)
    /\ UNCHANGED <<companyDraft, zone>>

-----------------------------------------------------------------------------
(* deleteExternalDeliveryService: a read, then one statement.              *)

BeginDelete(t, z) ==
    /\ z \in Zones
    /\ Starts(t, [op |-> "delete", stage |-> "delete", zone |-> z])
    /\ UNCHANGED AtCouriers

DeleteZone(t) ==
    /\ request[t].stage = "delete"
    /\ request[t].zone \in Zones
    /\ zone' = [zone EXCEPT ![request[t].zone] = Deleted]
    /\ Ends(t)
    /\ UNCHANGED <<company, companyDraft, companyHolder>>

\* Refused, or failed for a reason of its own.
Fails(t) ==
    /\ Ends(t)
    /\ companyDraft' = Discard(company, companyDraft, companyHolder, t)
    /\ companyHolder' = Unlock(companyHolder, t)
    /\ UNCHANGED <<company, zone>>

Ask(t) ==
    /\ request[t] = Idle
    /\ \/ \E n \in Spelling : BeginSubmit(t, n)
       \/ \E z \in Zones, names \in {{}} \cup {{n} : n \in Spelling}, contact \in BOOLEAN :
             BeginEdit(t, z, names, contact)
       \/ \E z \in Zones : BeginDelete(t, z)

Serve(t) ==
    /\ t \in Active
    /\ \/ CheckSlug(t) \/ InsertCompany(t) \/ AttachZone(t)
       \/ LookUp(t) \/ RenameCompany(t) \/ EditZone(t)
       \/ DeleteZone(t) \/ Fails(t)

CouriersNext == \E t \in Tx : Ask(t) \/ Serve(t)

CouriersSpec == CouriersInit /\ [][CouriersNext]_couriersVars

-----------------------------------------------------------------------------
\* No two companies have one name but for its case, so that "find or attach"
\* has one company to find, however submissions and renames overlap: the
\* look-ups and the unique index on the name would let such a pair pass, the
\* index on the slug does not ("instead of a duplicate-provider 409").
NamesApart == \A p, q \in Known(company) : p # q => company[p].name.lower # company[q].name.lower
=============================================================================
