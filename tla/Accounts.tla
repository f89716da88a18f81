------------------------------ MODULE Accounts ------------------------------
(***************************************************************************)
(* The account of one e-mail address and the one-time codes mailed to it:  *)
(* registration, verification, resend, password reset and change, social   *)
(* sign-in and deactivation (UserService, OtpService, AuthService).        *)
(* Requests about different addresses share no row.                        *)
(*                                                                         *)
(* A code is compared, and a status checked, before the transaction that   *)
(* acts on them opens; social sign-in activates an account by two          *)
(* statements outside any transaction.  Signing in and refreshing a token  *)
(* only read status and password; roles, sign-in times and the text of a   *)
(* code or a password are left out, and mail is sent outside of all this.  *)
(***************************************************************************)
EXTENDS Requests, Naturals

CONSTANT Code   \* ids of otps rows, in the order they are inserted

VARIABLES
    account,         \* the committed rows of the account: "user" and "security"
    accountDraft,
    accountHolder,
    code,            \* the committed rows of otps
    codeDraft,
    codeHolder,
    age,             \* age[c]: how old code c is
    broken           \* history: a social activation ended between its statements

AtAccount    == <<account, accountDraft, accountHolder>>
AtCodes      == <<code, codeDraft, codeHolder>>
accountsVars == <<AtAccount, AtCodes, age, broken, request, alone>>

Part == {"user", "security"}

\* password: 0 for none, else how many were set so far.  GOOGLE stands for
\* every other authProvider.  era: how often the account was deactivated, a
\* history.
UserRow     == [status : {"none", "PENDING", "ACTIVE", "DEACTIVATED"},
                authProvider : {"EMAIL", "GOOGLE"}, password : Nat, era : Nat]
SecurityRow == [verified : {"none", "no", "yes"}]

Account(status, authProvider, password, verified) ==
    [p \in Part |-> IF p = "user" THEN [status |-> status, authProvider |-> authProvider,
                                        password |-> password, era |-> 0]
                                  ELSE [verified |-> verified]]

OtpType == {"SIGNUP", "PASSWORD_RESET"}

\* live: the row is there.  era: what the request that issued it read.
CodeRow == [live : BOOLEAN, type : OtpType, used : BOOLEAN, era : Nat]
NoCode  == [live |-> FALSE, type |-> "SIGNUP", used |-> FALSE, era |-> 0]

\* Younger than the resend cooldown of 60 s, younger than 10 minutes, expired.
Cooling == 0
Valid   == 1
Expired == 2

\* Nobody, a registration to be verified, or a verified customer.
AccountsInit ==
    /\ \/ account = Account("none", "EMAIL", 0, "none") /\ code = [c \in Code |-> NoCode]
       \/ account = Account("PENDING", "EMAIL", 1, "no")
          /\ code = [c \in Code |-> IF c = 1 THEN [NoCode EXCEPT !.live = TRUE] ELSE NoCode]
       \/ account = Account("ACTIVE", "EMAIL", 1, "yes") /\ code = [c \in Code |-> NoCode]
    /\ accountDraft = account /\ accountHolder = [p \in Part |-> NoTx]
    /\ codeDraft = code /\ codeHolder = [c \in Code |-> NoTx]
    /\ age = [c \in Code |-> Cooling]
    /\ broken = FALSE
    /\ request = [t \in Tx |-> Idle]
    /\ alone = [t \in Tx |-> FALSE]

-----------------------------------------------------------------------------
(* Requests.  era and password: of the account the request read.           *)

Asked(op, type, c) ==
    [op |-> op, stage |-> "read", type |-> type, code |-> c, era |-> 0, opens |-> FALSE]

Begin(t, r) == Starts(t, r) /\ UNCHANGED <<AtAccount, AtCodes, age, broken>>

BeginRegister(t)        == Begin(t, Asked("register", "SIGNUP", 0))
BeginManaged(t)         == Begin(t, Asked("managed", "SIGNUP", 0))
BeginSocial(t)          == Begin(t, Asked("social", "SIGNUP", 0))
BeginResend(t, type)    == Begin(t, Asked("resend", type, 0))
BeginForgot(t)          == Begin(t, Asked("forgot", "PASSWORD_RESET", 0))
BeginVerify(t, type, c) == Begin(t, Asked("verify", type, c))
BeginReset(t, c)        == Begin(t, Asked("reset", "PASSWORD_RESET", c))
BeginChange(t)          == Begin(t, Asked("change", "SIGNUP", 0))
BeginDeactivate(t)      == Begin(t, Asked("deactivate", "SIGNUP", 0))

User == account["user"]

\* Mutant: a signup code is sent again to any account.
MayProceedAnyStatus(r) ==
    CASE r.op \in {"register", "managed"} -> User.status = "none"
      [] r.op = "social" -> User.status # "DEACTIVATED"
      [] r.op \in {"resend", "verify"} -> User.status # "none"
      [] r.op = "forgot" -> User.authProvider = "EMAIL" /\ User.status = "ACTIVE"
      [] r.op = "reset" -> User.authProvider = "EMAIL" /\ User.status = "ACTIVE" /\ User.password > 0
      [] r.op = "change" -> User.password > 0
      [] r.op = "deactivate" -> User.status \notin {"none", "DEACTIVATED"}

\* What a request demands of the account it reads.  An account of the back
\* office has no password, but is mailed a reset code all the same.
MayProceed(r) ==
    CASE r.op \in {"register", "managed"} -> User.status = "none"
      [] r.op = "social" -> User.status # "DEACTIVATED"
      [] r.op = "resend" -> IF r.type = "SIGNUP" THEN User.status = "PENDING"
                            ELSE User.status # "none"
      [] r.op = "verify" -> User.status # "none"
      [] r.op = "forgot" -> User.authProvider = "EMAIL" /\ User.status = "ACTIVE"
      [] r.op = "reset" -> User.authProvider = "EMAIL" /\ User.status = "ACTIVE" /\ User.password > 0
      [] r.op = "change" -> User.password > 0
      [] r.op = "deactivate" -> User.status \notin {"none", "DEACTIVATED"}

\* An account social sign-in finds active only has its sign-in times written.
FirstStage(r) ==
    CASE r.op \in {"register", "managed"} \/ (r.op = "social" /\ User.status = "none") -> "insert"
      [] r.op = "social" /\ User.status = "ACTIVE" -> "done"
      [] r.op = "social" /\ User.status = "PENDING" -> "status"
      [] r.op \in {"resend", "forgot"} -> "cool"
      [] r.op \in {"verify", "reset"} -> "match"
      [] r.op = "change" -> "password"
      [] r.op = "deactivate" -> "deactivate"

Read(t) ==
    LET r == request[t] IN
    /\ r.stage = "read"
    /\ IF MayProceed(r) /\ FirstStage(r) # "done"
       THEN Continues(t, [r EXCEPT !.stage = FirstStage(r), !.era = User.era,
                                   !.opens = r.op \in {"register", "managed", "verify", "reset"}
                                             \/ User.status = "none"])
       ELSE Ends(t)
    /\ UNCHANGED <<AtAccount, AtCodes, age, broken>>

\* findLatestValidOtp.
Unspent(type) == {c \in Code : /\ code[c].live /\ code[c].type = type /\ ~code[c].used
                               /\ age[c] # Expired}

Latest(type) == {c \in Unspent(type) : \A d \in Unspent(type) : d <= c}

\* findMatchingOtp: only the latest code is compared with the one typed.
Match(t) ==
    LET r == request[t] IN
    /\ r.stage = "match"
    /\ IF r.code \in Latest(r.type) THEN Continues(t, [r EXCEPT !.stage = "burn"]) ELSE Ends(t)
    /\ UNCHANGED <<AtAccount, AtCodes, age, broken>>

\* assertResendCooldownElapsed
Cool(t) ==
    LET r == request[t] IN
    /\ r.stage = "cool"
    /\ IF \E c \in Latest(r.type) : age[c] = Cooling
       THEN Ends(t) ELSE Continues(t, [r EXCEPT !.stage = "code"])
    /\ UNCHANGED <<AtAccount, AtCodes, age, broken>>

-----------------------------------------------------------------------------
(* Writes: in the request's transaction, or committed at once.             *)

\* Mutant: a reset burns its code outside its transaction.
InTxUnlessBurn(r) == r.opens /\ ~(r.op = "reset" /\ r.stage = "burn")

InTx(r) == r.opens

WriteAccount(t, p, row) ==
    /\ accountDraft' = [accountDraft EXCEPT ![p] = row]
    /\ IF InTx(request[t])
       THEN /\ Free(accountHolder, t, p)
            /\ accountHolder' = Lock(accountHolder, t, p) /\ UNCHANGED account
       ELSE /\ accountHolder[p] = NoTx
            /\ account' = [account EXCEPT ![p] = row] /\ UNCHANGED accountHolder
    /\ UNCHANGED <<AtCodes, age>>

WriteCode(t, c, row) ==
    /\ codeDraft' = [codeDraft EXCEPT ![c] = row]
    /\ IF InTx(request[t])
       THEN /\ Free(codeHolder, t, c)
            /\ codeHolder' = Lock(codeHolder, t, c) /\ UNCHANGED code
       ELSE /\ codeHolder[c] = NoTx
            /\ code' = [code EXCEPT ![c] = row] /\ UNCHANGED codeHolder

\* The rows of a new account: user and security, and the profile that nothing
\* here reads.  An account registered by e-mail has a password and a code.
Created(op) ==
    CASE op = "register" -> Account("PENDING", "EMAIL", 1, "no")
      [] op = "managed"  -> Account("ACTIVE", "EMAIL", 0, "yes")
      [] op = "social"   -> Account("ACTIVE", "GOOGLE", 0, "yes")

\* Mutant: a registration issues its code after its transaction.
AfterInsertCommit(op) == "commit"

AfterInsert(op) == IF op = "register" THEN "code" ELSE "commit"

\* One account per address (users_email_active_key): an insert waits for the
\* other one, and fails if it commits.  The rows are nobody else's, so the
\* statements that insert them are one step.
InsertAccount(t) ==
    LET r == request[t] IN
    /\ r.stage = "insert"
    /\ \A p \in Part : Free(accountHolder, t, p)
    /\ accountDraft["user"].status = "none"
    /\ accountDraft' = Created(r.op)
    /\ accountHolder' = [p \in Part |-> t]
    /\ Continues(t, [r EXCEPT !.stage = AfterInsert(r.op)])
    /\ UNCHANGED <<account, AtCodes, age, broken>>

\* createOtp: the next id of the sequence.
InsertCode(t) ==
    LET r == request[t] IN
    /\ r.stage = "code"
    /\ \E c \in Code :
          /\ ~codeDraft[c].live /\ \A d \in Code : d < c => codeDraft[d].live
          /\ WriteCode(t, c, [live |-> TRUE, type |-> r.type, used |-> FALSE, era |-> r.era])
          /\ age' = [age EXCEPT ![c] = Cooling]
    /\ IF r.opens THEN Continues(t, [r EXCEPT !.stage = "commit"]) ELSE Ends(t)
    /\ UNCHANGED <<AtAccount, broken>>

\* markAsUsed, by the id of the row that matched.  verifyOtp acts on signup
\* codes only; it burns any other and leaves the rest to another request.
Burn(t) ==
    LET r == request[t] IN
    /\ r.stage = "burn"
    /\ WriteCode(t, r.code, [codeDraft[r.code] EXCEPT !.used = TRUE])
    /\ Continues(t, [r EXCEPT !.stage = IF r.op = "reset" THEN "password"
                                        ELSE IF r.type = "SIGNUP" THEN "status" ELSE "commit"])
    /\ UNCHANGED <<AtAccount, age, broken>>

\* activateUser: the status ...
SetActive(t) ==
    LET r == request[t] IN
    /\ r.stage = "status"
    /\ WriteAccount(t, "user", [accountDraft["user"] EXCEPT !.status = "ACTIVE"])
    /\ Continues(t, [r EXCEPT !.stage = "verified"])
    /\ UNCHANGED broken

\* ... and the e-mail verification.
SetVerified(t) ==
    LET r == request[t] IN
    /\ r.stage = "verified"
    /\ WriteAccount(t, "security", [verified |-> "yes"])
    /\ IF r.opens THEN Continues(t, [r EXCEPT !.stage = "commit"]) ELSE Ends(t)
    /\ UNCHANGED broken

SetPassword(t) ==
    LET r == request[t] IN
    /\ r.stage = "password"
    /\ WriteAccount(t, "user", [accountDraft["user"] EXCEPT !.password = @ + 1])
    /\ IF r.opens THEN Continues(t, [r EXCEPT !.stage = "commit"]) ELSE Ends(t)
    /\ UNCHANGED broken

Deactivate(t) ==
    /\ request[t].stage = "deactivate"
    /\ WriteAccount(t, "user", [accountDraft["user"] EXCEPT !.status = "DEACTIVATED", !.era = @ + 1])
    /\ Ends(t)
    /\ UNCHANGED broken

Release(t) ==
    /\ accountHolder' = Unlock(accountHolder, t)
    /\ codeHolder' = Unlock(codeHolder, t)
    /\ Ends(t)
    /\ UNCHANGED age

Commit(t) ==
    /\ request[t].stage = "commit"
    /\ account' = View(account, accountDraft, accountHolder, t)
    /\ code' = View(code, codeDraft, codeHolder, t)
    /\ Release(t)
    /\ UNCHANGED <<accountDraft, codeDraft, broken>>

Abort(t) ==
    /\ request[t] # Idle
    /\ accountDraft' = Discard(account, accountDraft, accountHolder, t)
    /\ codeDraft' = Discard(code, codeDraft, codeHolder, t)
    /\ broken' = (broken \/ (request[t].op = "social" /\ request[t].stage = "verified"))
    /\ Release(t)
    /\ UNCHANGED <<account, code>>

\* Time passes: an older code is never younger than a newer one.
Ages(c) ==
    /\ code[c].live /\ age[c] # Expired
    /\ \A d \in Code : d < c => age[d] > age[c]
    /\ age' = [age EXCEPT ![c] = @ + 1]
    /\ UNCHANGED <<AtAccount, AtCodes, broken, request, alone>>

Ask(t) ==
    \/ BeginRegister(t) \/ BeginManaged(t) \/ BeginSocial(t)
    \/ \E type \in OtpType : BeginResend(t, type) \/ \E c \in Code : BeginVerify(t, type, c)
    \/ \E c \in Code : BeginReset(t, c)
    \/ BeginForgot(t) \/ BeginChange(t) \/ BeginDeactivate(t)

Serve(t) ==
    \/ Read(t) \/ Match(t) \/ Cool(t)
    \/ InsertAccount(t) \/ InsertCode(t) \/ Burn(t)
    \/ SetActive(t) \/ SetVerified(t) \/ SetPassword(t) \/ Deactivate(t)
    \/ Commit(t) \/ Abort(t)

AccountsNext == (\E t \in Tx : Ask(t) \/ Serve(t)) \/ (\E c \in Code : Ages(c))

AccountsSpec == AccountsInit /\ [][AccountsNext]_accountsVars

-----------------------------------------------------------------------------
\* A code is spent in the same step as what it is spent on, however requests
\* overlap and wherever they break off: a signup code with the activation and
\* the verification, a reset code with the new password (UserService: "the code
\* is spent and the password is written in one transaction").
SpentWithItsEffect == [][\A c \in Code : ~code[c].used /\ code'[c].used =>
    \E t \in Active :
       /\ request[t].code = c
       /\ request[t].op = "reset" => account'["user"].password > User.password
       /\ request[t].op = "verify" /\ request[t].type = "SIGNUP" =>
             account'["user"].status = "ACTIVE" /\ account'["security"].verified = "yes"]_accountsVars

\* Only what was read before a deactivation can undo it: a signup code issued
\* to a request that read the account before, or a social sign-in that did.
ReactivationIsOld == [][User.status = "DEACTIVATED" /\ account'["user"].status = "ACTIVE" =>
    \E t \in Active :
       \/ request[t].op = "verify" /\ code[request[t].code].era < User.era
       \/ request[t].op = "social" /\ request[t].era < User.era]_accountsVars

\* An account is never seen without its security row, a registration never
\* without a code to verify it by, and an active account is a verified one, but
\* for a social activation that is between its two statements or broke off
\* there.
AccountsAreWhole ==
    /\ User.status = "none" <=> account["security"].verified = "none"
    /\ User.status = "PENDING" => \E c \in Code : code[c].live /\ code[c].type = "SIGNUP"
    /\ User.status = "ACTIVE" /\ account["security"].verified # "yes" =>
          broken \/ \E t \in Active : request[t].op = "social" /\ request[t].stage = "verified"
=============================================================================
