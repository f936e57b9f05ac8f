------------------------------ MODULE AuthProofs ------------------------------
(***************************************************************************)
(* Proofs about Auth, for any clients, names, emails and life time of      *)
(* tokens, and any number of accounts, requests, ticks and restarts.       *)
(***************************************************************************)
EXTENDS Auth, TLAPS

Writing == {"write", "reopen", "rewrite"}   \* has an account to save

\* What a request holds at each point of its progress.
Stage ==
    \A c \in Clients :
        /\ pc[c] \in {"email", "open"} => user[c] \in Forms
        /\ pc[c] \in Writing => user[c] \in Accounts
        /\ pc[c] \in {"parse", "load", "in"} => token[c] \in Tokens

\* Files are under their own ids, which are drawn in order; the file of a new
\* account is torn, and nobody else writes to it, until it is saved.
Files ==
    /\ \A i \in Ids : i > ids => file[i] = Absent
    /\ \A i \in Loaded : file[i].id = i
    /\ \A c \in Clients : pc[c] \in Writing => user[c].id <= ids
    /\ \A c, d \in Clients :
         pc[c] = "write" =>
            /\ file[user[c].id] = Torn
            /\ pc[d] \in Writing /\ user[d].id = user[c].id => c = d

\* A token that was logged out is on the blacklist for as long as it parses.
Spent(t) == t.secret # secret \/ t.exp <= now
Listed(t) == \E e \in blacklist : e.token = t /\ t.exp <= e.exp
LoggedOut ==
    /\ secret <= restarts
    /\ \A c \in Clients : token[c].secret <= restarts
    /\ \A t \in out : t.secret <= restarts /\ (Spent(t) \/ Listed(t))

\* A disabled account stays so, since nobody is about to save another copy.
Disabled ==
    \A i \in off :
        /\ i <= ids
        /\ i \in Loaded => ~file[i].active
        /\ \A c \in Clients : pc[c] \in Writing => user[c].id # i

\* A request that is to be kept out is, by the checks that are left.
Barring ==
    \A c \in Clients :
        barred[c] =>
            /\ pc[c] = "parse" => Spent(token[c]) \/ token[c].user \in off
            /\ pc[c] = "load" => token[c].user \in off
            /\ pc[c] # "in"

IInv == TypeOK /\ Stage /\ Files /\ LoggedOut /\ Disabled /\ Barring

(* For unique names: *)

\* Accounts whose Register passed over none, on file or about to be saved again.
Clean ==
    {file[i] : i \in Loaded \ twins}
    \cup {user[c] : c \in {d \in Clients : pc[d] \in Writing /\ user[d].id \notin twins}}
\* Requests in Register that have passed over none so far.
Bidding == {c \in Clients : pc[c] \in {"email", "open"} /\ c \notin blurred}
Apart(a, b) ==
    IF a.id = b.id THEN a.name = b.name /\ a.email = b.email
                   ELSE a.name # b.name /\ a.email # b.email
Unique ==
    /\ \A a, b \in Clean : Apart(a, b)
    /\ \A c \in Bidding, a \in Clean :
         /\ a.name # user[c].name
         /\ pc[c] = "open" => a.email # user[c].email
    /\ \A c, d \in Bidding : c # d =>
         /\ user[c].name # user[d].name
         /\ pc[c] = "open" /\ pc[d] = "open" => user[c].email # user[d].email

UInv == IInv /\ Unique
-----------------------------------------------------------------------------
(* Accounts.                                                               *)

\* What the fields of an account are, and that it can be disabled.
LEMMA AccountFields ==
  ASSUME NEW a \in Accounts
  PROVE  /\ a.id \in Ids /\ a.name \in Names /\ a.email \in Emails
         /\ a.active \in BOOLEAN
         /\ a # Absent /\ a # Torn
         /\ [a EXCEPT !.active = FALSE] \in Accounts
  <1>1. a.id # 0
    BY AuthAssumption DEF Accounts, Ids
  <1>2. Absent.id = 0 /\ Torn.id = 0
    BY DEF Absent, Torn
  <1> QED
    BY <1>1, <1>2 DEF Accounts

\* What the fields of a form are, and that it becomes an account with an id.
LEMMA FormFields ==
  ASSUME NEW f \in Forms, NEW i \in Ids
  PROVE  /\ f.id = 0 /\ f.name \in Names /\ f.email \in Emails
         /\ [f EXCEPT !.id = i] \in Accounts
         /\ [f EXCEPT !.id = i].id = i
         /\ [f EXCEPT !.id = i].name = f.name
         /\ [f EXCEPT !.id = i].email = f.email
  BY DEF Forms, Accounts

\* A file that parses holds an account.
LEMMA LoadedAccount ==
  ASSUME TypeOK, NEW i \in Loaded
  PROVE  i \in Ids /\ file[i] \in Accounts
  BY DEF TypeOK, Loaded

-----------------------------------------------------------------------------
(* Type correctness.                                                       *)

\* The initial state has every part of the invariants.
LEMMA InitInv == Init => UInv
  <1> SUFFICES ASSUME Init PROVE UInv
    OBVIOUS
  <1> USE AuthAssumption
  <1>1. TypeOK
    <2>1. Lifetime \in Nat /\ MaxUsers \in Nat /\ MaxTime \in Nat
            /\ MaxOps \in Nat /\ MaxRestarts \in Nat
      OBVIOUS
    <2>2. /\ file \in [Ids -> Accounts \cup {Absent, Torn}]
          /\ pc \in [Clients -> Saving \cup {"idle", "parse", "load", "in"}]
          /\ user \in [Clients -> Forms \cup Accounts \cup {Absent}]
          /\ token \in [Clients -> Tokens \cup {NoToken}]
          /\ barred \in [Clients -> BOOLEAN]
          /\ blurred \subseteq Clients /\ twins \subseteq Ids
      BY DEF Init
    <2>3. ids \in 0 .. MaxUsers /\ now \in 0 .. MaxTime /\ ops \in 0 .. MaxOps
            /\ {secret, restarts} \subseteq 0 .. MaxRestarts
      BY <2>1 DEF Init
    <2>4. blacklist \subseteq [token : Tokens, exp : Nat]
            /\ out \subseteq Tokens /\ off \subseteq Ids
      BY DEF Init
    <2> QED
      BY <2>2, <2>3, <2>4 DEF TypeOK
  <1>2. Stage /\ LoggedOut /\ Disabled /\ Barring
    BY DEF Init, Stage, LoggedOut, Disabled, Barring, NoToken, Writing
  <1>3. Loaded = {}
    BY DEF Init, Loaded
  <1>4. Files
    BY <1>3 DEF Init, Files, Writing
  <1>5. Unique
    BY <1>3 DEF Init, Unique, Bidding, Clean, Writing
  <1> QED
    BY <1>1, <1>2, <1>4, <1>5 DEF UInv, IInv

\* Types and the registers of each request are kept by every step.
LEMMA TypeNext == TypeOK /\ Stage /\ [Next]_vars => TypeOK' /\ Stage'
  <1> SUFFICES ASSUME TypeOK, Stage, [Next]_vars PROVE TypeOK' /\ Stage'
    OBVIOUS
  <1> USE AuthAssumption
      DEF TypeOK, Stage, Step, Holds, disk, session, rest, marks, Begin,
          Saving, Writing
  <1>1. ASSUME NEW c \in Clients, RegisterName(c) PROVE TypeOK' /\ Stage'
    BY <1>1 DEF RegisterName
  <1>2. ASSUME NEW c \in Clients, RegisterEmail(c) \/ RegisterFails(c)
        PROVE  TypeOK' /\ Stage'
    BY <1>2 DEF RegisterEmail, LookedUp, RegisterFails
  <1>3. ASSUME NEW c \in Clients, RegisterOpen(c) PROVE TypeOK' /\ Stage'
    <2>1. ids + 1 \in Ids
      BY <1>3 DEF RegisterOpen, Ids
    <2>2. [user[c] EXCEPT !.id = ids + 1] \in Accounts
      BY <1>3, <2>1, FormFields DEF RegisterOpen
    <2>3. /\ file' \in [Ids -> Accounts \cup {Absent, Torn}]
          /\ user' = [user EXCEPT ![c] = [user[c] EXCEPT !.id = ids + 1]]
          /\ ids' \in 0 .. MaxUsers
      BY <1>3, <2>1 DEF RegisterOpen, Ids
    <2>4. user' \in [Clients -> Forms \cup Accounts \cup {Absent}]
            /\ user'[c] \in Accounts
            /\ \A d \in Clients \ {c} : user'[d] = user[d]
      BY <2>2, <2>3
    <2> QED
      BY <1>3, <2>3, <2>4 DEF RegisterOpen
  <1>4. ASSUME NEW c \in Clients, RegisterWrite(c) PROVE TypeOK' /\ Stage'
    <2>1. user[c] \in Accounts
      BY <1>4 DEF RegisterWrite
    <2>2. file' \in [Ids -> Accounts \cup {Absent, Torn}]
      BY <1>4, <2>1, AccountFields DEF RegisterWrite, Save
    <2> QED
      BY <1>4, <2>2 DEF RegisterWrite
  <1>5. ASSUME NEW c \in Clients, LoginFind(c) PROVE TypeOK' /\ Stage'
    <2>1. PICK i \in Loaded : Holds(c, file[i]) /\ Step(c, "idle", "reopen")
      BY <1>5 DEF LoginFind
    <2>2. file[i] \in Accounts
      BY LoadedAccount
    <2> QED
      BY <1>5, <2>1, <2>2 DEF LoginFind
  <1>6. ASSUME NEW c \in Clients, LoginOpen(c) PROVE TypeOK' /\ Stage'
    BY <1>6 DEF LoginOpen
  <1>7. ASSUME NEW c \in Clients, LoginWrite(c) PROVE TypeOK' /\ Stage'
    <2>1. user[c] \in Accounts /\ user[c].id \in Ids
      BY <1>7, AccountFields DEF LoginWrite
    <2>2. file' \in [Ids -> Accounts \cup {Absent, Torn}]
      BY <1>7, <2>1, AccountFields DEF LoginWrite, Save
    <2>3. [user |-> user[c].id, exp |-> now + Lifetime, secret |-> secret] \in Tokens
      BY <2>1 DEF Tokens
    <2> QED
      BY <1>7, <2>2, <2>3 DEF LoginWrite
  <1>8. ASSUME NEW c \in Clients, Logout(c) PROVE TypeOK' /\ Stage'
    <2>1. PICK d \in Clients :
            /\ token[d] # NoToken
            /\ blacklist' =
                 {e \in blacklist : e.token # token[d]}
                 \cup {[token |-> token[d],
                        exp |-> IF Parses(token[d]) THEN token[d].exp
                                                    ELSE now + Lifetime]}
            /\ out' = out \cup {token[d]}
      BY <1>8 DEF Logout
    <2>2. token[d] \in Tokens /\ token[d].exp \in Nat
      BY <2>1 DEF Tokens
    <2>3. blacklist' \subseteq [token : Tokens, exp : Nat]
      BY <2>1, <2>2
    <2> QED
      BY <1>8, <2>1, <2>2, <2>3 DEF Logout
  <1>9. ASSUME NEW c \in Clients, ValidateRevoked(c) PROVE TypeOK' /\ Stage'
    BY <1>9 DEF ValidateRevoked
  <1>10. ASSUME NEW c \in Clients, ValidateParse(c) PROVE TypeOK' /\ Stage'
    BY <1>10 DEF ValidateParse, Refuse
  <1>11. ASSUME NEW c \in Clients, ValidateLoad(c) PROVE TypeOK' /\ Stage'
    BY <1>11 DEF ValidateLoad, Refuse
  <1>12. ASSUME NEW c \in Clients, Finish(c) PROVE TypeOK' /\ Stage'
    BY <1>12 DEF Finish, Refuse
  <1>13. ASSUME Disable PROVE TypeOK' /\ Stage'
    <2>1. PICK i \in Loaded : file' = [file EXCEPT ![i].active = FALSE]
                              /\ off' \in {off, off \cup {i}}
      BY <1>13 DEF Disable
    <2>2. file' = [file EXCEPT ![i] = [file[i] EXCEPT !.active = FALSE]]
      BY <2>1, LoadedAccount
    <2>3. file' \in [Ids -> Accounts \cup {Absent, Torn}] /\ off' \subseteq Ids
      BY <2>1, <2>2, LoadedAccount, AccountFields
    <2> QED
      BY <1>13, <2>3 DEF Disable
  <1>14. ASSUME Tick PROVE TypeOK' /\ Stage'
    BY <1>14 DEF Tick
  <1>15. ASSUME Restart PROVE TypeOK' /\ Stage'
    BY <1>15 DEF Restart
  <1>16. CASE UNCHANGED vars
    BY <1>16 DEF vars
  <1> QED
    BY <1>1, <1>2, <1>3, <1>4, <1>5, <1>6, <1>7, <1>8, <1>9, <1>10, <1>11,
       <1>12, <1>13, <1>14, <1>15, <1>16 DEF Next

\* For any bounds, variables keep to their types.
THEOREM TypeCorrect == Spec => []TypeOK
  <1>1. Init => TypeOK /\ Stage
    BY InitInv DEF UInv, IInv
  <1> QED
    BY <1>1, TypeNext, PTL DEF Spec

-----------------------------------------------------------------------------
(* Accounts and their files.                                               *)

\* What most steps do to accounts: nothing, though a request may be over.
Quiet ==
    /\ UNCHANGED <<file, ids>>
    /\ \A d \in Clients : pc'[d] \in Writing => pc'[d] = pc[d] /\ user'[d] = user[d]

\* Steps that write no account and hand out no id.
LEMMA QuietSteps ==
  ASSUME TypeOK,
         \/ \E c \in Clients :
              \/ RegisterName(c) \/ RegisterEmail(c) \/ RegisterFails(c)
              \/ Logout(c) \/ ValidateRevoked(c) \/ ValidateParse(c)
              \/ ValidateLoad(c) \/ Finish(c)
         \/ Tick \/ Restart \/ UNCHANGED vars
  PROVE  Quiet
  <1> USE DEF TypeOK, Quiet, Step, Holds, disk, Writing, Refuse
  <1>1. ASSUME NEW c \in Clients,
               \/ RegisterName(c) \/ RegisterEmail(c) \/ RegisterFails(c)
               \/ Logout(c) \/ Finish(c)
        PROVE  Quiet
    BY <1>1 DEF RegisterName, RegisterEmail, LookedUp, RegisterFails, Logout, Finish
  <1>2. ASSUME NEW c \in Clients,
               \/ ValidateRevoked(c) \/ ValidateParse(c) \/ ValidateLoad(c)
        PROVE  Quiet
    BY <1>2 DEF ValidateRevoked, ValidateParse, ValidateLoad
  <1>3. ASSUME Tick \/ Restart \/ UNCHANGED vars PROVE Quiet
    BY <1>3 DEF Tick, Restart, vars
  <1> QED
    BY <1>1, <1>2, <1>3

\* Both saves put the request's account under its id, or fail.
Saved(c) == file' = file \/ file' = [file EXCEPT ![user[c].id] = user[c]]

\* The last steps of Register and Login write the account they hold.
LEMMA SaveSteps ==
  ASSUME NEW c \in Clients, RegisterWrite(c) \/ LoginWrite(c), TypeOK, Stage
  PROVE  /\ Saved(c) /\ pc[c] \in Writing /\ pc'[c] = "idle"
         /\ UNCHANGED <<ids, off>>
         /\ user[c] \in Accounts
         /\ \A d \in Clients \ {c} : pc'[d] = pc[d] /\ user'[d] = user[d]
  BY DEF RegisterWrite, LoginWrite, Saved, Save, Step, Holds, TypeOK, Stage,
         Writing, disk, rest

\* Login takes an account that it has read, if it is active.
LEMMA FindSteps ==
  ASSUME NEW c \in Clients, LoginFind(c), TypeOK
  PROVE  \E i \in Loaded :
            /\ file[i].active /\ user'[c] = file[i] /\ pc'[c] = "reopen"
            /\ UNCHANGED <<file, ids, off>>
            /\ \A d \in Clients \ {c} : pc'[d] = pc[d] /\ user'[d] = user[d]
  BY DEF LoginFind, Step, Holds, TypeOK, disk, rest

\* Register gives the next id to its form.
LEMMA OpenSteps ==
  ASSUME NEW c \in Clients, RegisterOpen(c), TypeOK, Stage
  PROVE  /\ ids + 1 \in Ids /\ ids' = ids + 1
         /\ user[c] \in Forms /\ user'[c].id = ids + 1
         /\ user'[c].name = user[c].name /\ user'[c].email = user[c].email
         /\ pc[c] = "open" /\ pc'[c] = "write"
         /\ file' = [file EXCEPT ![ids + 1] = Torn]
         /\ UNCHANGED off
         /\ \A d \in Clients \ {c} : pc'[d] = pc[d] /\ user'[d] = user[d]
  <1>1. ids + 1 \in Ids
    BY AuthAssumption DEF RegisterOpen, TypeOK, Ids
  <1> DEFINE numbered == [user[c] EXCEPT !.id = ids + 1]
  <1>2. /\ user' = [user EXCEPT ![c] = numbered] /\ ids' = ids + 1
        /\ pc[c] = "open" /\ pc' = [pc EXCEPT ![c] = "write"]
        /\ file' = [file EXCEPT ![ids + 1] = Torn] /\ UNCHANGED off
    BY DEF RegisterOpen, Step, Holds, rest
  <1>3. user[c] \in Forms
    BY <1>2 DEF Stage
  <1>4. /\ numbered.id = ids + 1
        /\ numbered.name = user[c].name /\ numbered.email = user[c].email
    BY <1>1, <1>3, FormFields
  <1> HIDE DEF numbered
  <1>5. /\ user'[c] = numbered /\ pc'[c] = "write"
        /\ \A d \in Clients \ {c} : pc'[d] = pc[d] /\ user'[d] = user[d]
    BY <1>2 DEF TypeOK
  <1> QED
    BY <1>1, <1>2, <1>3, <1>4, <1>5

\* Disabling writes the account with active off; it counts as off unless
\* somebody is about to write a copy.
LEMMA DisableSteps ==
  ASSUME Disable, TypeOK
  PROVE  \E i \in Loaded :
            /\ file' = [file EXCEPT ![i] = [file[i] EXCEPT !.active = FALSE]]
            /\ \/ off' = off
               \/ /\ off' = off \cup {i}
                  /\ \A c \in Clients :
                       pc[c] \in {"reopen", "rewrite"} => user[c].id # i
            /\ UNCHANGED <<ids, pc, user>>
  <1>1. PICK i \in Loaded :
            /\ file' = [file EXCEPT ![i].active = FALSE]
            /\ off' = IF \E c \in Clients : pc[c] \in {"reopen", "rewrite"}
                                              /\ user[c].id = i
                      THEN off ELSE off \cup {i}
            /\ UNCHANGED <<ids, pc, user>>
    BY DEF Disable
  <1>2. file' = [file EXCEPT ![i] = [file[i] EXCEPT !.active = FALSE]]
    BY <1>1, LoadedAccount
  <1> QED
    BY <1>1, <1>2

\* Every loaded file has the account of its own id, and no id is ahead of the counter.
LEMMA FilesNext == TypeOK /\ Stage /\ Files /\ [Next]_vars => Files'
  <1> SUFFICES ASSUME TypeOK, Stage, Files, [Next]_vars PROVE Files'
    OBVIOUS
  <1>1. ids \in Nat /\ \A i \in Ids : i \in Nat
    BY AuthAssumption DEF TypeOK, Ids
  <1>2. \A c \in Clients : pc[c] \in Writing => user[c] \in Accounts
                                                /\ user[c].id \in Ids
    BY AccountFields DEF Stage
  <1>3. \A i \in Loaded : i <= ids
    BY <1>1 DEF Files, Loaded
  <1>4. CASE Quiet
    BY <1>4 DEF Quiet, Files, Loaded, Writing
  <1>5. ASSUME NEW c \in Clients, RegisterOpen(c) PROVE Files'
    <2>1. /\ ids + 1 \in Ids /\ ids' = ids + 1
          /\ pc'[c] = "write" /\ user'[c].id = ids + 1
          /\ file' = [file EXCEPT ![ids + 1] = Torn]
          /\ \A d \in Clients \ {c} : pc'[d] = pc[d] /\ user'[d] = user[d]
      BY <1>5, OpenSteps
    <2>2. \A i \in Loaded' : i \in Loaded /\ file'[i] = file[i]
      BY <2>1 DEF Loaded, TypeOK
    <2>3. file'[ids + 1] = Torn /\ \A i \in Ids \ {ids + 1} : file'[i] = file[i]
      BY <2>1 DEF TypeOK
    <2>4. \A d \in Clients \ {c} : pc'[d] \in Writing => user'[d].id # ids + 1
                                                          /\ user'[d].id <= ids
      BY <1>1, <1>2, <2>1 DEF Files, Ids
    <2> QED
      BY <1>1, <1>2, <2>1, <2>2, <2>3, <2>4 DEF Files, Writing, Ids
  <1>6. ASSUME NEW c \in Clients, RegisterWrite(c) \/ LoginWrite(c) PROVE Files'
    <2>1. /\ Saved(c) /\ pc[c] \in Writing /\ pc'[c] = "idle" /\ ids' = ids
          /\ user[c] \in Accounts /\ user[c].id \in Ids
          /\ \A d \in Clients \ {c} : pc'[d] = pc[d] /\ user'[d] = user[d]
      BY <1>2, <1>6, SaveSteps
    <2>2. /\ \A i \in Ids \ {user[c].id} : file'[i] = file[i]
          /\ file'[user[c].id] \in {user[c], file[user[c].id]}
      BY <2>1 DEF Saved, TypeOK
    <2>3. user[c].id <= ids
      BY <2>1 DEF Files
    <2>4. \A d \in Clients \ {c} : pc[d] = "write" => user[d].id # user[c].id
      BY <2>1 DEF Files
    <2> QED
      BY <1>1, <1>2, <2>1, <2>2, <2>3, <2>4 DEF Files, Loaded, Writing
  <1>7. ASSUME NEW c \in Clients, LoginFind(c) PROVE Files'
    <2>1. PICK i \in Loaded :
            /\ user'[c] = file[i] /\ pc'[c] = "reopen"
            /\ UNCHANGED <<file, ids>>
            /\ \A d \in Clients \ {c} : pc'[d] = pc[d] /\ user'[d] = user[d]
      BY <1>7, FindSteps
    <2>2. user'[c].id = i /\ i <= ids /\ file[i] # Torn
      BY <1>3, <2>1 DEF Files, Loaded
    <2> QED
      BY <2>1, <2>2 DEF Files, Loaded, Writing
  <1>8. ASSUME NEW c \in Clients, LoginOpen(c) PROVE Files'
    <2>1. /\ pc[c] = "reopen" /\ pc'[c] = "rewrite" /\ user' = user /\ ids' = ids
          /\ file' = [file EXCEPT ![user[c].id] = Torn]
          /\ \A d \in Clients \ {c} : pc'[d] = pc[d]
      BY <1>8 DEF LoginOpen, Step, TypeOK
    <2>2. user[c].id \in Ids /\ user[c].id <= ids
      BY <1>2, <2>1 DEF Files, Writing
    <2>3. /\ \A i \in Ids \ {user[c].id} : file'[i] = file[i]
          /\ file'[user[c].id] = Torn
      BY <2>1, <2>2 DEF TypeOK
    <2> QED
      BY <1>1, <1>2, <2>1, <2>2, <2>3 DEF Files, Loaded, Writing
  <1>9. ASSUME Disable PROVE Files'
    <2>1. PICK i \in Loaded :
            /\ file' = [file EXCEPT ![i] = [file[i] EXCEPT !.active = FALSE]]
            /\ UNCHANGED <<ids, pc, user>>
      BY <1>9, DisableSteps
    <2>2. file[i] \in Accounts /\ [file[i] EXCEPT !.active = FALSE].id = file[i].id
      BY LoadedAccount DEF Accounts
    <2>3. /\ \A j \in Ids \ {i} : file'[j] = file[j]
          /\ file'[i].id = i /\ i <= ids
      BY <1>3, <2>1, <2>2 DEF TypeOK, Files, Loaded
    <2>4. \A c \in Clients : pc[c] = "write" => user[c].id # i
      BY DEF Files, Loaded
    <2> QED
      BY <1>1, <1>2, <2>1, <2>3, <2>4 DEF Files, Loaded, Writing
  <1> QED
    BY <1>4, <1>5, <1>6, <1>7, <1>8, <1>9, QuietSteps DEF Next

-----------------------------------------------------------------------------
(* Tokens that were logged out, and accounts that were disabled.           *)

\* A token that was logged out is on the blacklist, or expired, or of an old secret.
LEMMA LoggedOutNext == TypeOK /\ Stage /\ LoggedOut /\ [Next]_vars => LoggedOut'
  <1> SUFFICES ASSUME TypeOK, Stage, LoggedOut, [Next]_vars PROVE LoggedOut'
    OBVIOUS
  <1>1. /\ secret \in Nat /\ restarts \in Nat /\ now \in Nat /\ Lifetime \in Nat
        /\ \A t \in out : t.exp \in Nat /\ t.secret \in Nat
        /\ \A c \in Clients : token[c].exp \in Nat /\ token[c].secret \in Nat
    BY AuthAssumption DEF TypeOK, Tokens, NoToken
  <1>2. CASE UNCHANGED session /\ UNCHANGED <<now, restarts>>
    BY <1>2 DEF session, LoggedOut, Spent, Listed
  <1>3. ASSUME NEW c \in Clients, LoginWrite(c) PROVE LoggedOut'
    <2>1. /\ token' = [token EXCEPT ![c] =
                [user |-> user[c].id, exp |-> now + Lifetime, secret |-> secret]]
          /\ UNCHANGED <<blacklist, secret, out, now, restarts>>
      BY <1>3 DEF LoginWrite, rest
    <2>2. \A d \in Clients : token'[d].secret \in {secret, token[d].secret}
      BY <2>1 DEF TypeOK
    <2> QED
      BY <1>1, <2>1, <2>2 DEF LoggedOut, Spent, Listed
  <1>4. ASSUME NEW c \in Clients, Logout(c) PROVE LoggedOut'
    <2>1. PICK d \in Clients :
            /\ token[d] # NoToken
            /\ blacklist' =
                 {e \in blacklist : e.token # token[d]}
                 \cup {[token |-> token[d],
                        exp |-> IF Parses(token[d]) THEN token[d].exp
                                                    ELSE now + Lifetime]}
            /\ out' = out \cup {token[d]}
            /\ UNCHANGED <<secret, token, now, restarts>>
      BY <1>4 DEF Logout, rest
    <2>2. Spent(token[d])' \/ Listed(token[d])'
      <3>1. CASE Parses(token[d])
        <4> DEFINE e == [token |-> token[d], exp |-> token[d].exp]
        <4>1. e \in blacklist' /\ e.token = token'[d] /\ token'[d].exp <= e.exp
          BY <1>1, <2>1, <3>1
        <4> QED
          BY <4>1 DEF Listed
      <3>2. CASE ~Parses(token[d])
        BY <1>1, <2>1, <3>2 DEF Spent, Parses
      <3> QED
        BY <3>1, <3>2
    <2>3. ASSUME NEW t \in out, t # token[d] PROVE Spent(t)' \/ Listed(t)'
      <3>1. CASE Spent(t)
        BY <2>1, <3>1 DEF Spent
      <3>2. CASE Listed(t)
        <4>1. PICK e \in blacklist : e.token = t /\ t.exp <= e.exp
          BY <3>2 DEF Listed
        <4>2. e \in blacklist'
          BY <2>1, <2>3, <4>1
        <4> QED
          BY <4>1, <4>2 DEF Listed
      <3> QED
        BY <3>1, <3>2 DEF LoggedOut
    <2>4. \A t \in out' : t = token[d] \/ (t \in out /\ t # token[d])
      BY <2>1
    <2>5. token[d].secret <= restarts
      BY DEF LoggedOut
    <2>6. token'[d] = token[d]
      BY <2>1
    <2> QED
      BY <2>1, <2>2, <2>3, <2>4, <2>5, <2>6 DEF LoggedOut, Spent, Listed
  <1>5. ASSUME NEW c \in Clients, ValidateRevoked(c) PROVE LoggedOut'
    <2>1. PICK d \in Clients :
            /\ token' = [token EXCEPT ![c] = token[d]]
            /\ UNCHANGED <<blacklist, secret, out, now, restarts>>
      BY <1>5 DEF ValidateRevoked, rest
    <2>2. \A f \in Clients : token'[f] \in {token[d], token[f]}
      BY <2>1 DEF TypeOK
    <2> QED
      BY <2>1, <2>2 DEF LoggedOut, Spent, Listed
  <1>6. ASSUME NEW c \in Clients,
               ValidateParse(c) \/ ValidateLoad(c) \/ Finish(c)
        PROVE  LoggedOut'
    BY <1>6 DEF ValidateParse, ValidateLoad, Finish, rest, LoggedOut, Spent, Listed
  <1>7. ASSUME Tick PROVE LoggedOut'
    <2>1. now' = now + 1 /\ UNCHANGED <<blacklist, secret, token, out, restarts>>
      BY <1>7 DEF Tick, session
    <2> QED
      BY <1>1, <2>1 DEF LoggedOut, Spent, Listed
  <1>8. ASSUME Restart PROVE LoggedOut'
    <2>1. /\ restarts' = restarts + 1 /\ token' = token
          /\ \/ secret' = secret /\ out' = {}
             \/ secret' = restarts + 1 /\ out' = out
      BY <1>8 DEF Restart
    <2> QED
      BY <1>1, <2>1 DEF LoggedOut, Spent
  <1>9. ASSUME NEW c \in Clients,
               \/ RegisterName(c) \/ RegisterEmail(c) \/ RegisterFails(c)
               \/ RegisterOpen(c) \/ RegisterWrite(c)
               \/ LoginFind(c) \/ LoginOpen(c)
        PROVE  UNCHANGED session /\ UNCHANGED <<now, restarts>>
    BY <1>9 DEF RegisterName, RegisterEmail, LookedUp, RegisterFails, RegisterOpen,
       RegisterWrite, LoginFind, LoginOpen, session, rest
  <1>10. Disable \/ UNCHANGED vars =>
            UNCHANGED session /\ UNCHANGED <<now, restarts>>
    BY DEF Disable, vars, session
  <1> QED
    BY <1>2, <1>3, <1>4, <1>5, <1>6, <1>7, <1>8, <1>9, <1>10 DEF Next

\* An account in off stays disabled: nobody is about to write a copy of it.
LEMMA DisabledNext ==
  TypeOK /\ Stage /\ Files /\ Disabled /\ [Next]_vars => Disabled'
  <1> SUFFICES ASSUME TypeOK, Stage, Files, Disabled, [Next]_vars PROVE Disabled'
    OBVIOUS
  <1>1. /\ ids \in Nat /\ off \subseteq Ids /\ \A i \in Ids : i \in Nat
        /\ \A i \in Loaded : i \in Ids /\ i <= ids
    BY AuthAssumption DEF TypeOK, Ids, Files, Loaded
  <1>2. CASE Quiet /\ UNCHANGED off
    BY <1>2 DEF Quiet, Disabled, Loaded, Writing
  <1>3. ASSUME NEW c \in Clients, RegisterOpen(c) PROVE Disabled'
    <2>1. /\ ids + 1 \in Ids /\ ids' = ids + 1 /\ UNCHANGED off
          /\ pc'[c] = "write" /\ user'[c].id = ids + 1
          /\ file' = [file EXCEPT ![ids + 1] = Torn]
          /\ \A d \in Clients \ {c} : pc'[d] = pc[d] /\ user'[d] = user[d]
      BY <1>3, OpenSteps
    <2>2. \A i \in Loaded' : i \in Loaded /\ file'[i] = file[i]
      BY <2>1 DEF Loaded, TypeOK
    <2> QED
      BY <1>1, <2>1, <2>2 DEF Disabled
  <1>4. ASSUME NEW c \in Clients, RegisterWrite(c) \/ LoginWrite(c) PROVE Disabled'
    <2>1. /\ Saved(c) /\ pc[c] \in Writing /\ pc'[c] = "idle"
          /\ UNCHANGED <<ids, off>>
          /\ user[c] \in Accounts /\ user[c].id \in Ids
          /\ \A d \in Clients \ {c} : pc'[d] = pc[d] /\ user'[d] = user[d]
      BY <1>4, SaveSteps, AccountFields
    <2>2. \A i \in Ids \ {user[c].id} : file'[i] = file[i]
      BY <2>1 DEF Saved, TypeOK
    <2>3. user[c].id \notin off
      BY <2>1 DEF Disabled
    <2> QED
      BY <1>1, <2>1, <2>2, <2>3 DEF Disabled, Loaded, Writing
  <1>5. ASSUME NEW c \in Clients, LoginFind(c) PROVE Disabled'
    <2>1. PICK i \in Loaded :
            /\ file[i].active /\ user'[c] = file[i]
            /\ UNCHANGED <<file, ids, off>>
            /\ \A d \in Clients \ {c} : pc'[d] = pc[d] /\ user'[d] = user[d]
      BY <1>5, FindSteps
    <2>2. user'[c].id = i /\ i \notin off
      BY <2>1 DEF Files, Disabled
    <2> QED
      BY <2>1, <2>2 DEF Disabled, Loaded
  <1>6. ASSUME NEW c \in Clients, LoginOpen(c) PROVE Disabled'
    <2>1. /\ pc[c] = "reopen" /\ UNCHANGED <<user, ids, off>>
          /\ file' = [file EXCEPT ![user[c].id] = Torn]
          /\ \A d \in Clients \ {c} : pc'[d] = pc[d]
      BY <1>6 DEF LoginOpen, Step, TypeOK, rest
    <2>2. \A i \in Loaded' : i \in Loaded /\ file'[i] = file[i]
      BY <2>1 DEF Loaded, TypeOK
    <2> QED
      BY <2>1, <2>2 DEF Disabled, Writing
  <1>7. ASSUME Disable PROVE Disabled'
    <2>1. PICK i \in Loaded :
            /\ file' = [file EXCEPT ![i] = [file[i] EXCEPT !.active = FALSE]]
            /\ \/ off' = off
               \/ /\ off' = off \cup {i}
                  /\ \A c \in Clients :
                       pc[c] \in {"reopen", "rewrite"} => user[c].id # i
            /\ UNCHANGED <<ids, pc, user>>
      BY <1>7, DisableSteps
    <2>2. file[i] \in Accounts /\ ~[file[i] EXCEPT !.active = FALSE].active
      BY LoadedAccount DEF Accounts
    <2>3. /\ \A j \in Ids \ {i} : file'[j] = file[j]
          /\ ~file'[i].active /\ i \in Ids /\ i <= ids
      BY <1>1, <2>1, <2>2 DEF TypeOK
    <2>4. \A c \in Clients : pc[c] = "write" => user[c].id # i
      BY DEF Files, Loaded
    <2>5. \A j \in Ids \ {i} : j \in Loaded' => j \in Loaded
      BY <2>3 DEF Loaded
    <2> QED
      BY <1>1, <2>1, <2>3, <2>4, <2>5 DEF Disabled, Writing
  <1>8. ASSUME NEW c \in Clients,
               \/ RegisterName(c) \/ RegisterEmail(c) \/ RegisterFails(c)
               \/ Logout(c) \/ ValidateRevoked(c) \/ ValidateParse(c)
               \/ ValidateLoad(c) \/ Finish(c)
        PROVE  UNCHANGED off
    BY <1>8 DEF RegisterName, RegisterEmail, LookedUp, RegisterFails, Logout, ValidateRevoked,
       ValidateParse, ValidateLoad, Finish, rest
  <1>9. Tick \/ Restart \/ UNCHANGED vars => UNCHANGED off
    BY DEF Tick, Restart, vars
  <1> QED
    BY <1>2, <1>3, <1>4, <1>5, <1>6, <1>7, <1>8, <1>9, QuietSteps DEF Next

\* A request that is barred does not get past the check that should stop it.
LEMMA BarringNext ==
  TypeOK /\ Stage /\ LoggedOut /\ Disabled /\ Barring /\ [Next]_vars => Barring'
  <1> SUFFICES ASSUME TypeOK, Stage, LoggedOut, Disabled, Barring, [Next]_vars
               PROVE  Barring'
    OBVIOUS
  <1> DEFINE Kept(d) ==
        pc'[d] \in {"parse", "load", "in"} =>
            pc'[d] = pc[d] /\ token'[d] = token[d] /\ barred'[d] = barred[d]
  <1> DEFINE Lasting == /\ off \subseteq off'
                        /\ \A t \in Tokens : Spent(t) => Spent(t)'
  <1>1. /\ now \in Nat /\ secret \in Nat
        /\ \A t \in Tokens : t.exp \in Nat /\ t.secret \in Nat
        /\ \A e \in blacklist : e.exp \in Nat
    BY AuthAssumption DEF TypeOK, Tokens
  <1>2. ASSUME Lasting, NEW d \in Clients, Kept(d), barred'[d]
        PROVE  /\ pc'[d] = "parse" => Spent(token[d])' \/ token'[d].user \in off'
               /\ pc'[d] = "load" => token'[d].user \in off'
               /\ pc'[d] # "in"
    <2>1. CASE pc'[d] \in {"parse", "load", "in"}
      <3>1. pc'[d] = pc[d] /\ token'[d] = token[d] /\ barred[d]
        BY <1>2, <2>1
      <3>2. token[d] \in Tokens
        BY <2>1, <3>1 DEF Stage
      <3>3. Spent(token[d]) => Spent(token[d])'
        BY <1>2, <3>1, <3>2 DEF Spent
      <3> QED
        BY <1>2, <3>1, <3>3 DEF Barring
    <2> QED
      BY <2>1
  <1>3. CASE Lasting /\ \A d \in Clients : Kept(d)
    BY <1>2, <1>3 DEF Barring
  <1>4. ASSUME NEW c \in Clients, ValidateRevoked(c) PROVE Barring'
    <2>1. PICK t \in {token[d] : d \in Clients} :
            /\ t # NoToken /\ ~IsTokenRevoked(t)
            /\ pc' = [pc EXCEPT ![c] = "parse"]
            /\ token' = [token EXCEPT ![c] = t]
            /\ barred' = [barred EXCEPT ![c] = t \in out \/ t.user \in off]
            /\ UNCHANGED <<blacklist, secret, out, now, off>>
      BY <1>4 DEF ValidateRevoked, Step, rest
    <2>2. t \in Tokens
      BY <2>1 DEF TypeOK
    <2>3. t \in out => Spent(t)
      BY <1>1, <2>1, <2>2 DEF LoggedOut, Listed, Spent, IsTokenRevoked
    <2>4. Lasting /\ \A d \in Clients \ {c} : Kept(d)
      BY <2>1 DEF TypeOK, Spent
    <2>5. /\ pc'[c] = "parse" /\ token'[c] = t
          /\ barred'[c] = (t \in out \/ t.user \in off)
      BY <2>1 DEF TypeOK
    <2>6. barred'[c] => Spent(token[c])' \/ token'[c].user \in off'
      <3>1. barred'[c] => t \in out \/ t.user \in off
        BY <2>5, Zenon
      <3>2. Spent(t) => Spent(token[c])'
        BY <2>1, <2>5 DEF Spent
      <3> QED
        BY <2>1, <2>3, <2>5, <3>1, <3>2
    <2> HIDE DEF Lasting, Kept
    <2> QED
      BY <1>2, <2>4, <2>5, <2>6 DEF Barring
  <1>5. ASSUME NEW c \in Clients, ValidateParse(c) PROVE Barring'
    <2>1. /\ UNCHANGED <<secret, token, now, off>>
          /\ \/ Parses(token[c]) /\ Step(c, "parse", "load") /\ UNCHANGED barred
             \/ Refuse(c)
      BY <1>5 DEF ValidateParse, rest
    <2>2. Lasting /\ \A d \in Clients \ {c} : Kept(d)
      BY <2>1 DEF TypeOK, Spent, Step, Refuse
    <2>3. CASE Refuse(c)
      <3>1. pc'[c] = "idle"
        BY <2>3 DEF Refuse, TypeOK
      <3> HIDE DEF Lasting, Kept
      <3> QED
        BY <1>2, <2>2, <3>1 DEF Barring
    <2>4. CASE Parses(token[c]) /\ Step(c, "parse", "load") /\ UNCHANGED barred
      <3>1. pc[c] = "parse" /\ pc'[c] = "load" /\ barred' = barred
        BY <2>4 DEF Step, TypeOK
      <3>2. token[c] \in Tokens
        BY <3>1 DEF Stage
      <3>3. ~Spent(token[c])
        BY <1>1, <2>4, <3>2 DEF Spent, Parses
      <3>4. barred[c] => token[c].user \in off
        BY <3>1, <3>3 DEF Barring
      <3> HIDE DEF Lasting, Kept
      <3> QED
        BY <1>2, <2>1, <2>2, <3>1, <3>4 DEF Barring
    <2> QED
      BY <2>1, <2>3, <2>4
  <1>6. ASSUME NEW c \in Clients, ValidateLoad(c) PROVE Barring'
    <2>1. /\ UNCHANGED <<secret, token, now, off>>
          /\ \/ /\ Step(c, "load", "in") /\ UNCHANGED barred
                /\ token[c].user \in Loaded /\ file[token[c].user].active
             \/ Refuse(c)
      BY <1>6 DEF ValidateLoad, rest
    <2>2. Lasting /\ \A d \in Clients \ {c} : Kept(d)
      BY <2>1 DEF TypeOK, Spent, Step, Refuse
    <2>3. CASE Refuse(c)
      <3>1. pc'[c] = "idle"
        BY <2>3 DEF Refuse, TypeOK
      <3> HIDE DEF Lasting, Kept
      <3> QED
        BY <1>2, <2>2, <3>1 DEF Barring
    <2>4. CASE ~Refuse(c)
      <3>1. pc[c] = "load" /\ token[c].user \notin off /\ barred' = barred
        BY <2>1, <2>4 DEF Step, Disabled
      <3>2. ~barred'[c]
        BY <3>1 DEF Barring
      <3> HIDE DEF Lasting, Kept
      <3> QED
        BY <1>2, <2>2, <3>2 DEF Barring
    <2> QED
      BY <2>3, <2>4
  <1>7. ASSUME NEW c \in Clients,
               \/ RegisterName(c) \/ RegisterEmail(c) \/ RegisterFails(c)
               \/ RegisterOpen(c) \/ RegisterWrite(c)
               \/ LoginFind(c) \/ LoginOpen(c) \/ Logout(c)
        PROVE  Lasting /\ \A d \in Clients : Kept(d)
    BY <1>7 DEF RegisterName, RegisterEmail, LookedUp, RegisterFails, RegisterOpen,
       RegisterWrite, LoginFind, LoginOpen, Logout, Step, session, rest, TypeOK, Spent
  <1>8. ASSUME NEW c \in Clients, LoginWrite(c)
        PROVE  Lasting /\ \A d \in Clients : Kept(d)
    BY <1>8 DEF LoginWrite, Step, rest, TypeOK, Spent
  <1>9. ASSUME NEW c \in Clients, Finish(c)
        PROVE  Lasting /\ \A d \in Clients : Kept(d)
    BY <1>9 DEF Finish, Refuse, rest, TypeOK, Spent
  <1>10. ASSUME Disable PROVE Lasting /\ \A d \in Clients : Kept(d)
    BY <1>10 DEF Disable, session, Spent
  <1>11. ASSUME Tick PROVE Lasting /\ \A d \in Clients : Kept(d)
    BY <1>1, <1>11 DEF Tick, session, Spent
  <1>12. ASSUME Restart PROVE Barring'
    BY <1>12 DEF Restart, Barring
  <1>13. ASSUME UNCHANGED vars PROVE Lasting /\ \A d \in Clients : Kept(d)
    BY <1>13 DEF vars, Spent
  <1> HIDE DEF Lasting, Kept
  <1> QED
    BY <1>3, <1>4, <1>5, <1>6, <1>7, <1>8, <1>9, <1>10, <1>11, <1>12, <1>13
       DEF Next

\* The inductive invariant behind KeptOut.
LEMMA Invariance == Spec => []IInv
  <1>1. IInv /\ [Next]_vars => IInv'
    BY TypeNext, FilesNext, LoggedOutNext, DisabledNext, BarringNext DEF IInv
  <1>2. Init => IInv
    BY InitInv DEF UInv
  <1> QED
    BY <1>1, <1>2, PTL DEF Spec

\* No request gets to a handler whose token was logged out in this start of the
\* daemon, or whose account was disabled beside no Login, before it began.
THEOREM LoggedOutAndDisabledKeptOut == Spec => []KeptOut
  <1>1. IInv => KeptOut
    BY DEF IInv, Barring, KeptOut
  <1> QED
    BY <1>1, Invariance, PTL

-----------------------------------------------------------------------------
(* Unique names and emails.                                                *)

Same(a, b) == a.id = b.id /\ a.name = b.name /\ a.email = b.email

\* A step by which no account and no request in Register becomes clean.
Harmless ==
    /\ \A a \in Clean' : \E b \in Clean : Same(a, b)
    /\ \A c \in Bidding' : c \in Bidding /\ pc'[c] = pc[c] /\ user'[c] = user[c]

\* Such a step keeps accounts unique.
LEMMA HarmlessUnique == Unique /\ Harmless => Unique'
  <1> SUFFICES ASSUME Unique, Harmless PROVE Unique'
    OBVIOUS
  <1>1. ASSUME NEW a \in Clean', NEW b \in Clean' PROVE Apart(a, b)
    <2>1. PICK x \in Clean : Same(a, x)
      BY DEF Harmless
    <2>2. PICK y \in Clean : Same(b, y)
      BY DEF Harmless
    <2>3. Apart(x, y)
      BY DEF Unique
    <2> QED
      BY <2>1, <2>2, <2>3 DEF Same, Apart
  <1>2. ASSUME NEW c \in Bidding', NEW a \in Clean'
        PROVE  /\ a.name # user'[c].name
               /\ pc'[c] = "open" => a.email # user'[c].email
    <2>1. PICK x \in Clean : Same(a, x)
      BY DEF Harmless
    <2>2. c \in Bidding /\ pc'[c] = pc[c] /\ user'[c] = user[c]
      BY DEF Harmless
    <2>3. x.name # user[c].name /\ (pc[c] = "open" => x.email # user[c].email)
      BY <2>2 DEF Unique
    <2> QED
      BY <2>1, <2>2, <2>3 DEF Same
  <1>3. ASSUME NEW c \in Bidding', NEW d \in Bidding', c # d
        PROVE  /\ user'[c].name # user'[d].name
               /\ pc'[c] = "open" /\ pc'[d] = "open" => user'[c].email # user'[d].email
    BY <1>3 DEF Harmless, Unique
  <1>4. \A a, b \in Clean' : Apart(a, b)'
    BY <1>1 DEF Apart
  <1> QED
    BY <1>2, <1>3, <1>4 DEF Unique

\* Who is clean, one way or the other.
LEMMA CleanAre ==
  /\ \A i \in Loaded \ twins : file[i] \in Clean
  /\ \A c \in Clients : pc[c] \in Writing /\ user[c].id \notin twins => user[c] \in Clean
  /\ \A a \in Clean : \/ \E i \in Loaded \ twins : a = file[i]
                      \/ \E c \in Clients : /\ pc[c] \in Writing
                                            /\ user[c].id \notin twins /\ a = user[c]
  BY DEF Clean

\* A lookup that passes over nothing of a value finds it in no clean account and
\* in no request at one of the steps.
LEMMA LookedAtAll ==
  ASSUME TypeOK, Stage, Files, Unique,
         NEW c \in Clients, NEW read \in SUBSET Loaded,
         NEW steps, Writing \subseteq steps, pc[c] \notin Writing
  PROVE  /\ \A a \in Clean :
              \/ a \in Unseen(c, read, steps)
              \/ \E i \in read : Same(a, file[i])
         /\ \A d \in Bidding \ {c} :
              pc[d] \in steps => user[d] \in Unseen(c, read, steps)
  <1>1. ASSUME NEW a \in Clean
        PROVE  \/ a \in Unseen(c, read, steps)
               \/ \E i \in read : Same(a, file[i])
    <2>1. CASE \E i \in Loaded \ twins : a = file[i]
      BY <2>1 DEF Unseen, Same
    <2>2. ASSUME NEW d \in Clients, pc[d] \in Writing, user[d].id \notin twins,
                 a = user[d]
          PROVE  \/ a \in Unseen(c, read, steps)
                 \/ \E i \in read : Same(a, file[i])
      <3>1. CASE user[d].id \notin read
        <4>1. d \in {e \in Clients \ {c} : pc[e] \in steps /\ user[e].id \notin read}
          BY <2>2, <3>1
        <4> QED
          BY <2>2, <4>1 DEF Unseen
      <3>2. CASE user[d].id \in read
        <4> DEFINE i == user[d].id
        <4>1. i \in Loaded \ twins /\ file[i].id = i
          BY <2>2, <3>2 DEF Files
        <4>2. file[i] \in Clean
          BY <4>1, CleanAre
        <4>3. Apart(a, file[i])
          BY <4>2 DEF Unique
        <4> QED
          BY <2>2, <3>2, <4>1, <4>3 DEF Apart, Same
      <3> QED
        BY <3>1, <3>2
    <2> QED
      BY <2>1, <2>2, CleanAre
  <1>2. ASSUME NEW d \in Bidding \ {c}, pc[d] \in steps
        PROVE  user[d] \in Unseen(c, read, steps)
    <2>1. d \in Clients /\ user[d] \in Forms
      BY DEF Bidding, Stage
    <2>2. user[d].id = 0 /\ 0 \notin read
      <3>1. user[d].id = 0
        BY <2>1 DEF Forms
      <3>2. 0 \notin Ids /\ read \subseteq Ids
        BY AuthAssumption DEF Loaded, Ids
      <3> QED
        BY <3>1, <3>2
    <2>3. d \in {e \in Clients \ {c} : pc[e] \in steps /\ user[e].id \notin read}
      BY <1>2, <2>1, <2>2
    <2> QED
      BY <2>3 DEF Unseen
  <1> QED
    BY <1>1, <1>2

\* Every step keeps accounts unique that came of lookups that passed over none.
LEMMA UniqueNext == UInv /\ [Next]_vars => Unique'
  <1> SUFFICES ASSUME UInv, [Next]_vars PROVE Unique'
    OBVIOUS
  <1> USE DEF UInv, IInv
  <1>1. /\ ids \in Nat /\ \A i \in Ids : i \in Nat /\ i # 0
        /\ \A i \in Loaded : i \in Ids /\ i <= ids /\ file[i].id = i
    BY AuthAssumption DEF TypeOK, Ids, Files, Loaded
  <1>2. /\ \A i \in Loaded' \ twins' : file'[i] \in Clean'
        /\ \A a \in Clean' :
             \/ \E i \in Loaded' \ twins' : a = file'[i]
             \/ \E c \in Clients : /\ pc'[c] \in Writing
                                   /\ user'[c].id \notin twins' /\ a = user'[c]
    BY DEF Clean
  <1>3. ASSUME NEW c \in Clients,
               \/ RegisterFails(c) \/ Logout(c) \/ ValidateRevoked(c)
               \/ ValidateParse(c) \/ ValidateLoad(c) \/ Finish(c)
        PROVE  Harmless
    <2>1. /\ UNCHANGED <<file, twins>> /\ blurred \ {c} \subseteq blurred'
          /\ \A d \in Clients : pc'[d] \in Saving =>
                pc'[d] = pc[d] /\ user'[d] = user[d] /\ d # c
      <3>1. CASE RegisterFails(c) \/ Logout(c) \/ ValidateRevoked(c) \/ Finish(c)
        BY <3>1 DEF RegisterFails, Logout, ValidateRevoked, Finish, Refuse, Step,
           Holds, disk, marks, rest, TypeOK, Saving
      <3>2. CASE ValidateParse(c) \/ ValidateLoad(c)
        BY <3>2 DEF ValidateParse, ValidateLoad, Refuse, Step, Holds, disk,
           marks, rest, TypeOK, Saving
      <3> QED
        BY <1>3, <3>1, <3>2
    <2> QED
      BY <1>2, <2>1, CleanAre
         DEF Harmless, Same, Bidding, Saving, Writing, Loaded
  <1>4. ASSUME Tick \/ Restart \/ UNCHANGED vars PROVE Harmless
    <2>1. /\ UNCHANGED <<file, twins>>
          /\ \A d \in Clients : pc'[d] \in Saving =>
                pc'[d] = pc[d] /\ user'[d] = user[d] /\ blurred' = blurred
      BY <1>4 DEF Tick, Restart, vars, disk, marks, Saving
    <2> QED
      BY <1>2, <2>1, CleanAre
         DEF Harmless, Same, Bidding, Saving, Writing, Loaded
  <1>5. ASSUME NEW c \in Clients, RegisterWrite(c) \/ LoginWrite(c) PROVE Harmless
    <2>1. /\ Saved(c) /\ pc[c] \in Writing /\ pc'[c] = "idle"
          /\ user[c] \in Accounts /\ user[c].id \in Ids
          /\ \A d \in Clients \ {c} : pc'[d] = pc[d] /\ user'[d] = user[d]
      BY <1>5, SaveSteps, AccountFields
    <2>2. UNCHANGED <<blurred, twins>>
      BY <1>5 DEF RegisterWrite, LoginWrite, marks
    <2>3. \A i \in Loaded' : \/ i \in Loaded /\ file'[i] = file[i]
                             \/ file'[i] = user[c] /\ user[c].id = i
      BY <2>1 DEF Saved, TypeOK, Loaded
    <2>4. \A a \in Clean' : a \in Clean
      BY <1>2, <2>1, <2>2, <2>3, CleanAre DEF Writing
    <2>5. \A d \in Clients : pc'[d] # "idle" => pc'[d] = pc[d] /\ user'[d] = user[d]
      BY <2>1
    <2> QED
      BY <2>2, <2>4, <2>5 DEF Harmless, Same, Bidding
  <1>6. ASSUME NEW c \in Clients, LoginFind(c) PROVE Harmless
    <2>1. PICK i \in Loaded :
            /\ user'[c] = file[i] /\ pc'[c] = "reopen"
            /\ UNCHANGED <<file, ids>>
            /\ \A d \in Clients \ {c} : pc'[d] = pc[d] /\ user'[d] = user[d]
      BY <1>6, FindSteps
    <2>2. UNCHANGED <<blurred, twins>>
      BY <1>6 DEF LoginFind, marks
    <2>3. file[i].id = i
      BY <1>1
    <2> QED
      BY <1>2, <2>1, <2>2, <2>3, CleanAre DEF Harmless, Same, Bidding, Loaded
  <1>7. ASSUME NEW c \in Clients, LoginOpen(c) PROVE Harmless
    <2>1. /\ pc[c] = "reopen" /\ pc'[c] = "rewrite"
          /\ UNCHANGED <<user, blurred, twins>>
          /\ file' = [file EXCEPT ![user[c].id] = Torn]
          /\ \A d \in Clients \ {c} : pc'[d] = pc[d]
      BY <1>7 DEF LoginOpen, Step, TypeOK, marks
    <2>2. \A i \in Loaded' : i \in Loaded /\ file'[i] = file[i]
      BY <2>1 DEF Loaded, TypeOK
    <2> QED
      BY <1>2, <2>1, <2>2, CleanAre DEF Harmless, Same, Bidding, Writing
  <1>8. ASSUME Disable PROVE Harmless
    <2>1. PICK i \in Loaded :
            /\ file' = [file EXCEPT ![i] = [file[i] EXCEPT !.active = FALSE]]
            /\ UNCHANGED <<ids, pc, user>>
      BY <1>8, DisableSteps
    <2>2. Same([file[i] EXCEPT !.active = FALSE], file[i])
      BY LoadedAccount DEF Accounts, Same
    <2>3. \A j \in Loaded' : j \in Loaded /\ Same(file'[j], file[j])
      BY <2>1, <2>2 DEF Loaded, TypeOK, Same
    <2>4. UNCHANGED <<blurred, twins>>
      BY <1>8 DEF Disable, marks
    <2>5. ASSUME NEW a \in Clean' PROVE \E b \in Clean : Same(a, b)
      <3>1. CASE \E j \in Loaded' \ twins' : a = file'[j]
        BY <2>3, <2>4, <3>1, CleanAre
      <3>2. CASE \E c \in Clients : /\ pc'[c] \in Writing
                                    /\ user'[c].id \notin twins' /\ a = user'[c]
        BY <2>1, <2>4, <3>2, CleanAre DEF Same
      <3> QED
        BY <1>2, <3>1, <3>2
    <2> QED
      BY <2>1, <2>4, <2>5 DEF Harmless, Bidding
  <1>9. ASSUME NEW c \in Clients, RegisterName(c) PROVE Unique'
    <2>1. PICK form \in Forms, read \in SUBSET Loaded :
            /\ \A i \in read : file[i].name # form.name
            /\ pc[c] = "idle" /\ pc' = [pc EXCEPT ![c] = "email"]
            /\ user' = [user EXCEPT ![c] = form]
            /\ blurred' = IF \E a \in Unseen(c, read, Saving) : a.name = form.name
                            THEN blurred \cup {c} ELSE blurred \ {c}
            /\ UNCHANGED <<file, twins>>
      BY <1>9 DEF RegisterName, Step, Holds, disk
    <2>2. /\ pc'[c] = "email" /\ user'[c] = form
          /\ \A d \in Clients \ {c} : /\ pc'[d] = pc[d] /\ user'[d] = user[d]
                                      /\ d \in blurred' <=> d \in blurred
      BY <2>1 DEF TypeOK
    <2>3. \A a \in Clean' : a \in Clean
      BY <1>2, <2>1, <2>2, CleanAre DEF Loaded, Writing
    <2>4. \A d \in Bidding' : d = c \/ (d \in Bidding /\ d # c)
      BY <2>2 DEF Bidding
    <2>5. ASSUME c \notin blurred'
          PROVE  /\ \A a \in Clean : a.name # form.name
                 /\ \A d \in Bidding \ {c} : user[d].name # form.name
      <3>1. \A a \in Unseen(c, read, Saving) : a.name # form.name
        BY <2>1, <2>5
      <3>2. /\ \A a \in Clean : \/ a \in Unseen(c, read, Saving)
                                \/ \E i \in read : Same(a, file[i])
            /\ \A d \in Bidding \ {c} :
                  pc[d] \in Saving => user[d] \in Unseen(c, read, Saving)
        BY <2>1, LookedAtAll DEF Saving, Writing
      <3>3. \A d \in Bidding : pc[d] \in Saving
        BY DEF Bidding, Saving
      <3> QED
        BY <2>1, <3>1, <3>2, <3>3 DEF Same
    <2>6. c \in Bidding' => c \notin blurred'
      BY DEF Bidding
    <2>7. \A a, b \in Clean' : Apart(a, b)'
      BY <2>3 DEF Unique, Apart
    <2>8. ASSUME NEW d \in Bidding', NEW a \in Clean'
          PROVE  a.name # user'[d].name /\ (pc'[d] = "open" => a.email # user'[d].email)
      <3>1. CASE d = c
        BY <2>2, <2>3, <2>5, <2>6, <3>1
      <3>2. CASE d \in Bidding /\ d # c
        BY <2>2, <2>3, <3>2 DEF Unique, Bidding
      <3> QED
        BY <2>4, <3>1, <3>2
    <2>9. ASSUME NEW d \in Bidding', NEW e \in Bidding', d # e
          PROVE  /\ user'[d].name # user'[e].name
                 /\ pc'[d] = "open" /\ pc'[e] = "open" => user'[d].email # user'[e].email
      <3>1. CASE d = c
        <4>1. e \in Bidding \ {c} /\ user'[e] = user[e]
          BY <2>2, <2>4, <2>9, <3>1 DEF Bidding
        <4> QED
          BY <2>2, <2>5, <2>6, <3>1, <4>1
      <3>2. CASE e = c
        <4>1. d \in Bidding \ {c} /\ user'[d] = user[d]
          BY <2>2, <2>4, <2>9, <3>2 DEF Bidding
        <4> QED
          BY <2>2, <2>5, <2>6, <3>2, <4>1
      <3>3. CASE d # c /\ e # c
        <4>1. /\ d \in Bidding /\ user'[d] = user[d] /\ pc'[d] = pc[d]
              /\ e \in Bidding /\ user'[e] = user[e] /\ pc'[e] = pc[e]
          BY <2>2, <2>4, <3>3 DEF Bidding
        <4> QED
          BY <2>9, <4>1 DEF Unique
      <3> QED
        BY <3>1, <3>2, <3>3
    <2> QED
      BY <2>7, <2>8, <2>9 DEF Unique
  <1>10. ASSUME NEW c \in Clients, RegisterEmail(c) PROVE Unique'
    <2>1. PICK read \in SUBSET Loaded :
            LookedUp(c, read, \E i \in read : file[i].email = user[c].email)
      BY <1>10 DEF RegisterEmail
    <2>2. /\ pc[c] = "email" /\ UNCHANGED <<file, twins>>
          /\ \A d \in Clients \ {c} : /\ pc'[d] = pc[d] /\ user'[d] = user[d]
                                      /\ d \in blurred' <=> d \in blurred
          /\ pc'[c] \in {"idle", "open"}
      BY <2>1 DEF LookedUp, Step, Holds, disk, TypeOK
    <2>3. ASSUME c \in Bidding'
          PROVE  /\ pc'[c] = "open" /\ user'[c] = user[c] /\ c \in Bidding
                 /\ \A i \in read : file[i].email # user[c].email
                 /\ \A a \in Unseen(c, read, Saving \ {"email"}) :
                       a.email # user[c].email
      <3>1. c \notin blurred' /\ pc'[c] = "open"
        BY <2>2, <2>3 DEF Bidding
      <3>2. /\ \A i \in read : file[i].email # user[c].email
            /\ user'[c] = user[c]
        BY <2>1, <3>1 DEF LookedUp, Step, Holds, TypeOK
      <3>3. /\ ~\E a \in Unseen(c, read, Saving \ {"email"}) : a.email = user[c].email
            /\ c \notin blurred
        BY <2>1, <3>1, <3>2 DEF LookedUp
      <3> QED
        BY <2>2, <3>1, <3>2, <3>3 DEF Bidding
    <2>4. \A a \in Clean' : a \in Clean
      BY <1>2, <2>2, CleanAre DEF Loaded, Writing
    <2>5. \A d \in Bidding' : d \in Bidding /\ user'[d] = user[d]
                              /\ (d # c => pc'[d] = pc[d])
      BY <2>2, <2>3 DEF Bidding
    <2>6. ASSUME c \in Bidding'
          PROVE  /\ \A a \in Clean : a.email # user[c].email
                 /\ \A d \in Bidding \ {c} :
                       pc[d] = "open" => user[d].email # user[c].email
      <3>1. /\ \A a \in Clean : \/ a \in Unseen(c, read, Saving \ {"email"})
                                \/ \E i \in read : Same(a, file[i])
            /\ \A d \in Bidding \ {c} :
                  pc[d] \in Saving \ {"email"} =>
                      user[d] \in Unseen(c, read, Saving \ {"email"})
        <4>1. Writing \subseteq Saving \ {"email"} /\ pc[c] \notin Writing
          BY <2>2 DEF Saving, Writing
        <4> QED
          BY <4>1, LookedAtAll
      <3>2. "open" \in Saving \ {"email"}
        BY DEF Saving
      <3> QED
        BY <2>3, <2>6, <3>1, <3>2 DEF Same
    <2>7. \A a, b \in Clean' : Apart(a, b)'
      BY <2>4 DEF Unique, Apart
    <2>8. \A d \in Bidding', a \in Clean' :
             a.name # user'[d].name /\ (pc'[d] = "open" => a.email # user'[d].email)
      BY <2>4, <2>5, <2>6 DEF Unique
    <2>9. \A d, e \in Bidding' : d # e =>
             /\ user'[d].name # user'[e].name
             /\ pc'[d] = "open" /\ pc'[e] = "open" => user'[d].email # user'[e].email
      BY <2>5, <2>6 DEF Unique
    <2> QED
      BY <2>7, <2>8, <2>9 DEF Unique
  <1>11. ASSUME NEW c \in Clients, RegisterOpen(c) PROVE Unique'
    <2>1. /\ ids + 1 \in Ids
          /\ user[c] \in Forms /\ user'[c].id = ids + 1
          /\ user'[c].name = user[c].name /\ user'[c].email = user[c].email
          /\ pc[c] = "open" /\ pc'[c] = "write"
          /\ file' = [file EXCEPT ![ids + 1] = Torn]
          /\ \A d \in Clients \ {c} : pc'[d] = pc[d] /\ user'[d] = user[d]
      BY <1>11, OpenSteps
    <2>2. /\ blurred' = blurred \ {c}
          /\ twins' = twins \cup (IF c \in blurred THEN {ids + 1} ELSE {})
      BY <1>11 DEF RegisterOpen
    <2>3. \A i \in Loaded' : i \in Loaded /\ file'[i] = file[i]
      BY <2>1 DEF Loaded, TypeOK
    <2>4. \A d \in Clients \ {c} : pc'[d] \in Writing => user'[d].id <= ids
      BY <2>1 DEF Files
    <2>5. \A a \in Clean' : \/ a \in Clean /\ a.id \in Nat /\ a.id <= ids
                            \/ a = user'[c] /\ c \in Bidding
      <3>1. ASSUME NEW i \in Loaded' \ twins'
            PROVE  file'[i] \in Clean /\ file'[i].id \in Nat /\ file'[i].id <= ids
        BY <1>1, <2>2, <2>3, CleanAre
      <3>2. ASSUME NEW d \in Clients \ {c}, pc'[d] \in Writing, user'[d].id \notin twins'
            PROVE  user'[d] \in Clean /\ user'[d].id \in Nat /\ user'[d].id <= ids
        <4>1. pc[d] \in Writing /\ user'[d] = user[d] /\ user[d].id \notin twins
          BY <2>1, <2>2, <3>2
        <4>2. user[d] \in Accounts
          BY <4>1 DEF Stage
        <4> QED
          BY <1>1, <2>4, <3>2, <4>1, <4>2, CleanAre, AccountFields
      <3>3. user'[c].id \notin twins' => c \in Bidding
        BY <2>1, <2>2 DEF Bidding
      <3> QED
        BY <1>2, <3>1, <3>2, <3>3
    <2>6. \A d \in Bidding' :
             d \in Bidding /\ d # c /\ pc'[d] = pc[d] /\ user'[d] = user[d]
      BY <2>1, <2>2 DEF Bidding
    <2>7. ASSUME NEW a \in Clean', NEW b \in Clean' PROVE Apart(a, b)
      <3>1. CASE a \in Clean /\ b \in Clean
        BY <3>1 DEF Unique
      <3>2. CASE a = user'[c] /\ b = user'[c]
        BY <3>2 DEF Apart
      <3>3. ASSUME NEW x \in Clean, x.id \in Nat, x.id <= ids, c \in Bidding
            PROVE  Apart(x, user'[c]) /\ Apart(user'[c], x)
        <4>1. x.name # user[c].name /\ x.email # user[c].email
          BY <2>1, <3>3 DEF Unique
        <4>2. x.id # ids + 1
          BY <1>1, <3>3
        <4> QED
          BY <2>1, <4>1, <4>2 DEF Apart
      <3> QED
        BY <2>5, <3>1, <3>2, <3>3
    <2>8. \A a, b \in Clean' : Apart(a, b)'
      BY <2>7 DEF Apart
    <2>9. ASSUME NEW d \in Bidding', NEW a \in Clean'
          PROVE  a.name # user'[d].name /\ (pc'[d] = "open" => a.email # user'[d].email)
      <3>1. CASE a \in Clean
        BY <2>6, <3>1 DEF Unique
      <3>2. CASE a = user'[c] /\ c \in Bidding
        BY <2>1, <2>6, <3>2 DEF Unique
      <3> QED
        BY <2>5, <3>1, <3>2
    <2>10. \A d, e \in Bidding' : d # e =>
              /\ user'[d].name # user'[e].name
              /\ pc'[d] = "open" /\ pc'[e] = "open" => user'[d].email # user'[e].email
      BY <2>6 DEF Unique
    <2> QED
      BY <2>8, <2>9, <2>10 DEF Unique
  <1> QED
    BY <1>3, <1>4, <1>5, <1>6, <1>7, <1>8, <1>9, <1>10, <1>11, HarmlessUnique
       DEF Next

\* No two accounts end up with one name or one email, unless the lookups of one of
\* them passed over an account that had it.
THEOREM AccountsAreUnique == Spec => []UniqueAccounts
  <1>1. Spec => []UInv
    <2>1. UInv /\ [Next]_vars => UInv'
      BY UniqueNext, TypeNext, FilesNext, LoggedOutNext, DisabledNext, BarringNext
         DEF UInv, IInv
    <2> QED
      BY <2>1, InitInv, PTL DEF Spec
  <1>2. UInv => UniqueAccounts
    <2>1. SUFFICES ASSUME UInv, NEW i \in Loaded \ twins, NEW j \in Loaded \ twins, i # j
                   PROVE  file[i].name # file[j].name /\ file[i].email # file[j].email
      BY DEF UniqueAccounts
    <2>2. Apart(file[i], file[j])
      BY <2>1, CleanAre DEF UInv, Unique
    <2>3. file[i].id = i /\ file[j].id = j
      BY <2>1 DEF UInv, IInv, Files
    <2> QED
      BY <2>1, <2>2, <2>3 DEF Apart
  <1> QED
    BY <1>1, <1>2, PTL

=============================================================================
