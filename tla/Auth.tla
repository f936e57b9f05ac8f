--------------------------------- MODULE Auth ---------------------------------
(***************************************************************************)
(* Accounts and tokens (internal/auth/auth.go, api/middleware/auth.go,     *)
(* api/handlers/auth.go): Register, Login, Logout and requests that pass   *)
(* AuthMiddleware and PermissionMiddleware, by clients side by side, over  *)
(* daemon restarts.  Accounts are one file each, rewritten in place; the   *)
(* blacklist of logged out tokens is in memory.  Routes.go mounts neither  *)
(* middleware at present.                                                  *)
(*                                                                         *)
(* A password is right for the account it was registered with.  A token is *)
(* what its string is a function of: two logins of one account in the same *)
(* second return the same string.  What a role permits is left out: a      *)
(* request that passes ValidateToken may be refused or not.                *)
(***************************************************************************)
EXTENDS Naturals, FiniteSets

CONSTANTS
    Clients,
    Names, Emails,
    Lifetime,       \* of a token, the 24 hours of generateJWTToken
    MaxUsers,       \* bound: accounts that are created
    MaxTime,        \* bound on the clock
    MaxOps,         \* bound: requests that get past their first check
    MaxRestarts     \* bound: daemon restarts

ASSUME AuthAssumption ==
    {Lifetime, MaxUsers, MaxTime, MaxOps, MaxRestarts} \subseteq Nat

Ids == 1 .. MaxUsers
Absent == [id |-> 0]            \* no file
Torn == [id |-> 0, torn |-> TRUE]   \* opened with O_TRUNC, not yet written
NoToken == [user |-> 0, exp |-> 0, secret |-> 0]

Accounts == [id : Ids, name : Names, email : Emails, active : BOOLEAN]
\* What Register makes of a request, before it has an id.
Forms == [id : {0}, name : Names, email : Emails, active : {TRUE}]
Tokens ==
    [user : Ids, exp : Nat, secret : 0 .. MaxRestarts]

VARIABLES
    file,       \* users/<id>/serverconfig.json
    ids,        \* ids drawn so far; they are drawn from the clock
    blacklist,  \* tokenBlacklist: tokens with the time they are kept until
    secret,     \* jwtSecret
    now,        \* the clock, in seconds
    pc,         \* where each client's request is
    user,       \* the account it has read or is about to write
    token,      \* the token the client holds or presents
    out,        \* history: tokens whose Logout has returned
    off,        \* history: accounts disabled while no Login held a copy
    barred,     \* history: a request began with its token in out or its
                \* account in off
    blurred,    \* history: requests whose Register has passed over an account of
                \* its name or email, or one that somebody is about to save
    twins,      \* history: accounts that came of such a Register
    ops, restarts

vars == <<file, ids, blacklist, secret, now, pc, user, token, out, off, barred,
          blurred, twins, ops, restarts>>

Saving == {"email", "open", "write", "reopen", "rewrite"}

TypeOK ==
    /\ file \in [Ids -> Accounts \cup {Absent, Torn}]
    /\ ids \in 0 .. MaxUsers
    /\ blacklist \subseteq [token : Tokens, exp : Nat]
    /\ {secret, restarts} \subseteq 0 .. MaxRestarts
    /\ now \in 0 .. MaxTime
    /\ pc \in [Clients -> Saving \cup {"idle", "parse", "load", "in"}]
    /\ user \in [Clients -> Forms \cup Accounts \cup {Absent}]
    /\ token \in [Clients -> Tokens \cup {NoToken}]
    /\ out \subseteq Tokens /\ off \subseteq Ids
    /\ barred \in [Clients -> BOOLEAN]
    /\ blurred \subseteq Clients /\ twins \subseteq Ids
    /\ ops \in 0 .. MaxOps

Init ==
    /\ file = [i \in Ids |-> Absent] /\ ids = 0
    /\ blacklist = {} /\ secret = 0 /\ now = 0
    /\ pc = [c \in Clients |-> "idle"]
    /\ user = [c \in Clients |-> Absent]
    /\ token = [c \in Clients |-> NoToken]
    /\ out = {} /\ off = {}
    /\ barred = [c \in Clients |-> FALSE]
    /\ blurred = {} /\ twins = {}
    /\ ops = 0 /\ restarts = 0

Step(c, from, to) == pc[c] = from /\ pc' = [pc EXCEPT ![c] = to]
Holds(c, account) == user' = [user EXCEPT ![c] = account]
disk == <<file, ids>>
session == <<blacklist, secret, token, out, barred>>
rest == <<now, off, restarts>>
marks == <<blurred, twins>>
Begin == ops < MaxOps /\ ops' = ops + 1

\* What loadUser can parse.  getAllUsers skips the files that it cannot read, and
\* fails with the directory: a lookup comes by some of these.
Loaded == {i \in Ids : file[i] \notin {Absent, Torn}}

-----------------------------------------------------------------------------
(* Register. *)

\* Accounts that a lookup of c does not come by: those whose file it has not read,
\* and those that a request at one of the steps holds and has not saved.
Unseen(c, read, steps) ==
    {file[i] : i \in Loaded \ read}
    \cup {user[d] : d \in {e \in Clients \ {c} : pc[e] \in steps /\ user[e].id \notin read}}

\* Any error of a lookup is taken for a free name.
RegisterName(c) ==
    \E form \in Forms, read \in SUBSET Loaded :
        /\ \A i \in read : file[i].name # form.name
        /\ Step(c, "idle", "email") /\ Holds(c, form) /\ Begin
        /\ blurred' = IF \E a \in Unseen(c, read, Saving) : a.name = form.name
                        THEN blurred \cup {c} ELSE blurred \ {c}
        /\ UNCHANGED <<disk, session, rest, twins>>

\* A lookup at "email" that came by the accounts of read.
LookedUp(c, read, taken) ==
    /\ Step(c, "email", IF taken THEN "idle" ELSE "open")
    /\ Holds(c, IF taken THEN Absent ELSE user[c])
    /\ blurred' = CASE taken -> blurred \ {c}
                   [] ~taken /\ \E a \in Unseen(c, read, Saving \ {"email"}) :
                                    a.email = user[c].email -> blurred \cup {c}
                   [] OTHER -> blurred
    /\ UNCHANGED <<disk, session, rest, twins, ops>>

\* Mutant: the second lookup is by name again.
RegisterEmailByName(c) ==
    \E read \in SUBSET Loaded :
        LookedUp(c, read, \E i \in read : file[i].name = user[c].name)

RegisterEmail(c) ==
    \E read \in SUBSET Loaded :
        LookedUp(c, read, \E i \in read : file[i].email = user[c].email)

\* bcrypt, MkdirAll or the opening of the file fails.
RegisterFails(c) ==
    /\ Step(c, "open", "idle") /\ Holds(c, Absent) /\ blurred' = blurred \ {c}
    /\ UNCHANGED <<disk, session, rest, twins, ops>>

\* generateUserID; saveUser makes the directory and opens the file.
RegisterOpen(c) ==
    /\ Step(c, "open", "write") /\ ids < MaxUsers /\ ids' = ids + 1
    /\ Holds(c, [user[c] EXCEPT !.id = ids + 1])
    /\ file' = [file EXCEPT ![ids + 1] = Torn]
    /\ twins' = twins \cup (IF c \in blurred THEN {ids + 1} ELSE {})
    /\ blurred' = blurred \ {c}
    /\ UNCHANGED <<session, rest, ops>>

\* WriteFile writes, or fails and leaves what it has truncated.
Save(c) ==
    file' \in {file, [file EXCEPT ![user[c].id] = user[c]]}

RegisterWrite(c) ==
    /\ Step(c, "write", "idle") /\ Save(c) /\ Holds(c, Absent)
    /\ UNCHANGED <<ids, session, rest, marks, ops>>

-----------------------------------------------------------------------------
(* Login. *)

\* getUserByUsername takes the first in the order of ids; the password tells
\* whether it is the account that the client means.
LoginFind(c) ==
    \E read \in SUBSET Loaded : \E i \in read :
        /\ \A j \in read : file[j].name = file[i].name => i <= j
        /\ file[i].active
        /\ Step(c, "idle", "reopen") /\ Holds(c, file[i]) /\ Begin
        /\ UNCHANGED <<disk, session, rest, marks>>

\* saveUser with LastLoginAt; a failure is logged and the login goes on.
LoginOpen(c) ==
    /\ Step(c, "reopen", "rewrite")
    /\ file' = [file EXCEPT ![user[c].id] = Torn]
    /\ UNCHANGED <<ids, user, session, rest, marks, ops>>

\* generateJWTToken follows, whether the save has failed or not.
LoginWrite(c) ==
    /\ \/ Step(c, "rewrite", "idle") /\ Save(c)
       \/ Step(c, "reopen", "idle") /\ UNCHANGED file
    /\ Holds(c, Absent)
    /\ token' = [token EXCEPT ![c] =
                   [user |-> user[c].id, exp |-> now + Lifetime, secret |-> secret]]
    /\ UNCHANGED <<ids, blacklist, secret, out, barred, rest, marks, ops>>

-----------------------------------------------------------------------------
(* Requests with a token, the client's own or one it shares. *)

Parses(t) == t.secret = secret /\ now < t.exp

\* The token's own expiry, or a day from now when it does not parse.
Logout(c) ==
    \E d \in Clients :
        LET t == token[d] IN
        /\ pc[c] = "idle" /\ t # NoToken /\ Begin
        /\ blacklist' =
             {e \in blacklist : e.token # t}
             \cup {[token |-> t, exp |-> IF Parses(t) THEN t.exp ELSE now + Lifetime]}
        /\ out' = out \cup {t}
        /\ UNCHANGED <<disk, secret, pc, user, token, barred, rest, marks>>

\* Mutant: the entry lapses one second before the token does.
RevokedUntilJustBefore(t) == \E e \in blacklist : e.token = t /\ now + 1 < e.exp

IsTokenRevoked(t) == \E e \in blacklist : e.token = t /\ now < e.exp

Refuse(c) == pc' = [pc EXCEPT ![c] = "idle"] /\ barred' = [barred EXCEPT ![c] = FALSE]

ValidateRevoked(c) ==
    \E d \in Clients :
        LET t == token[d] IN
        /\ t # NoToken /\ ~IsTokenRevoked(t)
        /\ Step(c, "idle", "parse") /\ Begin /\ token' = [token EXCEPT ![c] = t]
        /\ barred' = [barred EXCEPT ![c] = t \in out \/ t.user \in off]
        /\ UNCHANGED <<disk, blacklist, secret, user, out, rest, marks>>

ValidateParse(c) ==
    /\ IF Parses(token[c]) THEN Step(c, "parse", "load") /\ UNCHANGED barred
                           ELSE pc[c] = "parse" /\ Refuse(c)
    /\ UNCHANGED <<disk, blacklist, secret, user, token, out, rest, marks, ops>>

\* getUserByID; a disabled account is refused.  PermissionMiddleware, where the
\* route has it, passes the request on to the handler or refuses.
ValidateLoad(c) ==
    /\ \/ /\ token[c].user \in Loaded /\ file[token[c].user].active
          /\ Step(c, "load", "in") /\ UNCHANGED barred
       \/ pc[c] = "load" /\ Refuse(c)
    /\ UNCHANGED <<disk, blacklist, secret, user, token, out, rest, marks, ops>>

Finish(c) ==
    /\ pc[c] = "in" /\ Refuse(c)
    /\ UNCHANGED <<disk, blacklist, secret, user, token, out, rest, marks, ops>>

-----------------------------------------------------------------------------
\* External: an operator sets isActive to false in the account's file.
Disable ==
    \E i \in Loaded :
        /\ file[i].active /\ file' = [file EXCEPT ![i].active = FALSE]
        /\ off' = IF \E c \in Clients : pc[c] \in {"reopen", "rewrite"} /\ user[c].id = i
                    THEN off ELSE off \cup {i}
        /\ UNCHANGED <<ids, session, now, restarts, pc, user, marks, ops>>

Tick ==
    /\ now < MaxTime /\ now' = now + 1
    /\ UNCHANGED <<disk, session, off, restarts, pc, user, marks, ops>>

\* The blacklist is lost, and so is the secret unless JWT_SECRET is set, as it
\* may be from one start to the next; with it, logged out tokens come back.
Restart ==
    /\ restarts < MaxRestarts /\ restarts' = restarts + 1
    /\ blacklist' = {}
    /\ \/ secret' = secret /\ out' = {}
       \/ secret' = restarts + 1 /\ UNCHANGED out
    /\ pc' = [c \in Clients |-> "idle"]
    /\ user' = [c \in Clients |-> Absent]
    /\ barred' = [c \in Clients |-> FALSE] /\ blurred' = {}
    /\ UNCHANGED <<disk, token, now, off, twins, ops>>

Next ==
    \/ \E c \in Clients :
         \/ RegisterName(c) \/ RegisterEmail(c) \/ RegisterFails(c)
         \/ RegisterOpen(c) \/ RegisterWrite(c)
         \/ LoginFind(c) \/ LoginOpen(c) \/ LoginWrite(c)
         \/ Logout(c)
         \/ ValidateRevoked(c) \/ ValidateParse(c) \/ ValidateLoad(c) \/ Finish(c)
    \/ Disable \/ Tick \/ Restart

Spec == Init /\ [][Next]_vars

-----------------------------------------------------------------------------
\* A request that begins after the Logout of its token has returned in this start
\* of the daemon, or after its account was disabled while no Login held a copy of
\* it, never reaches a handler, though time passes between the checks, tokens are
\* issued anew and accounts rewritten.  A restart with the same secret forgets
\* what was logged out; a Login under way enables its account again.
KeptOut == \A c \in Clients : pc[c] = "in" => ~barred[c]

\* Two accounts share a name or an email only where the Register of one of them
\* passed over an account that had it: the file could not be read, or was not
\* saved yet.
UniqueAccounts ==
    \A i, j \in Loaded \ twins :
        i # j => file[i].name # file[j].name /\ file[i].email # file[j].email
=============================================================================
