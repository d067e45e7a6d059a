---------------------------- MODULE LoginService ----------------------------
(***************************************************************************)
(* The login module of the service process, the Redis store behind it, and *)
(* the profile the game server creates for a role that has none: onLogin   *)
(* and ResolveRoleID of concurrent LoginReqs (one goroutine per gate link),*)
(* each store call a step of its own that may fail.                        *)
(***************************************************************************)
EXTENDS Integers, FiniteSets

CONSTANTS
    Workers,     \* handleGateConn goroutines
    GameWorkers, \* game goroutines that load the profile of an entering role
    Accounts,    \* non-empty account ids
    NoAccount,   \* the empty account id
    NoProfile,   \* a key without a value
    MaxRole,     \* bound on the uids Redis hands out
    MayFail      \* whether store calls may fail

ASSUME LoginAssumption ==
    /\ NoAccount \notin Accounts
    /\ NoProfile \notin Accounts \cup {NoAccount}
    /\ MaxRole \in Nat /\ MayFail \in BOOLEAN

VARIABLES
    uid,       \* the uid counter in Redis
    roleOf,    \* account -> role keys in Redis
    profile,   \* role -> account id of the profile in Redis
    pc, account, role,   \* a login in progress
    answered,  \* (account, role) pairs of the LoginRsps sent
    overlapped,          \* accounts that two logins were resolving at a time
    gpc, grole,          \* the game server loading a profile
    cached               \* role -> the profile its Player on the game server holds

store == <<uid, roleOf, profile>>
login == <<pc, account, role>>
history == <<answered, overlapped>>
game == <<gpc, grole, cached>>
vars == <<uid, roleOf, profile, pc, account, role, answered, overlapped, gpc, grole,
          cached>>

Roles == 1 .. MaxRole
NoRole == 0
AnyAccount == Accounts \cup {NoAccount}

Init ==
    /\ uid = 0
    /\ roleOf = [a \in Accounts |-> NoRole]
    /\ profile = [r \in Roles |-> NoProfile]
    /\ pc = [w \in Workers |-> "idle"]
    /\ account = [w \in Workers |-> NoAccount]
    /\ role = [w \in Workers |-> NoRole]
    /\ answered = {}
    /\ overlapped = {}
    /\ gpc = [g \in GameWorkers |-> "idle"]
    /\ grole = [g \in GameWorkers |-> NoRole]
    /\ cached = [r \in Roles |-> NoProfile]

-----------------------------------------------------------------------------
\* The accounts of the logins in progress.
InProgress == {account[w] : w \in Workers} \ {NoAccount}

\* LoginReq on the test platform: the account id is the request's, or else its
\* token, and both may be empty.
Start(w, a) ==
    /\ pc[w] = "idle"
    /\ pc' = [pc EXCEPT ![w] = "load"]
    /\ account' = [account EXCEPT ![w] = a]
    /\ overlapped' = overlapped \cup ({a} \cap InProgress)
    /\ UNCHANGED <<role, store, answered, game>>

\* The handler returns the error; nothing is answered.
Abort(w) ==
    /\ pc' = [pc EXCEPT ![w] = "idle"]
    /\ account' = [account EXCEPT ![w] = NoAccount]
    /\ role' = [role EXCEPT ![w] = NoRole]

\* LoadRoleID finds nothing for the empty account.
Loaded(a) == IF a = NoAccount THEN NoRole ELSE roleOf[a]

Load(w) ==
    /\ pc[w] = "load"
    /\ role' = [role EXCEPT ![w] = Loaded(account[w])]
    /\ pc' = [pc EXCEPT ![w] = IF Loaded(account[w]) = NoRole THEN "next" ELSE "enter"]
    /\ UNCHANGED <<account, store, history, game>>

\* Variant: the counter is read before it is raised.
NextUIDStale == IF uid = 0 THEN 1 ELSE uid

\* Variant: one is added to what INCR returns.
NextUIDRaised == uid + 2

\* Redis INCR.
NextUID == uid + 1

Next_(w) ==
    /\ pc[w] = "next"
    /\ uid < MaxRole
    /\ uid' = uid + 1
    /\ role' = [role EXCEPT ![w] = NextUID]
    /\ pc' = [pc EXCEPT ![w] = "saveRole"]
    /\ UNCHANGED <<account, roleOf, profile, history, game>>

\* Variant: the account is not remembered.
RoleSavedNot(a, r) == roleOf

\* SaveRoleID overwrites, and does nothing for the empty account.
RoleSaved(a, r) == IF a = NoAccount THEN roleOf ELSE [roleOf EXCEPT ![a] = r]

SaveRole(w) ==
    /\ pc[w] = "saveRole"
    /\ roleOf' = RoleSaved(account[w], role[w])
    /\ pc' = [pc EXCEPT ![w] = "saveProfile"]
    /\ UNCHANGED <<account, role, uid, profile, history, game>>

SaveProfile(w) ==
    /\ pc[w] = "saveProfile"
    /\ profile' = [profile EXCEPT ![role[w]] = account[w]]
    /\ pc' = [pc EXCEPT ![w] = "enter"]
    /\ UNCHANGED <<account, role, uid, roleOf, history, game>>

\* A store call fails: it had no effect, or (SaveRoleID, SaveProfile, INCR)
\* took effect and its answer was lost.
StoreFails(w) ==
    /\ MayFail
    /\ \/ pc[w] \in {"load", "next", "saveRole", "saveProfile"} /\ UNCHANGED store
       \/ pc[w] = "next" /\ uid < MaxRole /\ uid' = uid + 1 /\ UNCHANGED <<roleOf, profile>>
       \/ /\ pc[w] = "saveRole"
          /\ roleOf' = RoleSaved(account[w], role[w])
          /\ UNCHANGED <<uid, profile>>
       \/ /\ pc[w] = "saveProfile"
          /\ profile' = [profile EXCEPT ![role[w]] = account[w]]
          /\ UNCHANGED <<uid, roleOf>>
    /\ Abort(w)
    /\ UNCHANGED <<history, game>>

\* SendToGame(EnterGameReq), then Reply(LoginRsp).  A game goroutine finds no
\* Player for the role and takes it up, or the Player is there already or the
\* envelope is lost.
Answer(w) ==
    /\ pc[w] = "enter"
    /\ answered' = answered \cup {<<account[w], role[w]>>}
    /\ UNCHANGED overlapped
    /\ \/ \E g \in GameWorkers :
             /\ gpc[g] = "idle" /\ cached[role[w]] = NoProfile
             /\ gpc' = [gpc EXCEPT ![g] = "load"]
             /\ grole' = [grole EXCEPT ![g] = role[w]]
             /\ UNCHANGED cached
       \/ UNCHANGED game
    /\ Abort(w)
    /\ UNCHANGED store

GameDone(g) ==
    /\ gpc' = [gpc EXCEPT ![g] = "idle"]
    /\ grole' = [grole EXCEPT ![g] = NoRole]

\* GetOrCreate on the game server: LoadProfile, and a Player with it ...
GameLoad(g) ==
    /\ gpc[g] = "load"
    /\ IF profile[grole[g]] = NoProfile
       THEN gpc' = [gpc EXCEPT ![g] = "save"] /\ UNCHANGED <<grole, cached>>
       ELSE /\ cached' = [cached EXCEPT ![grole[g]] = profile[grole[g]]]
            /\ GameDone(g)
    /\ UNCHANGED <<store, login, history>>

\* ... or SaveProfile of a fresh one that knows no account, and a Player with
\* that.
GameSave(g) ==
    /\ gpc[g] = "save"
    /\ profile' = [profile EXCEPT ![grole[g]] = NoAccount]
    /\ cached' = [cached EXCEPT ![grole[g]] = NoAccount]
    /\ GameDone(g)
    /\ UNCHANGED <<uid, roleOf, login, history>>

\* A store call of the game server fails, with or without effect.
GameFails(g) ==
    /\ MayFail
    /\ gpc[g] # "idle"
    /\ \/ UNCHANGED profile
       \/ gpc[g] = "save" /\ profile' = [profile EXCEPT ![grole[g]] = NoAccount]
    /\ GameDone(g)
    /\ UNCHANGED <<uid, roleOf, cached, login, history>>

\* MarkOffline and persistLoop save the profile the Player holds, however old.
GameResave(r) ==
    /\ cached[r] # NoProfile
    /\ profile' = [profile EXCEPT ![r] = cached[r]]
    /\ UNCHANGED <<uid, roleOf, login, history, game>>

Next ==
    \/ \E w \in Workers, a \in AnyAccount : Start(w, a)
    \/ \E w \in Workers :
          Load(w) \/ Next_(w) \/ SaveRole(w) \/ SaveProfile(w) \/ StoreFails(w) \/ Answer(w)
    \/ \E g \in GameWorkers : GameLoad(g) \/ GameSave(g) \/ GameFails(g)
    \/ \E r \in Roles : GameResave(r)

Spec == Init /\ [][Next]_vars

-----------------------------------------------------------------------------
\* Every variable keeps the range its Go type and the bounds give it.
TypeOK ==
    /\ uid \in 0 .. MaxRole
    /\ roleOf \in [Accounts -> Roles \cup {NoRole}]
    /\ profile \in [Roles -> AnyAccount \cup {NoProfile}]
    /\ pc \in [Workers -> {"idle", "load", "next", "saveRole", "saveProfile", "enter"}]
    /\ account \in [Workers -> AnyAccount]
    /\ role \in [Workers -> Roles \cup {NoRole}]
    /\ answered \subseteq AnyAccount \X Roles
    /\ overlapped \subseteq Accounts
    /\ gpc \in [GameWorkers -> {"idle", "load", "save"}]
    /\ grole \in [GameWorkers -> Roles \cup {NoRole}]
    /\ cached \in [Roles -> AnyAccount \cup {NoProfile}]

\* Who a role was drawn for shows in the account key, in a LoginRsp, or in a
\* login in progress; these never name two accounts for one role.
Claims ==
    {<<a, roleOf[a]>> : a \in Accounts} \cup answered \cup
    {<<account[w], role[w]>> : w \in Workers}

\* Where a role can be, given what Redis has handed out: a login holds one from
\* its draw to its answer, the game server loads only such roles, and a role not
\* drawn yet has no profile.
Drawn ==
    /\ \A c \in Claims : c[2] \in 0 .. uid
    /\ \A w \in Workers : pc[w] \in {"idle", "load", "next"} <=> role[w] = NoRole
    /\ \A g \in GameWorkers :
          grole[g] \in 0 .. uid /\ (grole[g] = NoRole <=> gpc[g] = "idle")
    /\ \A r \in Roles : r > uid => profile[r] = NoProfile /\ cached[r] = NoProfile

\* Two accounts are never given the same role, with any interleaving of logins
\* and any failures of the store between LoadRoleID and SaveProfile.
RolesNotShared ==
    \A c, d \in Claims : c[2] = d[2] /\ c[2] # NoRole => c[1] = d[1]

\* A profile carries the account its role was drawn for, or none (when the game
\* server created it), never another's, whoever wrote it last; the same of the
\* copies the game server saves again later.
ProfileOfClaimant ==
    \A c \in Claims : c[2] # NoRole =>
        {profile[c[2]], cached[c[2]]} \subseteq {c[1], NoAccount, NoProfile}

\* A role that was answered for an account stays the account's role, also
\* across logins that failed half-way and next to logins of other accounts, as
\* long as no two logins of the account were resolved at the same time.
AnsweredRoleStays ==
    \A c \in answered : c[1] \in Accounts \ overlapped => roleOf[c[1]] = c[2]

\* How far a login is with an account that no other login is resolving: before
\* it saves a role none was answered, after that the role is the account's.
Settled ==
    /\ \A w \in Workers : pc[w] = "idle" => account[w] = NoAccount
    /\ \A v, w \in Workers :
          v # w /\ account[v] = account[w] => account[w] \in overlapped \cup {NoAccount}
    /\ \A w \in Workers : account[w] \in Accounts \ overlapped =>
          /\ pc[w] \in {"next", "saveRole"} => \A c \in answered : c[1] # account[w]
          /\ pc[w] \in {"saveProfile", "enter"} => roleOf[account[w]] = role[w]

\* The conjunction is inductive.
IInv ==
    /\ TypeOK
    /\ Drawn
    /\ RolesNotShared
    /\ ProfileOfClaimant
    /\ AnsweredRoleStays
    /\ Settled
=============================================================================
