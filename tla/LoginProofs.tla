----------------------------- MODULE LoginProofs -----------------------------
(***************************************************************************)
(* Proofs about LoginService, for any accounts, workers and failures.      *)
(***************************************************************************)
EXTENDS LoginService, TLAPS

LEMMA InitIInv == Init => IInv
  BY LoginAssumption
  DEF Init, IInv, TypeOK, Drawn, RolesNotShared, ProfileOfClaimant, Claims, Roles, NoRole,
      AnyAccount, AnsweredRoleStays, Settled

LEMMA TypeStep == TypeOK /\ Drawn /\ [Next]_vars => TypeOK'
  <1> SUFFICES ASSUME TypeOK, Drawn, [Next]_vars PROVE TypeOK'
    OBVIOUS
  <1> USE LoginAssumption DEF TypeOK, Roles, NoRole, AnyAccount, store, login, game, GameDone,
             history
  <1>1. ASSUME NEW w \in Workers, NEW a \in AnyAccount, Start(w, a) PROVE TypeOK'
    BY <1>1 DEF Start, InProgress
  <1>2. ASSUME NEW w \in Workers, Load(w) PROVE TypeOK'
    BY <1>2 DEF Load, Loaded
  <1>3. ASSUME NEW w \in Workers, Next_(w) PROVE TypeOK'
    BY <1>3 DEF Next_, NextUID
  <1>4. ASSUME NEW w \in Workers, SaveRole(w) PROVE TypeOK'
    BY <1>4 DEF SaveRole, RoleSaved
  <1>5. ASSUME NEW w \in Workers, SaveProfile(w) PROVE TypeOK'
    BY <1>5 DEF SaveProfile
  <1>6. ASSUME NEW w \in Workers, StoreFails(w) PROVE TypeOK'
    <2>1. /\ uid' \in 0 .. MaxRole
          /\ roleOf' \in [Accounts -> Roles \cup {NoRole}]
      <3>1. uid' = uid \/ (uid < MaxRole /\ uid' = uid + 1)
        BY <1>6 DEF StoreFails
      <3>2. roleOf' = roleOf \/ roleOf' = RoleSaved(account[w], role[w])
        BY <1>6 DEF StoreFails
      <3>3. QED
        BY <3>1, <3>2 DEF RoleSaved
    <2>2. profile' \in [Roles -> AnyAccount \cup {NoProfile}]
      BY <1>6 DEF StoreFails
    <2>3. Abort(w) /\ UNCHANGED <<history, game>>
      BY <1>6 DEF StoreFails
    <2>4. /\ pc' \in [Workers -> {"idle", "load", "next", "saveRole", "saveProfile", "enter"}]
          /\ account' \in [Workers -> AnyAccount]
          /\ role' \in [Workers -> Roles \cup {NoRole}]
      BY <2>3 DEF Abort
    <2>5. UNCHANGED <<answered, overlapped, gpc, grole, cached>>
      BY <2>3
    <2>6. QED
      BY <2>1, <2>2, <2>4, <2>5
  <1>7. ASSUME NEW w \in Workers, Answer(w) PROVE TypeOK'
    <2>1. /\ pc' \in [Workers -> {"idle", "load", "next", "saveRole", "saveProfile", "enter"}]
          /\ account' \in [Workers -> AnyAccount]
          /\ role' \in [Workers -> Roles \cup {NoRole}]
      BY <1>7 DEF Answer, Abort
    <2>2. <<account[w], role[w]>> \in AnyAccount \X Roles
      BY <1>7 DEF Answer, Drawn
    <2>3. answered' \subseteq AnyAccount \X Roles
      BY <1>7, <2>2 DEF Answer
    <2>4. /\ gpc' \in [GameWorkers -> {"idle", "load", "save"}]
          /\ grole' \in [GameWorkers -> Roles \cup {NoRole}]
      BY <1>7 DEF Answer
    <2>5. UNCHANGED <<uid, roleOf, profile, cached, overlapped>>
      BY <1>7 DEF Answer
    <2>6. QED
      BY <2>1, <2>3, <2>4, <2>5
  <1>8. ASSUME NEW g \in GameWorkers, GameLoad(g) PROVE TypeOK'
    <2>1. CASE profile[grole[g]] = NoProfile
      BY <1>8, <2>1 DEF GameLoad
    <2>2. CASE profile[grole[g]] # NoProfile
      <3>1. grole[g] \in Roles
        BY <1>8 DEF GameLoad, Drawn
      <3>2. cached' = [cached EXCEPT ![grole[g]] = profile[grole[g]]] /\ GameDone(g)
        BY <1>8, <2>2 DEF GameLoad
      <3>3. cached' \in [Roles -> AnyAccount \cup {NoProfile}]
        BY <3>1, <3>2
      <3>4. UNCHANGED <<store, login, history>>
        BY <1>8 DEF GameLoad
      <3>5. QED
        BY <3>2, <3>3, <3>4
    <2>3. QED
      BY <2>1, <2>2
  <1>9. ASSUME NEW g \in GameWorkers, GameSave(g) PROVE TypeOK'
    BY <1>9 DEF GameSave
  <1>10. ASSUME NEW g \in GameWorkers, GameFails(g) PROVE TypeOK'
    BY <1>10 DEF GameFails
  <1>11. ASSUME NEW r \in Roles, GameResave(r) PROVE TypeOK'
    BY <1>11 DEF GameResave
  <1>12. CASE UNCHANGED vars
    BY <1>12 DEF vars
  <1>13. QED
    BY <1>1, <1>2, <1>3, <1>4, <1>5, <1>6, <1>7, <1>8, <1>9, <1>10, <1>11, <1>12 DEF Next

-----------------------------------------------------------------------------
\* What a step can add to the claims: nothing, a claim on no role, or the claim
\* of one login on the role Redis just counted up to.
Grows ==
    \E a \in AnyAccount :
        \A c \in Claims' :
            c \in Claims \/ c[2] = NoRole \/ (uid' = uid + 1 /\ c = <<a, uid + 1>>)

LEMMA ClaimsGrow == TypeOK /\ Drawn /\ [Next]_vars => Grows
  <1> SUFFICES ASSUME TypeOK, Drawn, [Next]_vars PROVE Grows
    OBVIOUS
  <1> USE LoginAssumption DEF store, login, game, history
  <1>0. ASSUME UNCHANGED <<roleOf, answered, account, role>> PROVE Grows
    BY <1>0 DEF Grows, Claims, AnyAccount
  <1>1. ASSUME NEW w \in Workers, NEW a \in AnyAccount, Start(w, a) PROVE Grows
    <2>1. role[w] = NoRole /\ role' = role
      BY <1>1 DEF Start, Drawn
    <2>2. \A v \in Workers : v # w => account'[v] = account[v]
      BY <1>1 DEF Start, TypeOK
    <2>3. roleOf' = roleOf /\ answered' = answered
      BY <1>1 DEF Start
    <2>4. QED
      BY <2>1, <2>2, <2>3 DEF Grows, Claims, AnyAccount
  <1>2. ASSUME NEW w \in Workers, Load(w) PROVE Grows
    <2>1. account' = account /\ roleOf' = roleOf /\ answered' = answered
      BY <1>2 DEF Load
    <2>2. \A v \in Workers : v # w => role'[v] = role[v]
      BY <1>2 DEF Load, TypeOK
    <2>3. role'[w] = NoRole \/ (account[w] \in Accounts /\ role'[w] = roleOf[account[w]])
      BY <1>2 DEF Load, Loaded, TypeOK, AnyAccount
    <2>4. QED
      BY <2>1, <2>2, <2>3 DEF Grows, Claims, AnyAccount
  <1>3. ASSUME NEW w \in Workers, Next_(w) PROVE Grows
    <2>1. account' = account /\ roleOf' = roleOf /\ answered' = answered
      BY <1>3 DEF Next_
    <2>2. \A v \in Workers : v # w => role'[v] = role[v]
      BY <1>3 DEF Next_, TypeOK
    <2>3. role'[w] = uid + 1 /\ uid' = uid + 1
      BY <1>3 DEF Next_, NextUID, TypeOK
    <2>4. account[w] \in AnyAccount
      BY DEF TypeOK
    <2>5. QED
      BY <2>1, <2>2, <2>3, <2>4 DEF Grows, Claims
  <1>4. ASSUME NEW w \in Workers, roleOf' = RoleSaved(account[w], role[w])
        PROVE  \A a \in Accounts : <<a, roleOf'[a]>> \in Claims
    <2> SUFFICES ASSUME NEW a \in Accounts PROVE <<a, roleOf'[a]>> \in Claims
      OBVIOUS
    <2>1. roleOf'[a] = roleOf[a] \/ (a = account[w] /\ roleOf'[a] = role[w])
      BY <1>4 DEF RoleSaved, TypeOK
    <2>2. QED
      BY <2>1 DEF Claims
  <1>5. ASSUME NEW w \in Workers, SaveRole(w) PROVE Grows
    <2>1. account' = account /\ role' = role /\ answered' = answered
      BY <1>5 DEF SaveRole
    <2>2. \A a \in Accounts : <<a, roleOf'[a]>> \in Claims
      BY <1>4, <1>5 DEF SaveRole
    <2>3. QED
      BY <2>1, <2>2 DEF Grows, Claims, AnyAccount
  <1>6. ASSUME NEW w \in Workers, Abort(w)
        PROVE  \A v \in Workers : <<account'[v], role'[v]>> \in Claims \/ role'[v] = NoRole
    <2> SUFFICES ASSUME NEW v \in Workers
                 PROVE <<account'[v], role'[v]>> \in Claims \/ role'[v] = NoRole
      OBVIOUS
    <2>1. CASE v = w
      BY <1>6, <2>1 DEF Abort, TypeOK
    <2>2. CASE v # w
      <3>1. account'[v] = account[v] /\ role'[v] = role[v]
        BY <1>6, <2>2 DEF Abort, TypeOK
      <3>2. QED
        BY <3>1 DEF Claims
    <2>3. QED
      BY <2>1, <2>2
  <1>7. ASSUME NEW w \in Workers, StoreFails(w) PROVE Grows
    <2>1. answered' = answered /\ Abort(w)
      BY <1>7 DEF StoreFails
    <2>2. \A a \in Accounts : <<a, roleOf'[a]>> \in Claims
      <3>1. CASE roleOf' = roleOf
        BY <3>1 DEF Claims
      <3>2. CASE roleOf' = RoleSaved(account[w], role[w])
        BY <3>2, <1>4
      <3>3. QED
        BY <1>7, <3>1, <3>2 DEF StoreFails
    <2>3. QED
      BY <1>6, <2>1, <2>2 DEF Grows, Claims, AnyAccount
  <1>8. ASSUME NEW w \in Workers, Answer(w) PROVE Grows
    <2>1. roleOf' = roleOf /\ Abort(w) /\ answered' = answered \cup {<<account[w], role[w]>>}
      BY <1>8 DEF Answer
    <2>2. <<account[w], role[w]>> \in Claims
      BY DEF Claims
    <2>3. QED
      BY <1>6, <2>1, <2>2 DEF Grows, Claims, AnyAccount
  <1>9. ASSUME NEW w \in Workers, SaveProfile(w) PROVE Grows
    BY <1>0, <1>9 DEF SaveProfile
  <1>10. ASSUME NEW g \in GameWorkers, GameLoad(g) \/ GameSave(g) \/ GameFails(g) PROVE Grows
    BY <1>0, <1>10 DEF GameLoad, GameSave, GameFails
  <1>11. ASSUME NEW r \in Roles, GameResave(r) PROVE Grows
    BY <1>0, <1>11 DEF GameResave
  <1>12. CASE UNCHANGED vars
    BY <1>0, <1>12 DEF vars
  <1>13. QED
    BY <1>1, <1>2, <1>3, <1>5, <1>7, <1>8, <1>9, <1>10, <1>11, <1>12 DEF Next

-----------------------------------------------------------------------------
LEMMA HeldIsDrawn == Drawn => \A w \in Workers : role[w] \in 0 .. uid
  <1> SUFFICES ASSUME Drawn, NEW w \in Workers PROVE role[w] \in 0 .. uid
    OBVIOUS
  <1>1. <<account[w], role[w]>> \in Claims
    BY DEF Claims
  <1>2. QED
    BY <1>1 DEF Drawn

LEMMA DrawnStep == TypeOK /\ Drawn /\ [Next]_vars => Drawn'
  <1> SUFFICES ASSUME TypeOK, Drawn, [Next]_vars PROVE Drawn'
    OBVIOUS
  <1> DEFINE Held == \A w \in Workers : pc[w] \in {"idle", "load", "next"} <=> role[w] = NoRole
             Loading == \A g \in GameWorkers :
                           grole[g] \in 0 .. uid /\ (grole[g] = NoRole <=> gpc[g] = "idle")
             Blank == \A r \in Roles :
                         r > uid => profile[r] = NoProfile /\ cached[r] = NoProfile
  <1> USE LoginAssumption DEF store, login, game, history
  <1>0. uid' \in Nat /\ uid <= uid' /\ uid \in Nat
    <2>1. uid \in 0 .. MaxRole /\ (uid' = uid \/ uid' = uid + 1)
      BY DEF TypeOK, Next, Start, Load, Next_, SaveRole, SaveProfile, StoreFails, Answer,
             GameLoad, GameSave, GameFails, GameResave, vars
    <2>2. QED
      BY <2>1
  <1>1. \A c \in Claims' : c[2] \in 0 .. uid'
    <2>1. PICK a \in AnyAccount : \A c \in Claims' :
             c \in Claims \/ c[2] = NoRole \/ (uid' = uid + 1 /\ c = <<a, uid + 1>>)
      BY ClaimsGrow DEF Grows
    <2>2. QED
      BY <1>0, <2>1 DEF Drawn, NoRole
  <1>2. Held'
    <2>1. Held
      BY DEF Drawn
    <2>2. ASSUME NEW w \in Workers, NEW a \in AnyAccount, Start(w, a) PROVE Held'
      BY <2>1, <2>2 DEF Start, TypeOK
    <2>3. ASSUME NEW w \in Workers, Load(w) PROVE Held'
      BY <2>1, <2>3 DEF Load, TypeOK
    <2>4. ASSUME NEW w \in Workers, Next_(w) PROVE Held'
      BY <2>1, <2>4, <1>0 DEF Next_, NextUID, TypeOK, NoRole
    <2>5. ASSUME NEW w \in Workers, SaveRole(w) \/ SaveProfile(w) PROVE Held'
      BY <2>1, <2>5 DEF SaveRole, SaveProfile, TypeOK
    <2>6. ASSUME NEW w \in Workers, Abort(w) PROVE Held'
      BY <2>1, <2>6 DEF Abort, TypeOK
    <2>7. ASSUME NEW w \in Workers, StoreFails(w) \/ Answer(w) PROVE Held'
      BY <2>6, <2>7 DEF StoreFails, Answer
    <2>8. ASSUME NEW g \in GameWorkers, GameLoad(g) \/ GameSave(g) \/ GameFails(g) PROVE Held'
      BY <2>1, <2>8 DEF GameLoad, GameSave, GameFails
    <2>9. ASSUME NEW r \in Roles, GameResave(r) PROVE Held'
      BY <2>1, <2>9 DEF GameResave
    <2>10. CASE UNCHANGED vars
      BY <2>1, <2>10 DEF vars
    <2>11. QED
      BY <2>2, <2>3, <2>4, <2>5, <2>7, <2>8, <2>9, <2>10 DEF Next
  <1>3. Loading'
    <2>1. Loading
      BY DEF Drawn
    <2>2. ASSUME UNCHANGED <<gpc, grole>> PROVE Loading'
      BY <1>0, <2>1, <2>2
    <2>3. ASSUME NEW w \in Workers, Answer(w) PROVE Loading'
      <3>1. role[w] \in 0 .. uid /\ role[w] # NoRole
        BY <2>3, HeldIsDrawn DEF Answer, Drawn
      <3>2. uid' = uid
        BY <2>3 DEF Answer
      <3>3. CASE UNCHANGED game
        BY <2>2, <3>3
      <3>4. ASSUME NEW g \in GameWorkers, gpc' = [gpc EXCEPT ![g] = "load"],
                   grole' = [grole EXCEPT ![g] = role[w]]
            PROVE  Loading'
        BY <2>1, <3>1, <3>2, <3>4 DEF TypeOK
      <3>5. QED
        BY <2>3, <3>3, <3>4 DEF Answer
    <2>4. ASSUME NEW g \in GameWorkers, GameLoad(g) PROVE Loading'
      BY <2>1, <2>4, <1>0 DEF GameLoad, GameDone, TypeOK, NoRole
    <2>5. ASSUME NEW g \in GameWorkers, GameSave(g) \/ GameFails(g) PROVE Loading'
      BY <2>1, <2>5, <1>0 DEF GameSave, GameFails, GameDone, TypeOK, NoRole
    <2>6. ASSUME NEW w \in Workers, NEW a \in AnyAccount,
                 Start(w, a) \/ Load(w) \/ Next_(w) \/ SaveRole(w) \/ SaveProfile(w)
                 \/ StoreFails(w)
          PROVE  Loading'
      BY <2>2, <2>6 DEF Start, Load, Next_, SaveRole, SaveProfile, StoreFails
    <2>7. ASSUME NEW r \in Roles, GameResave(r) PROVE Loading'
      BY <2>2, <2>7 DEF GameResave
    <2>8. CASE UNCHANGED vars
      BY <2>2, <2>8 DEF vars
    <2>9. QED
      BY <2>3, <2>4, <2>5, <2>6, <2>7, <2>8 DEF Next, AnyAccount
  <1>4. Blank'
    <2>1. Blank
      BY DEF Drawn
    <2>2. ASSUME NEW r \in 0 .. uid,
                 \A q \in Roles \ {r} : profile'[q] = profile[q] /\ cached'[q] = cached[q]
          PROVE  Blank'
      BY <1>0, <2>1, <2>2 DEF Roles
    <2>3. ASSUME UNCHANGED <<profile, cached>> PROVE Blank'
      BY <1>0, <2>1, <2>3 DEF Roles
    <2>4. ASSUME NEW w \in Workers, SaveProfile(w) \/ StoreFails(w) PROVE Blank'
      <3>1. role[w] \in 0 .. uid
        BY HeldIsDrawn
      <3>2. \A q \in Roles \ {role[w]} : profile'[q] = profile[q] /\ cached'[q] = cached[q]
        BY <2>4 DEF SaveProfile, StoreFails, TypeOK
      <3>3. QED
        BY <2>2, <3>1, <3>2
    <2>5. ASSUME NEW g \in GameWorkers, GameLoad(g) \/ GameSave(g) \/ GameFails(g) PROVE Blank'
      <3>1. grole[g] \in 0 .. uid
        BY DEF Drawn
      <3>2. \A q \in Roles \ {grole[g]} : profile'[q] = profile[q] /\ cached'[q] = cached[q]
        BY <2>5 DEF GameLoad, GameSave, GameFails, TypeOK
      <3>3. QED
        BY <2>2, <3>1, <3>2
    <2>6. ASSUME NEW r \in Roles, GameResave(r) PROVE Blank'
      <3>1. r \in 0 .. uid
        BY <1>0, <2>1, <2>6 DEF GameResave, Roles
      <3>2. \A q \in Roles \ {r} : profile'[q] = profile[q] /\ cached'[q] = cached[q]
        BY <2>6 DEF GameResave, TypeOK
      <3>3. QED
        BY <2>2, <3>1, <3>2
    <2>7. ASSUME NEW w \in Workers, NEW a \in AnyAccount,
                 Start(w, a) \/ Load(w) \/ Next_(w) \/ SaveRole(w) \/ Answer(w)
          PROVE  Blank'
      BY <2>3, <2>7 DEF Start, Load, Next_, SaveRole, Answer
    <2>8. CASE UNCHANGED vars
      BY <2>3, <2>8 DEF vars
    <2>9. QED
      BY <2>4, <2>5, <2>6, <2>7, <2>8 DEF Next, AnyAccount
  <1>5. QED
    BY <1>1, <1>2, <1>3, <1>4 DEF Drawn

-----------------------------------------------------------------------------
LEMMA SharedStep == TypeOK /\ Drawn /\ RolesNotShared /\ [Next]_vars => RolesNotShared'
  <1> SUFFICES ASSUME TypeOK, Drawn, RolesNotShared, [Next]_vars,
                      NEW c \in Claims', NEW d \in Claims', c[2] = d[2], c[2] # NoRole
               PROVE  c[1] = d[1]
    BY DEF RolesNotShared
  <1>1. PICK a \in AnyAccount : \A x \in Claims' :
           x \in Claims \/ x[2] = NoRole \/ (uid' = uid + 1 /\ x = <<a, uid + 1>>)
    BY ClaimsGrow DEF Grows
  <1>2. \A x \in Claims : x[2] # uid + 1
    BY DEF Drawn, TypeOK
  <1>3. QED
    BY <1>1, <1>2 DEF RolesNotShared

LEMMA ClaimantStep ==
    TypeOK /\ Drawn /\ RolesNotShared /\ ProfileOfClaimant /\ [Next]_vars => ProfileOfClaimant'
  <1> DEFINE Fits(c) == {profile[c[2]], cached[c[2]]} \subseteq {c[1], NoAccount, NoProfile}
  <1> SUFFICES ASSUME TypeOK, Drawn, RolesNotShared, ProfileOfClaimant, [Next]_vars,
                      NEW c \in Claims', c[2] # NoRole
               PROVE  Fits(c)'
    BY DEF ProfileOfClaimant
  <1>1. PICK a \in AnyAccount : \A x \in Claims' :
           x \in Claims \/ x[2] = NoRole \/ (uid' = uid + 1 /\ x = <<a, uid + 1>>)
    BY ClaimsGrow DEF Grows
  <1>2. c[2] \in Roles
    <2>1. c[2] \in 0 .. uid'
      BY DrawnStep DEF Drawn
    <2>2. uid' \in 0 .. MaxRole
      BY TypeStep DEF TypeOK
    <2>3. QED
      BY <2>1, <2>2, LoginAssumption DEF Roles, NoRole
  \* A claim on a role just counted up: the role has no profile yet.
  <1>3. Fits(c)
    <2>1. CASE c \in Claims
      BY <2>1 DEF ProfileOfClaimant
    <2>2. CASE c[2] = uid + 1
      BY <1>2, <2>2 DEF Drawn, TypeOK
    <2>3. QED
      BY <1>1, <2>1, <2>2
  <1>4. CASE UNCHANGED <<profile, cached>>
    BY <1>3, <1>4
  <1>5. ASSUME uid' = uid PROVE c \in Claims
    BY <1>1, <1>5 DEF TypeOK
  <1>6. ASSUME NEW w \in Workers, profile' = [profile EXCEPT ![role[w]] = account[w]],
               uid' = uid, cached' = cached
        PROVE  Fits(c)'
    <2>1. <<account[w], role[w]>> \in Claims
      BY DEF Claims
    <2>2. c[2] = role[w] => c[1] = account[w]
      BY <1>5, <1>6, <2>1 DEF RolesNotShared
    <2>3. profile'[c[2]] = IF c[2] = role[w] THEN account[w] ELSE profile[c[2]]
      BY <1>2, <1>6 DEF TypeOK
    <2>4. QED
      BY <1>3, <1>6, <2>2, <2>3
  <1>7. CASE \E w \in Workers : SaveProfile(w) \/ StoreFails(w)
    BY <1>4, <1>6, <1>7 DEF SaveProfile, StoreFails, store, game
  <1>8. ASSUME NEW g \in GameWorkers, GameLoad(g) \/ GameSave(g) \/ GameFails(g) PROVE Fits(c)'
    <2>1. profile'[c[2]] \in {profile[c[2]], NoAccount}
      BY <1>2, <1>8 DEF GameLoad, GameSave, GameFails, TypeOK, store
    <2>2. cached'[c[2]] \in {cached[c[2]], profile[c[2]], NoAccount}
      BY <1>2, <1>8 DEF GameLoad, GameSave, GameFails, TypeOK
    <2>3. QED
      BY <1>3, <2>1, <2>2
  <1>9. ASSUME NEW r \in Roles, GameResave(r) PROVE Fits(c)'
    <2>1. profile'[c[2]] \in {profile[c[2]], cached[c[2]]} /\ cached' = cached
      BY <1>2, <1>9 DEF GameResave, TypeOK, game
    <2>2. QED
      BY <1>3, <2>1
  <1>10. QED
    BY <1>4, <1>7, <1>8, <1>9
    DEF Next, Start, Load, Next_, SaveRole, Answer, vars, store, game

-----------------------------------------------------------------------------
\* What a step does to the account keys: it leaves them, or it is a login that
\* saves the role it has drawn.
LEMMA KeysMove ==
    TypeOK /\ [Next]_vars =>
        /\ overlapped \subseteq overlapped'
        /\ \/ roleOf' = roleOf
           \/ \E w \in Workers :
                 /\ pc[w] = "saveRole"
                 /\ roleOf' = RoleSaved(account[w], role[w])
                 /\ SaveRole(w) \/ StoreFails(w)
  BY DEF TypeOK, Next, Start, Load, Next_, SaveRole, SaveProfile, StoreFails, Answer, GameLoad,
         GameSave, GameFails, GameResave, vars, store, login, game, history

\* A login that saves a role touches no account with an answer that counts.
LEMMA AnsweredStep ==
    TypeOK /\ AnsweredRoleStays /\ Settled /\ [Next]_vars => AnsweredRoleStays'
  <1> SUFFICES ASSUME TypeOK, AnsweredRoleStays, Settled, [Next]_vars,
                      NEW c \in answered', c[1] \in Accounts \ overlapped'
               PROVE  roleOf'[c[1]] = c[2]
    BY DEF AnsweredRoleStays
  <1>0. c[1] \in Accounts \ overlapped
    BY KeysMove
  <1>1. CASE c \in answered
    <2>1. roleOf[c[1]] = c[2]
      BY <1>0, <1>1 DEF AnsweredRoleStays
    <2>2. ASSUME NEW w \in Workers, pc[w] = "saveRole",
                 roleOf' = RoleSaved(account[w], role[w])
          PROVE  roleOf'[c[1]] = roleOf[c[1]]
      <3>1. account[w] # c[1]
        BY <1>0, <1>1, <2>2 DEF Settled
      <3>2. QED
        BY <1>0, <2>2, <3>1 DEF RoleSaved, TypeOK
    <2>3. QED
      BY <2>1, <2>2, KeysMove
  <1>2. CASE c \notin answered
    <2>1. PICK w \in Workers : Answer(w) /\ c = <<account[w], role[w]>>
      BY <1>2 DEF Next, Start, Load, Next_, SaveRole, SaveProfile, StoreFails, Answer, GameLoad,
                  GameSave, GameFails, GameResave, vars, history
    <2>2. roleOf' = roleOf /\ roleOf[account[w]] = role[w]
      BY <1>0, <2>1 DEF Settled, Answer, store
    <2>3. QED
      BY <2>1, <2>2
  <1>3. QED
    BY <1>1, <1>2

\* The three parts of Settled, and what keeps them when nothing they name moves.
SettledIdle == \A w \in Workers : pc[w] = "idle" => account[w] = NoAccount
SettledApart ==
    \A v, w \in Workers :
       v # w /\ account[v] = account[w] => account[w] \in overlapped \cup {NoAccount}
SettledLogin(w) ==
    account[w] \in Accounts \ overlapped =>
       /\ pc[w] \in {"next", "saveRole"} => \A c \in answered : c[1] # account[w]
       /\ pc[w] \in {"saveProfile", "enter"} => roleOf[account[w]] = role[w]

\* What a step does to a login, seen from a login w: it starts one, moves one,
\* ends one or leaves them all.
LEMMA LoginMoves ==
    ASSUME TypeOK, [Next]_vars
    PROVE  \/ \E w \in Workers, a \in AnyAccount : Start(w, a)
           \/ \E w \in Workers : Load(w) \/ Next_(w) \/ SaveRole(w) \/ SaveProfile(w)
           \/ \E w \in Workers : Abort(w) /\ overlapped' = overlapped
           \/ UNCHANGED <<pc, account, role, overlapped, answered, roleOf>>
  BY DEF Next, StoreFails, Answer, GameLoad, GameSave, GameFails, GameResave, vars, store, login,
         game, history

LEMMA ApartStep == TypeOK /\ Settled /\ [Next]_vars => SettledIdle' /\ SettledApart'
  <1> SUFFICES ASSUME TypeOK, SettledIdle, SettledApart, [Next]_vars
               PROVE  SettledIdle' /\ SettledApart'
    BY DEF Settled, SettledIdle, SettledApart
  <1> USE LoginAssumption DEF SettledIdle, SettledApart
  <1>1. ASSUME NEW w \in Workers, NEW a \in AnyAccount, Start(w, a)
        PROVE  SettledIdle' /\ SettledApart'
    <2>1. account' = [account EXCEPT ![w] = a] /\ pc' = [pc EXCEPT ![w] = "load"]
      BY <1>1 DEF Start
    <2>2. overlapped' = overlapped \cup ({a} \cap InProgress)
      BY <1>1 DEF Start
    <2>3. SettledIdle'
      BY <2>1 DEF TypeOK
    <2>4. ASSUME NEW v \in Workers, v # w, account[v] = a
          PROVE  a \in overlapped' \cup {NoAccount}
      BY <2>2, <2>4 DEF InProgress
    <2>5. SettledApart'
      BY <2>1, <2>2, <2>4 DEF TypeOK
    <2>6. QED
      BY <2>3, <2>5
  <1>2. ASSUME NEW w \in Workers, Load(w) \/ Next_(w) \/ SaveRole(w) \/ SaveProfile(w)
        PROVE  SettledIdle' /\ SettledApart'
    <2>1. account' = account /\ overlapped' = overlapped
      BY <1>2 DEF Load, Next_, SaveRole, SaveProfile, history
    <2>2. \A v \in Workers : pc'[v] = "idle" => pc[v] = "idle"
      BY <1>2 DEF Load, Next_, SaveRole, SaveProfile, TypeOK
    <2>3. QED
      BY <2>1, <2>2
  <1>3. ASSUME NEW w \in Workers, Abort(w), overlapped' = overlapped
        PROVE  SettledIdle' /\ SettledApart'
    BY <1>3 DEF Abort, TypeOK
  <1>4. CASE UNCHANGED <<pc, account, role, overlapped, answered, roleOf>>
    BY <1>4
  <1>5. QED
    BY <1>1, <1>2, <1>3, <1>4, LoginMoves

LEMMA LoginStep ==
    TypeOK /\ Drawn /\ AnsweredRoleStays /\ Settled /\ [Next]_vars =>
        \A w \in Workers : SettledLogin(w)'
  <1> SUFFICES ASSUME TypeOK, Drawn, AnsweredRoleStays, Settled, [Next]_vars,
                      NEW w \in Workers, account'[w] \in Accounts \ overlapped'
               PROVE  /\ pc'[w] \in {"next", "saveRole"} =>
                            \A c \in answered' : c[1] # account'[w]
                      /\ pc'[w] \in {"saveProfile", "enter"} =>
                            roleOf'[account'[w]] = role'[w]
    BY DEF SettledLogin
  <1> DEFINE Goal == /\ pc'[w] \in {"next", "saveRole"} =>
                            \A c \in answered' : c[1] # account'[w]
                     /\ pc'[w] \in {"saveProfile", "enter"} =>
                            roleOf'[account'[w]] = role'[w]
  <1> SUFFICES Goal
    OBVIOUS
  <1> USE LoginAssumption
  \* A step of another login leaves w's account key and answers alone.
  <1>1. ASSUME pc'[w] = pc[w], account'[w] = account[w], role'[w] = role[w]
        PROVE  Goal
    <2>1. account[w] \in Accounts \ overlapped
      BY <1>1, KeysMove
    <2>2. pc[w] \in {"next", "saveRole"} => \A c \in answered : c[1] # account[w]
      BY <2>1 DEF Settled
    <2>3. pc[w] \in {"saveProfile", "enter"} => roleOf[account[w]] = role[w]
      BY <2>1 DEF Settled
    <2>4. ASSUME NEW v \in Workers, v # w PROVE account[v] # account[w]
      BY <2>1, <2>4 DEF Settled
    <2>5. pc[w] \in {"saveProfile", "enter"} => roleOf'[account[w]] = roleOf[account[w]]
      <3>1. ASSUME NEW v \in Workers, pc[v] = "saveRole",
                   roleOf' = RoleSaved(account[v], role[v]), v # w
            PROVE  roleOf'[account[w]] = roleOf[account[w]]
        BY <2>1, <2>4, <3>1 DEF RoleSaved, TypeOK
      <3>2. QED
        BY <3>1, KeysMove
    <2>6. ASSUME NEW c \in answered', c \notin answered, pc[w] \in {"next", "saveRole"}
          PROVE  c[1] # account[w]
      <3>1. PICK v \in Workers : Answer(v) /\ c = <<account[v], role[v]>>
        BY <2>6 DEF Next, Start, Load, Next_, SaveRole, SaveProfile, StoreFails, Answer,
                    GameLoad, GameSave, GameFails, GameResave, vars, history
      <3>2. v # w
        BY <2>6, <3>1 DEF Answer
      <3>3. QED
        BY <2>4, <3>1, <3>2
    <2>7. QED
      BY <1>1, <2>2, <2>3, <2>5, <2>6
  <1>2. CASE Load(w)
    <2>1. /\ account' = account /\ answered' = answered /\ roleOf' = roleOf
          /\ overlapped' = overlapped
      BY <1>2 DEF Load, store, history
    <2>2. account[w] # NoAccount
      BY <2>1
    <2>3. role'[w] = roleOf[account[w]]
      BY <1>2, <2>2 DEF Load, Loaded, TypeOK
    <2>4. pc'[w] = IF roleOf[account[w]] = NoRole THEN "next" ELSE "enter"
      BY <1>2, <2>2 DEF Load, Loaded, TypeOK
    <2>5. ASSUME NEW c \in answered, c[1] = account[w] PROVE roleOf[account[w]] # NoRole
      BY <2>1, <2>5 DEF AnsweredRoleStays, TypeOK, Roles, NoRole
    <2>6. QED
      BY <2>1, <2>3, <2>4, <2>5
  <1>3. CASE Next_(w)
    BY <1>3 DEF Next_, Settled, TypeOK, history
  <1>4. CASE SaveRole(w)
    <2>1. /\ account' = account /\ role' = role /\ overlapped' = overlapped
          /\ pc'[w] = "saveProfile"
      BY <1>4 DEF SaveRole, TypeOK, history
    <2>2. roleOf'[account[w]] = role[w]
      BY <1>4, <2>1 DEF SaveRole, RoleSaved, TypeOK
    <2>3. QED
      BY <2>1, <2>2
  <1>5. CASE SaveProfile(w)
    BY <1>5 DEF SaveProfile, Settled, TypeOK, history
  <1>6. ASSUME NEW a \in AnyAccount, Start(w, a) PROVE Goal
    BY <1>6 DEF Start, TypeOK
  <1>7. CASE Abort(w)
    BY <1>7 DEF Abort, TypeOK
  <1>8. ASSUME NEW v \in Workers, v # w, NEW a \in AnyAccount,
               Start(v, a) \/ Load(v) \/ Next_(v) \/ SaveRole(v) \/ SaveProfile(v) \/ Abort(v)
        PROVE  pc'[w] = pc[w] /\ account'[w] = account[w] /\ role'[w] = role[w]
    BY <1>8 DEF Start, Load, Next_, SaveRole, SaveProfile, Abort, TypeOK
  <1>9. QED
    BY <1>1, <1>2, <1>3, <1>4, <1>5, <1>6, <1>7, <1>8, LoginMoves DEF AnyAccount

LEMMA SettledStep ==
    TypeOK /\ Drawn /\ AnsweredRoleStays /\ Settled /\ [Next]_vars => Settled'
  BY ApartStep, LoginStep DEF Settled, SettledIdle, SettledApart, SettledLogin

\* Each conjunct of IInv is preserved by every step of the login module, the
\* store and the game server.
THEOREM InvariantHolds == Spec => []IInv
  <1>1. IInv /\ [Next]_vars => IInv'
    BY TypeStep, DrawnStep, SharedStep, ClaimantStep, AnsweredStep, SettledStep DEF IInv
  <1>2. QED
    BY InitIInv, <1>1, PTL DEF Spec

\* The variables of the login module, the store and the game server's copies stay
\* within their types.
THEOREM TypeCorrect == Spec => []TypeOK
  <1>1. IInv => TypeOK
    BY DEF IInv
  <1>2. QED
    BY InvariantHolds, <1>1, PTL

\* For any number of accounts, links and failures, ResolveRoleID never gives two
\* accounts the same role.
THEOREM RolesStayApart == Spec => []RolesNotShared
  <1>1. IInv => RolesNotShared
    BY DEF IInv
  <1>2. QED
    BY InvariantHolds, <1>1, PTL

\* A profile never names another account than the one its role was drawn for,
\* whichever of the login module and the game server wrote it last.
THEOREM ProfilesStayApart == Spec => []ProfileOfClaimant
  <1>1. IInv => ProfileOfClaimant
    BY DEF IInv
  <1>2. QED
    BY InvariantHolds, <1>1, PTL

\* A role answered for an account stays its role as long as no two logins of the
\* account overlap, whatever the other accounts and the failing store do.
THEOREM AnsweredRolesStay == Spec => []AnsweredRoleStays
  <1>1. IInv => AnsweredRoleStays
    BY DEF IInv
  <1>2. QED
    BY InvariantHolds, <1>1, PTL

=============================================================================
