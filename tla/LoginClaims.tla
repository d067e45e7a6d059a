----------------------------- MODULE LoginClaims -----------------------------
(***************************************************************************)
(* What a comment of the store says, and the login module does not keep.   *)
(***************************************************************************)
EXTENDS LoginService

\* store_redis.go: the keys relate an account and a role, both ways
\* ("Account ↔ Role").  Two first logins of an account both find no role, draw
\* one each, and are both answered.
OneRolePerAccount ==
    \A c, d \in answered : c[1] = d[1] /\ c[1] # NoAccount => c[2] = d[2]
=============================================================================
