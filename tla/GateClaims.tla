----------------------------- MODULE GateClaims -----------------------------
(***************************************************************************)
(* What comments and configuration of the gate say of it, and the code     *)
(* does not do.  Each definition is violated in a run of its own.          *)
(***************************************************************************)
EXTENDS Gate

\* resume.go kicks the old connection and binds the new one ("踢掉旧 Conn",
\* "绑定新 Conn"): the read error of one connection must leave a session that is
\* served by another alone.  onConnClose finds the session by id only.
ReadErrorSparesOthers ==
    [][\A c \in Conns, s \in Sessions :
          reading[c] = "reading" /\ reading'[c] = "ended" /\ conn[s] \notin {c, NoConn}
              => conn'[s] = conn[s]]_vars

\* onLoginRsp kicks the player's other session ("顶号处理"): a player has one
\* connected session.  A displaced session can be resumed and stays.
OneSessionPerPlayer ==
    \A s, t \in bySession :
        /\ conn[s] # NoConn /\ conn[t] # NoConn
        /\ playerID[s] = playerID[t] /\ playerID[s] # NoPlayer
        => s = t
=============================================================================
