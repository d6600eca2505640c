----------------------------- MODULE MCGateway -----------------------------
(***************************************************************************)
(* Gateway for TLC: two tokens, workspaces, roles, operations and sites,   *)
(* and contents of the two files chosen so that no two agree:              *)
(*   Wide    t1 is granted both workspaces, each through its own role, and *)
(*           one site of w2 is behind the tunnel;                          *)
(*   Closed  t2 has taken t1's place, w2 is gone, the role t1 had in w1    *)
(*           has gained the second operation, and one site is disabled;    *)
(*   Locked  Wide without an admin token.                                  *)
(***************************************************************************)
EXTENDS Gateway, TLC

CONSTANTS t1, t2, w1, w2, viewer, editor, get, put, old, jira, slack

MCToken     == {t1, t2}
MCWorkspace == {w1, w2}
MCRole      == {viewer, editor}
MCOp        == {get, put, old}
MCSite      == {jira, slack}

Wide   == [agents |-> {t1}, grants |-> {<<t1, w1, viewer>>, <<t1, w2, editor>>},
           roles |-> (viewer :> {get} @@ editor :> {put}), workspaces |-> {w1, w2},
           disabled |-> {}, gated |-> {<<w2, slack>>}, admin |-> TRUE]
Closed == [agents |-> {t2}, grants |-> {<<t2, w1, viewer>>},
           roles |-> (viewer :> {get, put} @@ editor :> {}), workspaces |-> {w1},
           disabled |-> {<<w1, slack>>}, gated |-> {}, admin |-> TRUE]
Locked == [Wide EXCEPT !.admin = FALSE]

RegrantConfigs == {Wide, Closed}
LockConfigs    == {Wide, Closed, Locked}

Full  == (get :> jira @@ put :> slack @@ old :> Nil)
Other == (get :> Nil @@ put :> jira @@ old :> jira)

OneRegistry   == {Full}
TwoRegistries == {Full, Other}
=============================================================================
