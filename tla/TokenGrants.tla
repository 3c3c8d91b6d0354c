---------------------------- MODULE TokenGrants ----------------------------
(***************************************************************************)
(* What a service that hands refresh tokens out promises: an account has at*)
(* most one token in force; a token comes into force only for a call whose *)
(* credentials were verified, once for each verification; and a refresh    *)
(* token is credentials only while it is in force.                         *)
(***************************************************************************)
CONSTANTS Accounts, Calls, Tokens(_), NoToken

VARIABLES
  inForce,  \* the token in force of each account, or NoToken
  verified  \* who was verified and has no token yet: the call, the account,
            \* and the token that the call showed (NoToken: other credentials)

grants == <<inForce, verified>>

Init ==
  /\ inForce \in [Accounts -> {NoToken} \cup UNION {Tokens(a) : a \in Accounts}]
  /\ verified = {}

Verify(c, a) ==
  /\ UNCHANGED inForce
  /\ \A v \in verified : v[1] # c
  /\ \E shown \in {NoToken, inForce[a]} : verified' = verified \cup {<<c, a, shown>>}

Grant(v) ==
  /\ v \in verified
  /\ verified' = verified \ {v}
  /\ \E t \in Tokens(v[2]) : inForce' = [inForce EXCEPT ![v[2]] = t]

Revoke(a) == UNCHANGED verified /\ inForce' = [inForce EXCEPT ![a] = NoToken]

(* Verified calls that get nothing: they failed, or the server stopped.    *)
Drop == UNCHANGED inForce /\ verified' \subseteq verified

Next ==
  \/ Drop
  \/ \E a \in Accounts, c \in Calls : Verify(c, a)
  \/ \E v \in verified : Grant(v)
  \/ \E a \in Accounts : Revoke(a)

Spec == Init /\ [][Next]_grants
=============================================================================
