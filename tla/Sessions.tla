------------------------------ MODULE Sessions ------------------------------
(***************************************************************************)
(* The sessions of the two AuthServices, of the staff and of the storefront*)
(* (the same code on the tables systemUser and customer).  A token says who*)
(* it is for and the second it was signed in, and nothing else: two tokens *)
(* of a second are the same.                                               *)
(***************************************************************************)
EXTENDS Handlers

CONSTANTS
  LastSecond,   \* the clock stops here (a bound for TLC)
  OpeningUsers, OpeningCustomers  \* the accounts to begin with, by id

ASSUME SecondsAssumption == LastSecond \in Nat \ {0}

User(id) == <<"user", id>>
Customer(id) == <<"customer", id>>

VARIABLES
  second,   \* the time, as jsonwebtoken puts it in a token
  session   \* rtHash: of each account that is there, the token in force

SessionsInit ==
  /\ second = 1
  /\ session = [a \in {User(id) : id \in DOMAIN OpeningUsers}
                  \cup {Customer(id) : id \in DOMAIN OpeningCustomers} |-> <<a, 0>>]

Tick ==
  /\ second < LastSecond
  /\ second' = second + 1

(* A call has shown who it is: it gets tokens.                             *)
Admit(c, account) == GoOn(c, <<{[op |-> "sign", account |-> account]}>>)

(* signTokens, and the first half of updateRefreshTokenHash.               *)
SignTokens(c, s) ==
  /\ s.op = "sign"
  /\ IF s.account \in DOMAIN session
       THEN GoOn(c, <<{[op |-> "store", account |-> s.account, token |-> <<s.account, second>>]}>>)
       ELSE Refuse(c)
  /\ UNCHANGED <<session, disturbed>>

StoreHash(c, s) ==
  /\ s.op = "store"
  /\ s.account \in DOMAIN session
  /\ session' = [session EXCEPT ![s.account] = s.token]
  /\ Executed(c, s)
  /\ UNCHANGED disturbed

LogOut(c, s) ==
  /\ s.op = "read" /\ Request(c).op = "logOut"
  /\ session' = [a \in DOMAIN session |-> IF a = Request(c).doc THEN None ELSE session[a]]
  /\ Executed(c, s)
  /\ UNCHANGED disturbed

(* Mutant of RefreshToken: it is not compared.                             *)
RefreshAnyToken(c, s) ==
  LET r == Request(c)
  IN  /\ s.op = "read" /\ r.op = "refreshToken"
      /\ IF r.doc \in DOMAIN session /\ session[r.doc] # None THEN Admit(c, r.doc) ELSE Refuse(c)
      /\ UNCHANGED <<session, disturbed>>

RefreshToken(c, s) ==
  LET r == Request(c)
  IN  /\ s.op = "read" /\ r.op = "refreshToken"
      /\ IF r.doc \in DOMAIN session /\ session[r.doc] = r.token THEN Admit(c, r.doc) ELSE Refuse(c)
      /\ UNCHANGED <<session, disturbed>>

SessionStep(c, s) ==
  SignTokens(c, s) \/ StoreHash(c, s) \/ LogOut(c, s) \/ RefreshToken(c, s)

(* An account comes, without a session, and goes, with it.                 *)
Open(account) == session' = Put(session, account, None)
Remove(account) == session' = [a \in DOMAIN session \ {account} |-> session[a]]
-----------------------------------------------------------------------------
(* The calls that were admitted and have no tokens in force yet.           *)
Shown(r) == IF r.op = "refreshToken" THEN r.token ELSE None
Admitted ==
  UNION {{<<c, s.account, Shown(Request(c))>> : s \in {t \in Sent(c) : t.op \in {"sign", "store"}}} :
           c \in Calls}
=============================================================================
