------------------------------ MODULE Accounts ------------------------------
(***************************************************************************)
(* The accounts of the staff and of the customers, and their sessions.     *)
(***************************************************************************)
EXTENDS Staff, Storefront

CONSTANTS
  Requests,   \* what clients ask for, by call; what is created has no id yet
  Emails, Passwords

VARIABLE overlapped  \* history: two calls have been at work at once

vars == <<staff, storefront, second, session, call, disturbed, overlapped>>

UserIds == Calls \cup DOMAIN OpeningUsers
CustomerIds == Calls \cup DOMAIN OpeningCustomers
AllAccounts == {User(id) : id \in UserIds} \cup {Customer(id) : id \in CustomerIds}
Docs == AllAccounts \cup {<<"code", p>> : p \in Phones}
TokensOf(a) == {a} \X (0..LastSecond)
Numbers == {Digits(p) : p \in Phones} \cup {Groups(p) : p \in Phones}

(* What is there to begin with has ids that no call gets; a user's e-mail  *)
(* is its own, and allowed; no two customers have an e-mail or a number.   *)
ASSUME OpeningAssumption ==
  /\ None \notin Calls \cup UserIds \cup CustomerIds \cup Emails \cup Phones /\ None \notin Numbers
  /\ DOMAIN OpeningUsers \cap Calls = {} /\ DOMAIN OpeningCustomers \cap Calls = {}
  /\ OpeningEmails \subseteq Emails
  /\ OpeningUsers \in [DOMAIN OpeningUsers -> [email : OpeningEmails, password : Passwords, picture : {FALSE}]]
  /\ \A u, v \in DOMAIN OpeningUsers : u # v => OpeningUsers[u].email # OpeningUsers[v].email
  /\ OpeningCustomers \in [DOMAIN OpeningCustomers -> [phone : Numbers, email : Emails \cup {None}]]
  /\ \A k, l \in DOMAIN OpeningCustomers : k # l =>
       /\ OpeningCustomers[k].phone # OpeningCustomers[l].phone
       /\ OpeningCustomers[k].email # None => OpeningCustomers[k].email # OpeningCustomers[l].email

(* What a client may ask for: who it is for, and what it says.             *)
SessionAsked ==
  [op : {"refreshToken"}, doc : AllAccounts, token : UNION {TokensOf(a) : a \in AllAccounts}]
  \cup [op : {"logOut"}, doc : AllAccounts]
StaffAsked ==
  LET someone == {User(id) : id \in UserIds}
  IN  [op : {"signUp", "createEmployee"}, doc : {User(None)}, email : Emails, password : Passwords]
      \cup [op : {"logIn"}, doc : someone, email : Emails, password : Passwords]
      \cup [op : {"updatePassword"}, doc : someone, password : Passwords]
      \cup [op : {"updateEmployee", "updateMe"}, doc : someone, email : Emails]
      \cup [op : {"removeEmployee"}, doc : someone]
StorefrontAsked ==
  LET someone == {Customer(id) : id \in CustomerIds}
  IN  (UNION {[op : {"sendOtp"}, doc : {<<"code", p>>}, phone : {p}] : p \in Phones})
      \cup (UNION {[op : {"validateOtp"}, doc : {<<"code", p>>}, phone : {p}, code : Calls] : p \in Phones})
      \cup [op : {"signUpCustomer"}, doc : {Customer(None)}, phone : Phones, code : Calls]
      \cup [op : {"sendChangeOtp"}, doc : someone, phone : Phones]
      \cup [op : {"updateMyPhoneNumber"}, doc : someone, phone : Phones, code : Calls]
      \cup [op : {"createCustomer"}, doc : {Customer(None)}, phone : Phones, email : Emails \cup {None}]
      \cup [op : {"updateCustomer"}, doc : someone, phone : Phones \cup {None}, email : Emails \cup {None}]
      \cup [op : {"removeCustomer"}, doc : someone]
ASSUME RequestsAssumption ==
  \A c \in Calls : Requests[c] \subseteq SessionAsked \cup StaffAsked \cup StorefrontAsked

Init ==
  /\ HandlersInit /\ SessionsInit
  /\ users = OpeningUsers /\ allowed = OpeningEmails /\ pictures = {}
  /\ customers = OpeningCustomers
  /\ codes = NoCodes /\ changeCodes = NoCodes /\ firstTimers = {} /\ accepted = {}
  /\ overlapped = FALSE
-----------------------------------------------------------------------------
ReceiveRequest(c) ==
  \E r \in Requests[c] :
    /\ Receive(c, [r EXCEPT !.doc[2] = IF @ = None THEN c ELSE @])
    /\ overlapped' = (overlapped \/ \E b \in Calls : Running(b))
    /\ UNCHANGED <<staff, storefront, second, session>>

Serve(c) ==
  \E s \in Sent(c) :
    /\ \/ SessionStep(c, s) /\ UNCHANGED <<staff, storefront>>
       \/ StaffStep(c, s) /\ UNCHANGED storefront
       \/ StorefrontStep(c, s) /\ UNCHANGED staff
       \/ Lose(c, s) /\ UNCHANGED <<staff, storefront, session>>
    /\ UNCHANGED <<second, overlapped>>

PassSecond == Tick /\ UNCHANGED <<staff, storefront, session, call, disturbed, overlapped>>

Crash == Restart /\ ForgetCodes /\ UNCHANGED <<staff, second, session, overlapped>>

Next == PassSecond \/ Crash \/ \E c \in Calls : ReceiveRequest(c) \/ Serve(c)

Spec == Init /\ [][Next]_vars
-----------------------------------------------------------------------------
(* The tables, the maps and the calls hold what they are meant to; an      *)
(* account that is in a table has its session there, and no other has; a   *)
(* token is signed for the account that it is in force for, in the past.   *)
TypeOK ==
  /\ DOMAIN session = {User(id) : id \in DOMAIN users} \cup {Customer(id) : id \in DOMAIN customers}
  /\ \A a \in DOMAIN session : session[a] \in {a} \X (0..second) \cup {None}
  /\ \A u \in DOMAIN users : /\ users[u].email \in Emails /\ users[u].password \in Passwords
                             /\ ~ InUse(users[u].email, u)
  /\ allowed \subseteq Emails /\ pictures \subseteq UserIds
  /\ \A k \in DOMAIN customers : /\ customers[k].email \in Emails \cup {None}
                                 /\ With("phone", customers[k].phone, k) = {}
  /\ codes \in [Phones -> Calls \cup {None}] /\ changeCodes \in [Phones -> Calls \cup {None}]
  /\ disturbed \subseteq Docs

(* The e-mail of a user is allowed, and the key of its picture has a file, *)
(* once no call is at work on the user, unless one failed, was cut off,    *)
(* overlapped with another one on the user, or with one that disallows the *)
(* e-mail because another user had it (DisturbRivals): the statements that *)
(* keep the two tables together (EmployeesService.update,                  *)
(* UsersService.updateMe) end in any order, for different users side by    *)
(* side.                                                                   *)
EmailsAllowed ==
  \A u \in DOMAIN users :
    AtRest(User(u)) /\ User(u) \notin disturbed =>
      users[u].email \in allowed /\ (users[u].picture => u \in pictures)

(* An e-mail without a user is allowed only to sign up: not because a user *)
(* has left it behind.                                                     *)
NoEmailLeft ==
  disturbed = {} /\ (\A a \in AllAccounts : AtRest(a)) =>
    allowed \subseteq (OpeningEmails \ {OpeningUsers[u].email : u \in DOMAIN OpeningUsers})
                     \cup {users[u].email : u \in DOMAIN users}

(* A phone that was told to sign up can do it with the code that it showed,*)
(* until it is sent another one, the number is given to a customer or the  *)
(* server is restarted (AuthService.validateOtp forgets the code of a      *)
(* customer only).                                                         *)
FirstTimersCanSignUp == \A f \in firstTimers : codes[f[1]] = f[2]

(* A code changes one phone number, of the calls that show it at once too: *)
(* updateMyPhoneNumber forgets it before it awaits anything.               *)
CodeChangesOnePhone == \A f, g \in accepted : f[1] = g[1] => f = g

(* Two customers have the same e-mail only if two calls were at work at    *)
(* once: checkIfEmailIsTaken is all there is against it.                   *)
EmailsOfCustomersDiffer ==
  ~ overlapped => \A k \in DOMAIN customers :
                    customers[k].email # None => With("email", customers[k].email, k) = {}

(* Both AuthServices hand tokens out as TokenGrants says: a token comes    *)
(* into force for a call that was admitted, with a password, a code or the *)
(* token in force, and once; what the tables lose is revoked.              *)
InForce == [a \in AllAccounts |-> IF a \in DOMAIN session THEN session[a] ELSE None]

Granted == INSTANCE TokenGrants WITH
  Accounts <- AllAccounts, Tokens <- TokensOf, NoToken <- None,
  inForce <- InForce, verified <- Admitted
GrantsTokens == Granted!Spec
=============================================================================
