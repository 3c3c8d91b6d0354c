--------------------------- MODULE AccountsProofs ---------------------------
(***************************************************************************)
(* Theorems about the accounts.                                            *)
(***************************************************************************)
EXTENDS Accounts, HandlerSteps, DataProofs
-----------------------------------------------------------------------------
(* The steps of a handler.                                                 *)

(* Proceed moves call c alone: to the stages that are left, or to its end. *)
LEMMA ProceedEffect ==
  ASSUME Shaped, NEW c \in Calls, NEW stages, NEW ok, Running(c), Proceed(c, stages, ok)
  PROVE  /\ Shaped' /\ Alone(c)
         /\ stages = <<>> => Ends(c)
         /\ stages # <<>> => Stands(c, stages)
<1> DEFINE new == IF stages = <<>> THEN [Blank EXCEPT !.at = IF ok THEN "done" ELSE "failed"]
                  ELSE [call[c] EXCEPT !.stages = stages, !.ok = ok]
<1>1. call' = [call EXCEPT ![c] = new]
  BY DEF Proceed
<1>2. call' = [b \in Calls |-> IF b = c THEN new ELSE call[b]]
  BY <1>1 DEF Shaped
<1>3. Record(new)
  BY DEF Shaped, Record, Blank
<1>4. stages # <<>> => new.at = "running" /\ new.stages = stages /\ new.request = call[c].request
  BY DEF Shaped, Record, Running
<1>5. stages = <<>> => new = [Blank EXCEPT !.at = new.at] /\ new.at \in {"done", "failed"}
  BY DEF Blank
<1> HIDE DEF new
<1>6. Shaped'
  BY <1>2, <1>3 DEF Shaped
<1>7. Alone(c)
  BY <1>2 DEF Alone
<1> QED
  BY <1>2, <1>4, <1>5, <1>6, <1>7 DEF Stands, Ends

(* A stage of which statement s has succeeded, the last one and one before *)
(* another.                                                                *)
LEMMA ExecutedLast ==
  ASSUME Shaped, NEW c \in Calls, NEW T, NEW s \in T, Running(c), call[c].stages = <<T>>, Executed(c, s)
  PROVE  /\ Shaped' /\ Alone(c)
         /\ T = {s} => Ends(c)
         /\ T # {s} => Stands(c, <<T \ {s}>>)
<1>1. Sent(c) = T /\ <<Sent(c) \ {s}>> \o Tail(call[c].stages) = <<T \ {s}>>
  BY DEF Sent
<1>2. Proceed(c, IF T \ {s} = {} THEN <<>> ELSE <<T \ {s}>>, call[c].ok)
  BY <1>1, StagedOne DEF Executed
<1>3. T = {s} <=> T \ {s} = {}
  OBVIOUS
<1>4. CASE T = {s}
  BY <1>2, <1>3, <1>4, ProceedEffect
<1>5. CASE T # {s}
  <2>1. Proceed(c, <<T \ {s}>>, call[c].ok) /\ <<T \ {s}>> # <<>>
    BY <1>2, <1>3, <1>5
  <2> QED
    BY <2>1, <1>5, ProceedEffect
<1> QED
  BY <1>4, <1>5

(* The only statement of a stage has succeeded: the next stage is sent.    *)
LEMMA ExecutedNext ==
  ASSUME Shaped, NEW c \in Calls, NEW s, NEW B, Running(c), call[c].stages = <<{s}, B>>, B # {},
         Executed(c, s)
  PROVE  Shaped' /\ Alone(c) /\ Stands(c, <<B>>)
<1>1. Sent(c) = {s} /\ <<Sent(c) \ {s}>> \o Tail(call[c].stages) = <<{}, B>>
  <2>1. Sent(c) = {s} /\ Tail(call[c].stages) = <<B>>
    BY TwoStages DEF Sent
  <2>2. Sent(c) \ {s} = {} /\ <<{}>> \o <<B>> = <<{}, B>>
    BY <2>1, TwoStages
  <2> QED
    BY <2>1, <2>2
<1>2. Proceed(c, <<B>>, call[c].ok) /\ <<B>> # <<>>
  BY <1>1, StagedTwo DEF Executed
<1> QED
  BY <1>2, ProceedEffect

(* What a read sends, alone or before another stage.                       *)
LEMMA GoOnLast ==
  ASSUME Shaped, NEW c \in Calls, NEW X, NEW A, Running(c), call[c].stages = <<X>>, GoOn(c, <<A>>)
  PROVE  /\ Shaped' /\ Alone(c)
         /\ A = {} => Ends(c)
         /\ A # {} => Stands(c, <<A>>)
<1>1. <<A>> \o Tail(call[c].stages) = <<A>>
  OBVIOUS
<1>2. Proceed(c, IF A = {} THEN <<>> ELSE <<A>>, TRUE) /\ <<A>> # <<>>
  BY <1>1, StagedOne DEF GoOn
<1> QED
  BY <1>2, ProceedEffect

(* A read that sends two stages, one after the other.                      *)
LEMMA GoOnTwo ==
  ASSUME Shaped, NEW c \in Calls, NEW X, NEW A, NEW B, Running(c), call[c].stages = <<X>>,
         A # {}, GoOn(c, <<A, B>>)
  PROVE  Shaped' /\ Alone(c) /\ Stands(c, <<A, B>>)
<1>1. <<A, B>> \o Tail(call[c].stages) = <<A, B>>
  OBVIOUS
<1>2. Proceed(c, <<A, B>>, TRUE) /\ <<A, B>> # <<>>
  BY <1>1, StagedTwo DEF GoOn
<1> QED
  BY <1>2, ProceedEffect

(* A read that sends a stage before the one that is waiting already.       *)
LEMMA GoOnBefore ==
  ASSUME Shaped, NEW c \in Calls, NEW X, NEW A, NEW B, Running(c), call[c].stages = <<X, B>>,
         B # {}, GoOn(c, <<A>>)
  PROVE  /\ Shaped' /\ Alone(c)
         /\ A = {} => Stands(c, <<B>>)
         /\ A # {} => Stands(c, <<A, B>>)
<1>1. <<A>> \o Tail(call[c].stages) = <<A, B>>
  <2>1. Tail(call[c].stages) = <<B>>
    BY TwoStages
  <2>2. <<A>> \o <<B>> = <<A, B>>
    BY TwoStages
  <2> QED
    BY <2>1, <2>2
<1>2. Proceed(c, IF A = {} THEN <<B>> ELSE <<A, B>>, TRUE) /\ <<A, B>> # <<>> /\ <<B>> # <<>>
  BY <1>1, StagedTwo DEF GoOn
<1> QED
  BY <1>2, ProceedEffect

(* A handler that refuses, and one of whose statements fails.              *)
LEMMA RefuseEffect ==
  ASSUME Shaped, NEW c \in Calls, Running(c), Refuse(c)
  PROVE  Shaped' /\ Alone(c) /\ Ends(c)
BY ProceedEffect DEF Refuse

(* A statement that fails takes the stages after its own with it; those    *)
(* beside it still execute.                                                *)
LEMMA LoseEffect ==
  ASSUME Shaped, NEW c \in Calls, NEW s \in Sent(c), Running(c), Lose(c, s)
  PROVE  /\ Shaped' /\ Alone(c)
         /\ Sent(c) = {s} => Ends(c)
         /\ Sent(c) # {s} => Stands(c, <<Sent(c) \ {s}>>)
<1> DEFINE T == Sent(c)
<1>1. Proceed(c, IF T \ {s} = {} THEN <<>> ELSE <<T \ {s}>>, FALSE) /\ <<T \ {s}>> # <<>>
  BY StagedOne DEF Lose
<1>2. T = {s} <=> T \ {s} = {}
  OBVIOUS
<1> HIDE DEF T
<1>3. CASE T = {s}
  BY <1>1, <1>2, <1>3, ProceedEffect DEF T
<1>4. CASE T # {s}
  <2>1. Proceed(c, <<T \ {s}>>, FALSE)
    BY <1>1, <1>2, <1>4
  <2> QED
    BY <2>1, <1>1, <1>4, ProceedEffect DEF T
<1> QED
  BY <1>3, <1>4 DEF T

(* A call that is received has its read to send.                           *)
LEMMA ReceiveEffect ==
  ASSUME Shaped, NEW c \in Calls, NEW r, Receive(c, r)
  PROVE  /\ Shaped' /\ Alone(c) /\ call[c].at = "idle"
         /\ call'[c].at = "running" /\ call'[c].request = r /\ call'[c].stages = Reading
BY DEF Shaped, Record, Alone, Receive, Reading

(* The server stops: the calls that run are aborted, the others stay.      *)
LEMMA RestartEffect ==
  ASSUME Shaped, Restart
  PROVE  /\ Shaped'
         /\ \A c \in Calls : IF Running(c) THEN call'[c] = [Blank EXCEPT !.at = "aborted"]
                             ELSE call'[c] = call[c]
BY DEF Shaped, Record, Restart, Blank
-----------------------------------------------------------------------------

(* What a request of call c says, once what it creates has the id of c.    *)
Understood(c, r) ==
  LET aUser == r.doc \in {User(id) : id \in UserIds}
      aCustomer == r.doc \in {Customer(id) : id \in CustomerIds}
  IN  \/ r.op \in {"refreshToken", "logOut"} /\ r.doc \in AllAccounts
      \/ r.op \in {"signUp", "createEmployee"} /\ r.doc = User(c) /\ r.email \in Emails /\ r.password \in Passwords
      \/ r.op = "logIn" /\ aUser
      \/ r.op = "updatePassword" /\ aUser /\ r.password \in Passwords
      \/ r.op \in {"updateEmployee", "updateMe"} /\ aUser /\ r.email \in Emails
      \/ r.op = "removeEmployee" /\ aUser
      \/ r.op = "sendOtp" /\ r.phone \in Phones /\ r.doc = <<"code", r.phone>>
      \/ r.op = "validateOtp" /\ r.phone \in Phones /\ r.doc = <<"code", r.phone>> /\ r.code \in Calls
      \/ r.op = "signUpCustomer" /\ r.doc = Customer(c) /\ r.phone \in Phones /\ r.code \in Calls
      \/ r.op = "sendChangeOtp" /\ aCustomer /\ r.phone \in Phones
      \/ r.op = "updateMyPhoneNumber" /\ aCustomer /\ r.phone \in Phones /\ r.code \in Calls
      \/ r.op = "createCustomer" /\ r.doc = Customer(c) /\ r.phone \in Phones /\ r.email \in Emails \cup {None}
      \/ r.op = "updateCustomer" /\ aCustomer /\ r.phone \in Phones \cup {None} /\ r.email \in Emails \cup {None}
      \/ r.op = "removeCustomer" /\ aCustomer

(* What a client may ask for is what the handlers understand.              *)
LEMMA RequestsUnderstood ==
  ASSUME NEW c \in Calls, NEW r \in Requests[c]
  PROVE  Understood(c, [r EXCEPT !.doc[2] = IF @ = None THEN c ELSE @])
<1> DEFINE q == [r EXCEPT !.doc[2] = IF @ = None THEN c ELSE @]
           aUser == {User(id) : id \in UserIds}
           aCustomer == {Customer(id) : id \in CustomerIds}
<1> HIDE DEF q
<1>1. r \in SessionAsked \cup StaffAsked \cup StorefrontAsked
  BY RequestsAssumption
<1>2. None \notin UserIds \cup CustomerIds \cup Emails \cup Phones
  BY OpeningAssumption
<1>3. \A kind, id : r.doc = <<kind, id>> /\ r = [f \in DOMAIN r |-> r[f]] /\ "doc" \in DOMAIN r =>
        /\ q.doc = <<kind, IF id = None THEN c ELSE id>>
        /\ \A f \in DOMAIN r \ {"doc"} : q[f] = r[f]
  BY Completed DEF q
<1>4. CASE r \in [op : {"logOut"}, doc : AllAccounts]
  <2>1. PICK kind, id : r.doc = <<kind, id>> /\ id # None /\ r.doc \in AllAccounts
    BY <1>2, <1>4 DEF AllAccounts, User, Customer
  <2>2. r = [f \in DOMAIN r |-> r[f]] /\ "doc" \in DOMAIN r
    BY <1>4
  <2>3. Understood(c, q)
    BY <1>2, <1>3, <1>4, <2>1, <2>2 DEF Understood, User, Customer
  <2> QED
    BY <2>3 DEF q
<1>5. CASE r \in [op : {"refreshToken"}, doc : AllAccounts, token : UNION {TokensOf(a) : a \in AllAccounts}]
  <2>1. PICK kind, id : r.doc = <<kind, id>> /\ id # None /\ r.doc \in AllAccounts
    BY <1>2, <1>5 DEF AllAccounts, User, Customer
  <2>2. r = [f \in DOMAIN r |-> r[f]] /\ "doc" \in DOMAIN r
    BY <1>5
  <2>3. Understood(c, q)
    BY <1>2, <1>3, <1>5, <2>1, <2>2 DEF Understood, User, Customer
  <2> QED
    BY <2>3 DEF q
<1>6. CASE r \in [op : {"signUp", "createEmployee"}, doc : {User(None)}, email : Emails, password : Passwords]
  <2>1. PICK kind : r.doc = <<kind, None>>
    BY <1>2, <1>6 DEF User, Customer
  <2>2. r = [f \in DOMAIN r |-> r[f]] /\ "doc" \in DOMAIN r
    BY <1>6
  <2>3. Understood(c, q)
    BY <1>2, <1>3, <1>6, <2>1, <2>2 DEF Understood, User, Customer
  <2> QED
    BY <2>3 DEF q
<1>7. CASE r \in [op : {"logIn"}, doc : aUser, email : Emails, password : Passwords]
  <2>1. PICK id \in UserIds : r.doc = <<"user", id>>
    BY <1>2, <1>7 DEF User
  <2>2. r = [f \in DOMAIN r |-> r[f]] /\ "doc" \in DOMAIN r
    BY <1>7
  <2>3. Understood(c, q)
    BY <1>2, <1>3, <1>7, <2>1, <2>2 DEF Understood, User, Customer
  <2> QED
    BY <2>3 DEF q
<1>8. CASE r \in [op : {"updatePassword"}, doc : aUser, password : Passwords]
  <2>1. PICK id \in UserIds : r.doc = <<"user", id>>
    BY <1>2, <1>8 DEF User
  <2>2. r = [f \in DOMAIN r |-> r[f]] /\ "doc" \in DOMAIN r
    BY <1>8
  <2>3. Understood(c, q)
    BY <1>2, <1>3, <1>8, <2>1, <2>2 DEF Understood, User, Customer
  <2> QED
    BY <2>3 DEF q
<1>9. CASE r \in [op : {"updateEmployee", "updateMe"}, doc : aUser, email : Emails]
  <2>1. PICK id \in UserIds : r.doc = <<"user", id>>
    BY <1>2, <1>9 DEF User
  <2>2. r = [f \in DOMAIN r |-> r[f]] /\ "doc" \in DOMAIN r
    BY <1>9
  <2>3. Understood(c, q)
    BY <1>2, <1>3, <1>9, <2>1, <2>2 DEF Understood, User, Customer
  <2> QED
    BY <2>3 DEF q
<1>10. CASE r \in [op : {"removeEmployee"}, doc : aUser]
  <2>1. PICK id \in UserIds : r.doc = <<"user", id>>
    BY <1>2, <1>10 DEF User
  <2>2. r = [f \in DOMAIN r |-> r[f]] /\ "doc" \in DOMAIN r
    BY <1>10
  <2>3. Understood(c, q)
    BY <1>2, <1>3, <1>10, <2>1, <2>2 DEF Understood, User, Customer
  <2> QED
    BY <2>3 DEF q
<1>11. CASE r \in UNION {[op : {"sendOtp"}, doc : {<<"code", p>>}, phone : {p}] : p \in Phones}
  <2>1. PICK p \in Phones : r.doc = <<"code", p>> /\ r.phone = p
    BY <1>2, <1>11
  <2>2. r = [f \in DOMAIN r |-> r[f]] /\ "doc" \in DOMAIN r
    BY <1>11
  <2>3. Understood(c, q)
    BY <1>2, <1>3, <1>11, <2>1, <2>2 DEF Understood, User, Customer
  <2> QED
    BY <2>3 DEF q
<1>12. CASE r \in UNION {[op : {"validateOtp"}, doc : {<<"code", p>>}, phone : {p}, code : Calls] : p \in Phones}
  <2>1. PICK p \in Phones : r.doc = <<"code", p>> /\ r.phone = p
    BY <1>2, <1>12
  <2>2. r = [f \in DOMAIN r |-> r[f]] /\ "doc" \in DOMAIN r
    BY <1>12
  <2>3. Understood(c, q)
    BY <1>2, <1>3, <1>12, <2>1, <2>2 DEF Understood, User, Customer
  <2> QED
    BY <2>3 DEF q
<1>13. CASE r \in [op : {"signUpCustomer"}, doc : {Customer(None)}, phone : Phones, code : Calls]
  <2>1. PICK kind : r.doc = <<kind, None>>
    BY <1>2, <1>13 DEF User, Customer
  <2>2. r = [f \in DOMAIN r |-> r[f]] /\ "doc" \in DOMAIN r
    BY <1>13
  <2>3. Understood(c, q)
    BY <1>2, <1>3, <1>13, <2>1, <2>2 DEF Understood, User, Customer
  <2> QED
    BY <2>3 DEF q
<1>14. CASE r \in [op : {"sendChangeOtp"}, doc : aCustomer, phone : Phones]
  <2>1. PICK id \in CustomerIds : r.doc = <<"customer", id>>
    BY <1>2, <1>14 DEF Customer
  <2>2. r = [f \in DOMAIN r |-> r[f]] /\ "doc" \in DOMAIN r
    BY <1>14
  <2>3. Understood(c, q)
    BY <1>2, <1>3, <1>14, <2>1, <2>2 DEF Understood, User, Customer
  <2> QED
    BY <2>3 DEF q
<1>15. CASE r \in [op : {"updateMyPhoneNumber"}, doc : aCustomer, phone : Phones, code : Calls]
  <2>1. PICK id \in CustomerIds : r.doc = <<"customer", id>>
    BY <1>2, <1>15 DEF Customer
  <2>2. r = [f \in DOMAIN r |-> r[f]] /\ "doc" \in DOMAIN r
    BY <1>15
  <2>3. Understood(c, q)
    BY <1>2, <1>3, <1>15, <2>1, <2>2 DEF Understood, User, Customer
  <2> QED
    BY <2>3 DEF q
<1>16. CASE r \in [op : {"createCustomer"}, doc : {Customer(None)}, phone : Phones, email : Emails \cup {None}]
  <2>1. PICK kind : r.doc = <<kind, None>>
    BY <1>2, <1>16 DEF User, Customer
  <2>2. r = [f \in DOMAIN r |-> r[f]] /\ "doc" \in DOMAIN r
    BY <1>16
  <2>3. Understood(c, q)
    BY <1>2, <1>3, <1>16, <2>1, <2>2 DEF Understood, User, Customer
  <2> QED
    BY <2>3 DEF q
<1>17. CASE r \in [op : {"updateCustomer"}, doc : aCustomer, phone : Phones \cup {None}, email : Emails \cup {None}]
  <2>1. PICK id \in CustomerIds : r.doc = <<"customer", id>>
    BY <1>2, <1>17 DEF Customer
  <2>2. r = [f \in DOMAIN r |-> r[f]] /\ "doc" \in DOMAIN r
    BY <1>17
  <2>3. Understood(c, q)
    BY <1>2, <1>3, <1>17, <2>1, <2>2 DEF Understood, User, Customer
  <2> QED
    BY <2>3 DEF q
<1>18. CASE r \in [op : {"removeCustomer"}, doc : aCustomer]
  <2>1. PICK id \in CustomerIds : r.doc = <<"customer", id>>
    BY <1>2, <1>18 DEF Customer
  <2>2. r = [f \in DOMAIN r |-> r[f]] /\ "doc" \in DOMAIN r
    BY <1>18
  <2>3. Understood(c, q)
    BY <1>2, <1>3, <1>18, <2>1, <2>2 DEF Understood, User, Customer
  <2> QED
    BY <2>3 DEF q
<1>19. CASE r \in SessionAsked
  BY <1>4, <1>5, <1>19 DEF SessionAsked
<1>20. CASE r \in StaffAsked
  BY <1>6, <1>7, <1>8, <1>9, <1>10, <1>20 DEF StaffAsked
<1>21. CASE r \in StorefrontAsked
  BY <1>11, <1>12, <1>13, <1>14, <1>15, <1>16, <1>17, <1>18, <1>21 DEF StorefrontAsked
<1> QED
  BY <1>1, <1>19, <1>20, <1>21
-----------------------------------------------------------------------------
(* The statements of the handlers.                                         *)
Bare(op) == [op |-> op]
Sign(a) == [op |-> "sign", account |-> a]
Store(a, t) == [op |-> "store", account |-> a, token |-> t]
Allows(e) == [op |-> "allow", email |-> e]
Disallows(e) == [op |-> "disallow", email |-> e]
Inserts(phone, email) == [op |-> "insertCustomer", phone |-> phone, email |-> email]
Writes(phone, email) == [op |-> "writeCustomer", phone |-> phone, email |-> email]

Admitting == {"signUp", "logIn", "refreshToken", "validateOtp", "signUpCustomer"}

(* What call c, which asks for r, may have to send.                        *)
SessionPlan(r, st) ==
  r.op \in Admitting /\ \E a \in AllAccounts :
    \/ st = <<{Sign(a)}>>
    \/ \E t \in TokensOf(a) : t[2] <= second /\ st = <<{Store(a, t)}>>
StaffPlan(c, r, st) ==
  \/ r.op = "signUp" /\ st = <<{Insert(c)}, {Sign(User(c))}>>
  \/ r.op = "updatePassword" /\ st = <<{Bare("setPassword")}>>
  \/ \E T : /\ st = <<T>> /\ T # {}
            /\ \/ r.op = "createEmployee" /\ T \subseteq {Insert(c), Allows(r.email)}
               \/ /\ r.op \in {"updateEmployee", "updateMe"}
                  /\ \E old \in Emails :
                       T \subseteq {Bare("updateUser"), Bare("setKey"), Bare("upload")} \cup EmailsFollow(old, r.email)
               \/ /\ r.op = "removeEmployee"
                  /\ \E old \in Emails : T \subseteq {Bare("deleteUser"), Disallows(old)}
StorefrontPlan(c, r, st) ==
  \/ r.op = "signUpCustomer" /\ st = <<{Inserts(Digits(r.phone), None)}, {Sign(Customer(c))}>>
  \/ r.op = "validateOtp" /\ \/ st = <<{Bare("find")}, {Bare("getCustomer")}>>
                             \/ st = <<{Bare("forget")}, {Bare("getCustomer")}>>
                             \/ st = <<{Bare("getCustomer")}>>
  \/ r.op = "updateMyPhoneNumber" /\ st = <<{Writes(Digits(r.phone), None)}>>
  \/ r.op = "createCustomer" /\ st = <<{Inserts(Groups(r.phone), r.email)}>>
  \/ r.op = "updateCustomer" /\ st = <<{Writes(IF r.phone = None THEN None ELSE Groups(r.phone), r.email)}>>
  \/ r.op = "removeCustomer" /\ st = <<{Bare("deleteCustomer")}>>
Plan(c, r, st) ==
  st = Reading \/ SessionPlan(r, st) \/ StaffPlan(c, r, st) \/ StorefrontPlan(c, r, st)

CallsOK ==
  /\ Shaped
  /\ \A c \in Calls : Running(c) => /\ Understood(c, Request(c))
                                    /\ Plan(c, Request(c), call[c].stages)

(* Which call sends a statement, and beside what.                          *)
LEMMA Sending ==
  ASSUME CallsOK, NEW c \in Calls, NEW s \in Sent(c), NEW r, NEW st, r = Request(c), st = call[c].stages
  PROVE  /\ Running(c) /\ Understood(c, r) /\ Plan(c, r, st) /\ s \in st[1]
         /\ s.op = "read" => st = Reading /\ s = Bare("read")
         /\ s.op = "sign" => /\ r.op \in Admitting
                             /\ \E a \in AllAccounts : st = <<{Sign(a)}>> /\ s = Sign(a)
         /\ s.op = "store" => /\ r.op \in Admitting
                              /\ \E a \in AllAccounts : \E t \in TokensOf(a) :
                                   t[2] <= second /\ st = <<{Store(a, t)}>> /\ s = Store(a, t)
         /\ s.op = "insertUser" =>
              /\ s = Insert(c)
              /\ \/ r.op = "signUp" /\ st = <<{s}, {Sign(User(c))}>>
                 \/ r.op = "createEmployee" /\ \E T : st = <<T>> /\ s \in T /\ T \subseteq {s, Allows(r.email)}
         /\ s.op = "allow" =>
              /\ s = Allows(r.email)
              /\ r.op \in {"createEmployee", "updateEmployee", "updateMe"} /\ \E T : st = <<T>> /\ s \in T
         /\ s.op = "disallow" =>
              /\ \E e \in Emails : s = Disallows(e)
              /\ r.op \in {"updateEmployee", "updateMe", "removeEmployee"} /\ \E T : st = <<T>> /\ s \in T
         /\ s.op \in {"updateUser", "setKey", "upload"} =>
              /\ s = Bare(s.op)
              /\ r.op \in {"updateEmployee", "updateMe"} /\ \E T : st = <<T>> /\ s \in T
         /\ s.op = "deleteUser" =>
              s = Bare(s.op) /\ r.op = "removeEmployee" /\ \E T : st = <<T>> /\ s \in T
         /\ s.op = "setPassword" => r.op = "updatePassword" /\ st = <<{s}>>
         /\ s.op = "insertCustomer" =>
              \/ /\ r.op = "signUpCustomer" /\ s = Inserts(Digits(r.phone), None)
                 /\ st = <<{s}, {Sign(Customer(c))}>>
              \/ r.op = "createCustomer" /\ s = Inserts(Groups(r.phone), r.email) /\ st = <<{s}>>
         /\ s.op = "writeCustomer" =>
              /\ st = <<{s}>>
              /\ \/ r.op = "updateMyPhoneNumber" /\ s = Writes(Digits(r.phone), None)
                 \/ /\ r.op = "updateCustomer"
                    /\ s = Writes(IF r.phone = None THEN None ELSE Groups(r.phone), r.email)
         /\ s.op \in {"find", "forget"} => r.op = "validateOtp" /\ st = <<{s}, {Bare("getCustomer")}>> /\ s = Bare(s.op)
         /\ s.op = "getCustomer" => r.op = "validateOtp" /\ st = <<{s}>> /\ s = Bare(s.op)
         /\ s.op = "deleteCustomer" => r.op = "removeCustomer" /\ st = <<{s}>>
<1>1. Running(c) /\ s \in Head(st)
  BY DEF Sent
<1>2. Understood(c, r) /\ Plan(c, r, st)
  BY <1>1 DEF CallsOK
<1>3. st = Reading \/ SessionPlan(r, st) \/ StaffPlan(c, r, st) \/ StorefrontPlan(c, r, st)
  BY <1>2 DEF Plan
<1>4. CASE st = Reading
  BY <1>1, <1>2, <1>4 DEF Reading, Bare
<1>5. CASE SessionPlan(r, st)
  BY <1>1, <1>2, <1>5 DEF SessionPlan, Sign, Store
<1>6. CASE StaffPlan(c, r, st)
  BY <1>1, <1>2, <1>6 DEF StaffPlan, Sign, Insert, Bare, Allows, Disallows, EmailsFollow
<1>7. CASE StorefrontPlan(c, r, st)
  BY <1>1, <1>2, <1>7 DEF StorefrontPlan, Bare, Inserts, Writes, Sign
<1> QED
  BY <1>3, <1>4, <1>5, <1>6, <1>7
-----------------------------------------------------------------------------
(* Only call c has moved, along its plan, and sends the statements of S.   *)
Moved(c) ==
  /\ Shaped' /\ Alone(c) /\ call'[c].at # "idle"
  /\ Running(c)' => Request(c)' = Request(c) /\ Plan(c, Request(c), call'[c].stages)
Sends(c, S) == Sent(c)' = S
Past(c) == Running(c) /\ call[c].stages # Reading

(* A step of one call leaves the others where they are.                    *)
LEMMA Others ==
  ASSUME NEW c \in Calls, Moved(c)
  PROVE  \A b \in Calls \ {c} : /\ Running(b)' <=> Running(b)
                                /\ Request(b)' = Request(b) /\ Sent(b)' = Sent(b)
                                /\ Past(b)' <=> Past(b)
BY DEF Moved, Alone, Running, Request, Sent, Past

(* A step after which the call stands at a stage of its plan keeps all     *)
(* calls within theirs.                                                    *)
LEMMA CallsKept ==
  ASSUME CallsOK, NEW c \in Calls, Running(c), Moved(c), second' = second
  PROVE  CallsOK'
<1> SUFFICES ASSUME NEW b \in Calls, Running(b)'
             PROVE  (Understood(b, Request(b)) /\ Plan(b, Request(b), call[b].stages))'
  BY DEF CallsOK, Moved, Understood
<1>1. CASE b = c
  BY <1>1 DEF CallsOK, Moved, Plan, SessionPlan, StaffPlan, StorefrontPlan
<1>2. CASE b # c
  <2>1. Running(b) /\ Request(b)' = Request(b) /\ call'[b] = call[b]
    BY <1>2, Others DEF Moved, Alone
  <2>2. Understood(b, Request(b)) /\ Plan(b, Request(b), call[b].stages)
    BY <2>1 DEF CallsOK
  <2>3. Understood(b, Request(b))'
    BY <2>1, <2>2 DEF Understood
  <2>4. SessionPlan(Request(b), call[b].stages) => SessionPlan(Request(b), call[b].stages)'
    BY <2>1 DEF SessionPlan
  <2>5. StaffPlan(b, Request(b), call[b].stages) => StaffPlan(b, Request(b), call[b].stages)'
    BY <2>1 DEF StaffPlan
  <2>6. StorefrontPlan(b, Request(b), call[b].stages) => StorefrontPlan(b, Request(b), call[b].stages)'
    BY <2>1 DEF StorefrontPlan
  <2>7. Plan(b, Request(b), call[b].stages)'
    BY <2>1, <2>2, <2>4, <2>5, <2>6 DEF Plan
  <2> QED
    BY <2>3, <2>7
<1> QED
  BY <1>1, <1>2

(* A call that has ended sends nothing; one that stands sends its stage.   *)
LEMMA SendsNothing ==
  ASSUME NEW c \in Calls, Shaped', Alone(c), Ends(c)
  PROVE  Moved(c) /\ Sends(c, {}) /\ ~ Running(c)'
BY DEF Ends, Moved, Sends, Sent, Running, Blank

(* A call that stands before a stage of its plan has that stage to send.   *)
LEMMA SendsStage ==
  ASSUME NEW c \in Calls, Running(c), Shaped', Alone(c), NEW st, Stands(c, st), Plan(c, Request(c), st)
  PROVE  Moved(c) /\ Sends(c, Head(st)) /\ Running(c)' /\ Request(c)' = Request(c)
BY DEF Stands, Moved, Sends, Sent, Running, Request

(* The last stage, one statement less, is in the plan.                     *)
LEMMA PlanShrinks ==
  ASSUME CallsOK, NEW c \in Calls, Running(c), NEW T, call[c].stages = <<T>>, NEW s \in T, T # {s}
  PROVE  Plan(c, Request(c), <<T \ {s}>>)
<1> DEFINE r == Request(c)
<1>1. Plan(c, r, <<T>>)
  BY DEF CallsOK
<1>2. ~ SessionPlan(r, <<T>>) /\ ~ StorefrontPlan(c, r, <<T>>) /\ <<T>> # Reading
  BY DEF SessionPlan, StorefrontPlan, Reading
<1>3. StaffPlan(c, r, <<T>>)
  BY <1>1, <1>2 DEF Plan
<1>4. T \ {s} # {} /\ T \ {s} \subseteq T
  OBVIOUS
<1>5. StaffPlan(c, r, <<T \ {s}>>)
  <2>1. <<T>> # <<{Insert(c)}, {Sign(User(c))}>> /\ <<T>> # <<{Bare("setPassword")}>>
    OBVIOUS
  <2>2. \A U : <<T>> = <<U>> => T = U
    OBVIOUS
  <2>3. \/ r.op = "createEmployee" /\ T \subseteq {Insert(c), Allows(r.email)}
        \/ /\ r.op \in {"updateEmployee", "updateMe"}
           /\ \E old \in Emails :
                T \subseteq {Bare("updateUser"), Bare("setKey"), Bare("upload")} \cup EmailsFollow(old, r.email)
        \/ r.op = "removeEmployee" /\ \E old \in Emails : T \subseteq {Bare("deleteUser"), Disallows(old)}
    BY <1>3, <2>1, <2>2 DEF StaffPlan
  <2> HIDE DEF r
  <2> QED
    BY <1>4, <2>3 DEF StaffPlan
<1> QED
  BY <1>5 DEF Plan

(* A statement of the last stage has succeeded: the others are still to    *)
(* come.                                                                   *)
LEMMA Done ==
  ASSUME CallsOK, NEW c \in Calls, Running(c), NEW T, call[c].stages = <<T>>, NEW s \in T, Executed(c, s)
  PROVE  Moved(c) /\ Sends(c, T \ {s})
<1>1. Shaped
  BY DEF CallsOK
<1>2. CASE T = {s}
  BY <1>1, <1>2, ExecutedLast, SendsNothing
<1>3. CASE T # {s}
  <2>1. Plan(c, Request(c), <<T \ {s}>>)
    BY <1>3, PlanShrinks
  <2>2. Shaped' /\ Alone(c) /\ Stands(c, <<T \ {s}>>)
    BY <1>1, <1>3, ExecutedLast
  <2>3. Head(<<T \ {s}>>) = T \ {s}
    OBVIOUS
  <2> QED
    BY <2>1, <2>2, <2>3, SendsStage
<1> QED
  BY <1>2, <1>3

(* A statement fails: those beside it are still to come, and nothing else. *)
LEMMA Lost ==
  ASSUME CallsOK, NEW c \in Calls, NEW s \in Sent(c), Lose(c, s)
  PROVE  Moved(c) /\ Sends(c, Sent(c) \ {s})
<1>1. Shaped /\ Running(c)
  BY DEF CallsOK, Sent
<1>2. CASE Sent(c) = {s}
  BY <1>1, <1>2, LoseEffect, SendsNothing
<1>3. CASE Sent(c) # {s}
  <2>1. Plan(c, Request(c), call[c].stages) /\ Sent(c) = Head(call[c].stages)
    BY <1>1 DEF CallsOK, Sent
  <2>2. \E T : call[c].stages = <<T>>
    <3>1. \A x, y : Head(<<{x}, y>>) = {x}
      OBVIOUS
    <3> QED
      BY <1>3, <2>1, <3>1 DEF Plan, SessionPlan, StaffPlan, StorefrontPlan, Reading
  <2>3. PICK T : call[c].stages = <<T>>
    BY <2>2
  <2>4. Sent(c) = T /\ Head(<<T \ {s}>>) = T \ {s}
    BY <2>1, <2>3
  <2>5. Plan(c, Request(c), <<T \ {s}>>)
    BY <1>1, <1>3, <2>3, <2>4, PlanShrinks
  <2>6. Shaped' /\ Alone(c) /\ Stands(c, <<T \ {s}>>)
    BY <1>1, <1>3, <2>4, LoseEffect
  <2> QED
    BY <1>1, <2>4, <2>5, <2>6, SendsStage
<1> QED
  BY <1>2, <1>3

(* A handler that throws has nothing more to send.                         *)
LEMMA Refuses ==
  ASSUME CallsOK, NEW c \in Calls, Running(c), Refuse(c)
  PROVE  Moved(c) /\ Sends(c, {})
<1>1. Shaped
  BY DEF CallsOK
<1> QED
  BY <1>1, RefuseEffect, SendsNothing

(* A read that sends one stage, of its plan.                               *)
LEMMA GoesOn ==
  ASSUME CallsOK, NEW c \in Calls, Running(c), NEW X, call[c].stages = <<X>>, NEW A, A # {},
         Plan(c, Request(c), <<A>>), GoOn(c, <<A>>)
  PROVE  Moved(c) /\ Sends(c, A)
<1>1. Shaped /\ Head(<<A>>) = A
  BY DEF CallsOK
<1> QED
  BY <1>1, GoOnLast, SendsStage

(* A read that sends the first of two stages, of its plan.                 *)
LEMMA GoesOnTwo ==
  ASSUME CallsOK, NEW c \in Calls, Running(c), NEW X, call[c].stages = <<X>>, NEW A, A # {}, NEW B,
         Plan(c, Request(c), <<A, B>>), GoOn(c, <<A, B>>)
  PROVE  Moved(c) /\ Sends(c, A)
<1>1. Shaped /\ Head(<<A, B>>) = A
  BY DEF CallsOK
<1> QED
  BY <1>1, GoOnTwo, SendsStage

(* A statement that another stage waits for has succeeded.                 *)
LEMMA DoneFirst ==
  ASSUME CallsOK, NEW c \in Calls, Running(c), NEW s, NEW B, B # {}, call[c].stages = <<{s}, B>>,
         Executed(c, s), Plan(c, Request(c), <<B>>)
  PROVE  Moved(c) /\ Sends(c, B)
<1>1. Shaped /\ Head(<<B>>) = B
  BY DEF CallsOK
<1> QED
  BY <1>1, ExecutedNext, SendsStage

(* A call that is admitted has its tokens to sign.                         *)
LEMMA Admits ==
  ASSUME CallsOK, NEW c \in Calls, Running(c), NEW X, call[c].stages = <<X>>,
         Request(c).op \in Admitting, NEW a \in AllAccounts, Admit(c, a)
  PROVE  Moved(c) /\ Sends(c, {Sign(a)})
<1>1. GoOn(c, <<{Sign(a)}>>) /\ {Sign(a)} # {}
  BY DEF Admit, Sign
<1>2. Plan(c, Request(c), <<{Sign(a)}>>)
  BY DEF Plan, SessionPlan
<1> QED
  BY <1>1, <1>2, GoesOn

(* A call that runs has something to send; it is past its read if that is  *)
(* not the read.                                                           *)
LEMMA PastSends ==
  ASSUME CallsOK, NEW c \in Calls
  PROVE  /\ Running(c) <=> Sent(c) # {}
         /\ Past(c) <=> Sent(c) # {} /\ \A s \in Sent(c) : s.op # "read"
         /\ Running(c) /\ ~ Past(c) => Sent(c) = {Bare("read")}
<1>1. CASE ~ Running(c)
  BY <1>1 DEF Past, Sent
<1>2. CASE Running(c)
  <2>1. Plan(c, Request(c), call[c].stages) /\ Sent(c) = Head(call[c].stages)
    BY <1>2 DEF CallsOK, Sent
  <2>2. \A x, y : Head(<<x, y>>) = x /\ Head(<<x>>) = x
    OBVIOUS
  <2>3. CASE call[c].stages = Reading
    <3>1. Sent(c) = {Bare("read")} /\ Bare("read").op = "read"
      BY <2>1, <2>2, <2>3 DEF Reading, Bare
    <3>2. ~ Past(c)
      BY <2>3 DEF Past
    <3> QED
      BY <1>2, <3>1, <3>2
  <2> DEFINE Begins(A) == /\ A # {} /\ \A s \in A : s.op # "read"
                          /\ call[c].stages = <<A>> \/ \E B : call[c].stages = <<A, B>>
  <2>4. CASE \E A : Begins(A)
    <3>1. PICK A : Begins(A)
      BY <2>4
    <3>2. Sent(c) = A
      BY <2>1, <2>2, <3>1
    <3>3. call[c].stages # Reading
      BY <2>2, <3>1 DEF Reading
    <3>4. Past(c) /\ A # {} /\ \A s \in A : s.op # "read"
      BY <1>2, <3>1, <3>3 DEF Past
    <3> QED
      BY <1>2, <3>2, <3>4
  <2>5. CASE SessionPlan(Request(c), call[c].stages)
    <3>1. \A a, t : Sign(a).op # "read" /\ Store(a, t).op # "read"
      BY DEF Sign, Store
    <3>2. PICK x : x.op # "read" /\ call[c].stages = <<{x}>>
      BY <2>5, <3>1 DEF SessionPlan
    <3>3. Begins({x})
      BY <3>2
    <3> QED
      BY <2>4, <3>3
  <2>6. CASE StaffPlan(c, Request(c), call[c].stages)
    <3>1. \A x, e : /\ \A s \in {Insert(x), Allows(e)} : s.op # "read"
                    /\ \A s \in {Bare("deleteUser"), Disallows(e)} : s.op # "read"
      BY DEF Insert, Allows, Disallows, Bare
    <3>2. \A x, y : \A s \in {Bare("updateUser"), Bare("setKey"), Bare("upload")} \cup EmailsFollow(x, y) :
            s.op # "read"
      BY DEF Bare, EmailsFollow
    <3>3. CASE \E T : call[c].stages = <<T>> /\ T # {} /\ \A s \in T : s.op # "read"
      BY <2>4, <3>3
    <3>4. CASE call[c].stages = <<{Insert(c)}, {Sign(User(c))}>>
      <4>1. Begins({Insert(c)})
        BY <3>1, <3>4
      <4> QED
        BY <2>4, <4>1
    <3>5. CASE call[c].stages = <<{Bare("setPassword")}>>
      <4>1. Begins({Bare("setPassword")})
        BY <3>5 DEF Bare
      <4> QED
        BY <2>4, <4>1
    <3> QED
      BY <2>6, <3>1, <3>2, <3>3, <3>4, <3>5 DEF StaffPlan
  <2>7. CASE StorefrontPlan(c, Request(c), call[c].stages)
    <3>1. \A x, y : Inserts(x, y).op # "read" /\ Writes(x, y).op # "read"
      BY DEF Inserts, Writes
    <3>2. \A x \in {"find", "forget", "getCustomer", "deleteCustomer"} : Bare(x).op # "read"
      BY DEF Bare
    <3>3. PICK x : x.op # "read" /\ (call[c].stages = <<{x}>> \/ \E B : call[c].stages = <<{x}, B>>)
      BY <2>7, <3>1, <3>2 DEF StorefrontPlan
    <3>4. Begins({x})
      BY <3>3
    <3> QED
      BY <2>4, <3>4
  <2> QED
    BY <2>1, <2>3, <2>5, <2>6, <2>7 DEF Plan
<1> QED
  BY <1>1, <1>2
-----------------------------------------------------------------------------
(* What a statement of call c that succeeds leaves to send.                *)
Leaves(c, s) ==
  CASE s.op = "insertUser" /\ Request(c).op = "signUp" -> {Sign(User(c))}
    [] s.op = "insertCustomer" /\ Request(c).op = "signUpCustomer" -> {Sign(Customer(c))}
    [] s.op = "find" \/ s.op = "forget" -> {Bare("getCustomer")}
    [] OTHER -> Sent(c) \ {s}

(* Which statements a call has to send once one of them has succeeded.     *)
LEMMA ExecutedSends ==
  ASSUME CallsOK, NEW c \in Calls, NEW s \in Sent(c), Executed(c, s)
  PROVE  Moved(c) /\ Sends(c, Leaves(c, s))
<1> DEFINE r == Request(c)
           st == call[c].stages
<1> HIDE DEF r, st
<1>1. Running(c) /\ Understood(c, r) /\ Plan(c, r, st) /\ Sent(c) = Head(st)
  BY DEF CallsOK, Sent, r, st
<1>2. \A x, y : Head(<<x, y>>) = x /\ Head(<<x>>) = x
  OBVIOUS
<1>3. User(c) \in AllAccounts /\ Customer(c) \in AllAccounts
  BY DEF AllAccounts, UserIds, CustomerIds
<1>4. CASE \E T : st = <<T>>
  <2>1. PICK T : st = <<T>>
    BY <1>4
  <2>2. s \in T /\ Sent(c) = T
    BY <1>1, <1>2, <2>1
  <2>3. Moved(c) /\ Sends(c, T \ {s})
    BY <1>1, <2>1, <2>2, Done DEF st
  <2>4. /\ ~ (s.op = "insertUser" /\ r.op = "signUp") /\ s.op \notin {"find", "forget"}
        /\ ~ (s.op = "insertCustomer" /\ r.op = "signUpCustomer")
    BY <2>1, Sending DEF st, r
  <2> QED
    BY <2>2, <2>3, <2>4 DEF Leaves, r
<1>5. CASE \E x, y : st = <<{x}, {y}>>
  <2>1. PICK x, y : st = <<{x}, {y}>>
    BY <1>5
  <2>2. x = s
    BY <1>1, <1>2, <2>1
  <2>3. /\ r.op \in Admitting \/ y = Bare("getCustomer")
        /\ \/ s.op = "insertUser" /\ r.op = "signUp" /\ y = Sign(User(c))
           \/ s.op = "insertCustomer" /\ r.op = "signUpCustomer" /\ y = Sign(Customer(c))
           \/ s.op \in {"find", "forget"} /\ r.op = "validateOtp" /\ y = Bare("getCustomer")
    <3>1. \/ r.op = "signUp" /\ st = <<{Insert(c)}, {Sign(User(c))}>>
          \/ r.op = "signUpCustomer" /\ st = <<{Inserts(Digits(r.phone), None)}, {Sign(Customer(c))}>>
          \/ r.op = "validateOtp" /\ \/ st = <<{Bare("find")}, {Bare("getCustomer")}>>
                                     \/ st = <<{Bare("forget")}, {Bare("getCustomer")}>>
      BY <1>1, <2>1 DEF Plan, SessionPlan, StaffPlan, StorefrontPlan, Reading
    <3>2. Insert(c).op = "insertUser" /\ Bare("find").op = "find" /\ Bare("forget").op = "forget"
          /\ Inserts(Digits(r.phone), None).op = "insertCustomer"
      BY DEF Insert, Bare, Inserts
    <3> QED
      BY <2>1, <2>2, <3>1, <3>2 DEF Admitting
  <2>4. Plan(c, r, <<{y}>>)
    BY <1>3, <2>3 DEF Plan, SessionPlan, StorefrontPlan, Admitting
  <2>5. Moved(c) /\ Sends(c, {y})
    BY <1>1, <2>1, <2>2, <2>4, DoneFirst DEF st, r
  <2> QED
    BY <2>3, <2>5 DEF Leaves, r
<1> QED
  <2>1. (\E T : st = <<T>>) \/ \E x, y : st = <<{x}, {y}>>
    BY <1>1 DEF Plan, SessionPlan, StaffPlan, StorefrontPlan, Reading
  <2> QED
    BY <2>1, <1>4, <1>5

(* The tables and the maps.                                                *)
Tables ==
  /\ second \in 1..LastSecond
  /\ DOMAIN users \subseteq UserIds /\ DOMAIN customers \subseteq CustomerIds
  /\ users \in [DOMAIN users -> [email : Emails, password : Passwords, picture : BOOLEAN]]
  /\ customers \in [DOMAIN customers -> [phone : Numbers, email : Emails \cup {None}]]
  /\ session = [a \in DOMAIN session |-> session[a]]
  /\ DOMAIN session = {User(id) : id \in DOMAIN users} \cup {Customer(id) : id \in DOMAIN customers}

(* The stages of a call, by what they begin with.                          *)
LEMMA ReadAlone ==
  ASSUME CallsOK, NEW c \in Calls, NEW s \in Sent(c), s.op = "read"
  PROVE  /\ Running(c) /\ Understood(c, Request(c)) /\ call[c].stages = <<{Bare("read")}>>
         /\ Sent(c) = {Bare("read")}
BY Sending DEF Reading, Bare, Sent

(* Who is in a table, or has a session, is an account.                     *)
LEMMA Accounted ==
  ASSUME Tables
  PROVE  /\ DOMAIN session \subseteq AllAccounts
         /\ \A u \in DOMAIN users : User(u) \in AllAccounts
         /\ \A k \in DOMAIN customers : Customer(k) \in AllAccounts
BY DEF Tables, AllAccounts

(* What the reads send.                                                    *)
LEMMA SessionReads ==
  ASSUME CallsOK, Tables, NEW c \in Calls, NEW s \in Sent(c)
  PROVE  /\ SignTokens(c, s) =>
              /\ Moved(c)
              /\ Sends(c, IF s.account \in DOMAIN session THEN {Store(s.account, <<s.account, second>>)} ELSE {})
         /\ LogOut(c, s) => Moved(c) /\ Sends(c, {})
         /\ RefreshToken(c, s) =>
              /\ Moved(c)
              /\ \/ Sends(c, {})
                 \/ /\ Sends(c, {Sign(Request(c).doc)}) /\ Request(c).doc \in DOMAIN session
                    /\ session[Request(c).doc] = Request(c).token
<1>1. Running(c)
  BY DEF Sent
<1>2. ASSUME SignTokens(c, s)
      PROVE  /\ Moved(c)
             /\ Sends(c, IF s.account \in DOMAIN session THEN {Store(s.account, <<s.account, second>>)} ELSE {})
  <2>1. PICK a \in AllAccounts : call[c].stages = <<{Sign(a)}>> /\ s = Sign(a)
    BY <1>2, Sending DEF SignTokens
  <2>2. s.account = a /\ Request(c).op \in Admitting
    BY <1>2, <2>1, Sending DEF Sign, SignTokens
  <2>3. CASE a \in DOMAIN session
    <3>1. <<a, second>> \in TokensOf(a) /\ <<a, second>>[2] <= second
      BY DEF TokensOf, Tables
    <3>2. Plan(c, Request(c), <<{Store(a, <<a, second>>)}>>)
      BY <2>2, <3>1 DEF Plan, SessionPlan
    <3>3. GoOn(c, <<{Store(a, <<a, second>>)}>>) /\ {Store(a, <<a, second>>)} # {}
      BY <1>2, <2>2, <2>3 DEF SignTokens, Store
    <3> QED
      BY <1>1, <2>1, <2>2, <2>3, <3>2, <3>3, GoesOn
  <2>4. CASE a \notin DOMAIN session
    BY <1>1, <1>2, <2>2, <2>4, Refuses DEF SignTokens
  <2> QED
    BY <2>3, <2>4
<1>3. ASSUME LogOut(c, s)
      PROVE  Moved(c) /\ Sends(c, {})
  <2>1. call[c].stages = <<{Bare("read")}>> /\ s = Bare("read") /\ Executed(c, s)
    BY <1>3, ReadAlone DEF LogOut
  <2> QED
    BY <1>1, <2>1, Done
<1>4. ASSUME RefreshToken(c, s)
      PROVE  /\ Moved(c)
             /\ \/ Sends(c, {})
                \/ /\ Sends(c, {Sign(Request(c).doc)}) /\ Request(c).doc \in DOMAIN session
                   /\ session[Request(c).doc] = Request(c).token
  <2>1. call[c].stages = <<{Bare("read")}>> /\ Request(c).op \in Admitting
    BY <1>4, ReadAlone DEF RefreshToken, Admitting
  <2> QED
    BY <1>1, <1>4, <2>1, Accounted, Admits, Refuses DEF RefreshToken
<1> QED
  BY <1>2, <1>3, <1>4

(* What the reads of the staff's services send.                            *)
LEMMA StaffReads ==
  ASSUME CallsOK, Tables, NEW c \in Calls, NEW s \in Sent(c)
  PROVE  /\ SignUp(c, s) => Moved(c) /\ (Sends(c, {}) \/ Sends(c, {Insert(c)}))
         /\ LogIn(c, s) => Moved(c) /\ (Sends(c, {}) \/ \E a \in DOMAIN session : Sends(c, {Sign(a)}))
         /\ ReadUserForPassword(c, s) => Moved(c) /\ (Sends(c, {}) \/ Sends(c, {Bare("setPassword")}))
         /\ CreateEmployee(c, s) => Moved(c) /\ (Sends(c, {}) \/ Sends(c, {Insert(c), Allows(Request(c).email)}))
         /\ UpdateAccount(c, s) =>
              /\ Moved(c)
              /\ \/ Sends(c, {}) /\ UNCHANGED disturbed
                 \/ /\ Request(c).doc[2] \in DOMAIN users /\ ~ InUse(Request(c).email, Request(c).doc[2])
                    /\ Sends(c, {Bare("updateUser")}
                                \cup EmailsFollow(users[Request(c).doc[2]].email, Request(c).email)
                                \cup (IF Request(c).op = "updateMe" THEN {Bare("setKey"), Bare("upload")} ELSE {}))
         /\ RemoveEmployee(c, s) =>
              /\ Moved(c)
              /\ \/ Sends(c, {}) /\ UNCHANGED disturbed
                 \/ /\ Request(c).doc[2] \in DOMAIN users
                    /\ Sends(c, {Bare("deleteUser"), Disallows(users[Request(c).doc[2]].email)})
<1> DEFINE r == Request(c)
<1>1. Running(c)
  BY DEF Sent
<1>2. s.op = "read" => call[c].stages = <<{Bare("read")}>> /\ Understood(c, r)
  BY ReadAlone
<1>3. ASSUME SignUp(c, s)
      PROVE  Moved(c) /\ (Sends(c, {}) \/ Sends(c, {Insert(c)}))
  <2>1. CASE GoOn(c, <<{Insert(c)}, {Sign(User(c))}>>)
    <3>1. Plan(c, r, <<{Insert(c)}, {Sign(User(c))}>>)
      BY <1>3 DEF SignUp, Plan, StaffPlan
    <3>2. call[c].stages = <<{Bare("read")}>> /\ {Insert(c)} # {}
      BY <1>2, <1>3 DEF SignUp
    <3> QED
      BY <1>1, <2>1, <3>1, <3>2, GoesOnTwo
  <2>2. CASE Refuse(c)
    BY <1>1, <2>2, Refuses
  <2> QED
    BY <1>3, <2>1, <2>2 DEF SignUp, Sign
<1>4. ASSUME LogIn(c, s)
      PROVE  Moved(c) /\ (Sends(c, {}) \/ \E a \in DOMAIN session : Sends(c, {Sign(a)}))
  <2>1. call[c].stages = <<{Bare("read")}>> /\ r.op \in Admitting
    BY <1>2, <1>4 DEF LogIn, Admitting
  <2>2. CASE Refuse(c)
    BY <1>1, <2>2, Refuses
  <2>3. CASE \E u \in DOMAIN users : Admit(c, User(u))
    <3>1. PICK u \in DOMAIN users : Admit(c, User(u))
      BY <2>3
    <3>2. User(u) \in DOMAIN session /\ User(u) \in AllAccounts
      BY Accounted DEF Tables
    <3>3. Moved(c) /\ Sends(c, {Sign(User(u))})
      BY <1>1, <2>1, <3>1, <3>2, Admits
    <3> QED
      BY <3>2, <3>3
  <2> QED
    BY <1>4, <2>2, <2>3 DEF LogIn
<1>5. ASSUME ReadUserForPassword(c, s)
      PROVE  Moved(c) /\ (Sends(c, {}) \/ Sends(c, {Bare("setPassword")}))
  <2>1. CASE GoOn(c, <<{Bare("setPassword")}>>)
    <3>1. Plan(c, r, <<{Bare("setPassword")}>>)
      BY <1>5 DEF ReadUserForPassword, Plan, StaffPlan
    <3>2. call[c].stages = <<{Bare("read")}>> /\ {Bare("setPassword")} # {}
      BY <1>2, <1>5 DEF ReadUserForPassword
    <3> QED
      BY <1>1, <2>1, <3>1, <3>2, GoesOn
  <2>2. CASE Refuse(c)
    BY <1>1, <2>2, Refuses
  <2> QED
    BY <1>5, <2>1, <2>2 DEF ReadUserForPassword, Bare
<1>6. ASSUME CreateEmployee(c, s)
      PROVE  Moved(c) /\ (Sends(c, {}) \/ Sends(c, {Insert(c), Allows(r.email)}))
  <2> DEFINE A == {Insert(c), Allows(r.email)}
  <2>1. CASE GoOn(c, <<A>>)
    <3>1. Plan(c, r, <<A>>)
      BY <1>6 DEF CreateEmployee, Plan, StaffPlan
    <3>2. call[c].stages = <<{Bare("read")}>> /\ A # {}
      BY <1>2, <1>6 DEF CreateEmployee
    <3> QED
      BY <1>1, <2>1, <3>1, <3>2, GoesOn
  <2>2. CASE Refuse(c)
    BY <1>1, <2>2, Refuses
  <2> QED
    BY <1>6, <2>1, <2>2 DEF CreateEmployee, Allows
<1>7. ASSUME UpdateAccount(c, s)
      PROVE  /\ Moved(c)
             /\ \/ Sends(c, {}) /\ UNCHANGED disturbed
                \/ /\ r.doc[2] \in DOMAIN users /\ ~ InUse(r.email, r.doc[2])
                   /\ Sends(c, {Bare("updateUser")}
                               \cup EmailsFollow(users[r.doc[2]].email, r.email)
                               \cup (IF r.op = "updateMe" THEN {Bare("setKey"), Bare("upload")} ELSE {}))
  <2> DEFINE old == users[r.doc[2]].email
             A == {Bare("updateUser")} \cup EmailsFollow(old, r.email)
                    \cup (IF r.op = "updateMe" THEN {Bare("setKey"), Bare("upload")} ELSE {})
  <2>1. CASE r.doc[2] \in DOMAIN users /\ ~ InUse(r.email, r.doc[2]) /\ GoOn(c, <<A>>)
    <3>1. old \in Emails
      BY <2>1 DEF Tables
    <3>2. A # {} /\ A \subseteq {Bare("updateUser"), Bare("setKey"), Bare("upload")} \cup EmailsFollow(old, r.email)
      OBVIOUS
    <3>3. r.op \in {"updateEmployee", "updateMe"} /\ call[c].stages = <<{Bare("read")}>>
      BY <1>2, <1>7 DEF UpdateAccount
    <3> HIDE DEF A
    <3>4. Plan(c, r, <<A>>)
      BY <3>1, <3>2, <3>3 DEF Plan, StaffPlan
    <3> QED
      BY <1>1, <2>1, <3>2, <3>3, <3>4, GoesOn DEF A
  <2>2. CASE Refuse(c) /\ UNCHANGED disturbed
    BY <1>1, <2>2, Refuses
  <2> QED
    BY <1>7, <2>1, <2>2 DEF UpdateAccount, Bare
<1>8. ASSUME RemoveEmployee(c, s)
      PROVE  /\ Moved(c)
             /\ \/ Sends(c, {}) /\ UNCHANGED disturbed
                \/ /\ r.doc[2] \in DOMAIN users
                   /\ Sends(c, {Bare("deleteUser"), Disallows(users[r.doc[2]].email)})
  <2> DEFINE old == users[r.doc[2]].email
             A == {Bare("deleteUser"), Disallows(old)}
  <2>1. CASE r.doc[2] \in DOMAIN users /\ GoOn(c, <<A>>)
    <3>1. old \in Emails
      BY <2>1 DEF Tables
    <3>2. r.op = "removeEmployee" /\ call[c].stages = <<{Bare("read")}>> /\ A # {}
      BY <1>2, <1>8 DEF RemoveEmployee
    <3>3. Plan(c, r, <<A>>)
      BY <3>1, <3>2 DEF Plan, StaffPlan
    <3> QED
      BY <1>1, <2>1, <3>2, <3>3, GoesOn
  <2>2. CASE Refuse(c) /\ UNCHANGED disturbed
    BY <1>1, <2>2, Refuses
  <2> QED
    BY <1>8, <2>1, <2>2 DEF RemoveEmployee, Bare, Disallows
<1> QED
  BY <1>3, <1>4, <1>5, <1>6, <1>7, <1>8

(* What the reads of the storefront's services send.                       *)
LEMMA StorefrontReads ==
  ASSUME CallsOK, Tables, NEW c \in Calls, NEW s \in Sent(c), NEW r, r = Request(c)
  PROVE  /\ SendOtp(c, s) => Moved(c) /\ Sends(c, {})
         /\ ValidateOtp(c, s) =>
              Moved(c) /\ (Sends(c, {}) \/ (codes[r.phone] = r.code /\ Sends(c, {Bare("find")})))
         /\ FindCustomer(c, s) =>
              /\ Moved(c)
              /\ Sends(c, IF With("phone", Digits(r.phone), None) = {} THEN {Bare("getCustomer")} ELSE {Bare("forget")})
         /\ GetCustomer(c, s) =>
              /\ Moved(c)
              /\ IF With("phone", Digits(r.phone), None) = {} THEN Sends(c, {})
                 ELSE \E a \in DOMAIN session : Sends(c, {Sign(a)})
         /\ SignUpCustomer(c, s) => Moved(c) /\ (Sends(c, {}) \/ Sends(c, {Inserts(Digits(r.phone), None)}))
         /\ SendChangeOtp(c, s) => Moved(c) /\ Sends(c, {})
         /\ AcceptCode(c, s) =>
              Moved(c) /\ (Sends(c, {}) \/ (changeCodes[r.phone] = r.code /\ Sends(c, {Writes(Digits(r.phone), None)})))
         /\ CreateCustomer(c, s) =>
              Moved(c) /\ (Sends(c, {}) \/ (~ Taken(r, None) /\ Sends(c, {Inserts(Groups(r.phone), r.email)})))
         /\ UpdateCustomer(c, s) =>
              /\ Moved(c)
              /\ \/ Sends(c, {})
                 \/ /\ r.doc[2] \in DOMAIN customers /\ ~ Taken(r, r.doc[2])
                    /\ Sends(c, {Writes(IF r.phone = None THEN None ELSE Groups(r.phone), r.email)})
         /\ ReadCustomer(c, s) => Moved(c) /\ (Sends(c, {}) \/ Sends(c, {Bare("deleteCustomer")}))
<1>1. Running(c)
  BY DEF Sent
<1>2. s.op = "read" => /\ call[c].stages = <<{Bare("read")}>> /\ Understood(c, r)
                       /\ s = Bare("read")
  BY ReadAlone
<1>3. ASSUME SendOtp(c, s)
      PROVE  Moved(c) /\ Sends(c, {})
  <2>1. call[c].stages = <<{Bare("read")}>> /\ s = Bare("read") /\ Executed(c, s)
    BY <1>2, <1>3 DEF SendOtp
  <2> QED
    BY <1>1, <2>1, Done
<1>4. ASSUME ValidateOtp(c, s)
      PROVE  Moved(c) /\ (Sends(c, {}) \/ (codes[r.phone] = r.code /\ Sends(c, {Bare("find")})))
  <2>1. CASE codes[r.phone] = r.code /\ GoOn(c, <<{Bare("find")}, {Bare("getCustomer")}>>)
    <3>1. r.op = "validateOtp" /\ call[c].stages = <<{Bare("read")}>> /\ {Bare("find")} # {}
      BY <1>2, <1>4 DEF ValidateOtp
    <3>2. Plan(c, r, <<{Bare("find")}, {Bare("getCustomer")}>>)
      BY <3>1 DEF Plan, StorefrontPlan
    <3> QED
      BY <1>1, <2>1, <3>1, <3>2, GoesOnTwo
  <2>2. CASE Refuse(c)
    BY <1>1, <2>2, Refuses
  <2> QED
    BY <1>4, <2>1, <2>2 DEF ValidateOtp, Bare
<1>5. ASSUME FindCustomer(c, s)
      PROVE  /\ Moved(c)
             /\ Sends(c, IF With("phone", Digits(r.phone), None) = {} THEN {Bare("getCustomer")} ELSE {Bare("forget")})
  <2> DEFINE none == With("phone", Digits(r.phone), None) = {}
             A == IF none THEN {} ELSE {Bare("forget")}
  <2>1. r.op = "validateOtp" /\ call[c].stages = <<{s}, {Bare("getCustomer")}>>
    BY <1>5, Sending DEF FindCustomer
  <2>2. GoOn(c, <<A>>) /\ Shaped /\ {Bare("getCustomer")} # {}
    BY <1>5 DEF FindCustomer, CallsOK, Bare
  <2>3. /\ Plan(c, r, <<{Bare("getCustomer")}>>)
        /\ Plan(c, r, <<{Bare("forget")}, {Bare("getCustomer")}>>)
    BY <2>1 DEF Plan, StorefrontPlan
  <2>4. \A x, y : Head(<<x, y>>) = x /\ Head(<<x>>) = x
    OBVIOUS
  <2>5. CASE none
    <3>1. A = {}
      BY <2>5
    <3> HIDE DEF A
    <3>2. Shaped' /\ Alone(c) /\ Stands(c, <<{Bare("getCustomer")}>>)
      BY <1>1, <2>1, <2>2, <3>1, GoOnBefore
    <3> QED
      BY <1>1, <2>3, <2>4, <2>5, <3>2, SendsStage
  <2>6. CASE ~ none
    <3>1. A = {Bare("forget")} /\ A # {}
      BY <2>6
    <3> HIDE DEF A
    <3>2. Shaped' /\ Alone(c) /\ Stands(c, <<{Bare("forget")}, {Bare("getCustomer")}>>)
      BY <1>1, <2>1, <2>2, <3>1, GoOnBefore
    <3> QED
      BY <1>1, <2>3, <2>4, <2>6, <3>2, SendsStage
  <2> QED
    BY <2>5, <2>6
<1>6. ASSUME GetCustomer(c, s)
      PROVE  /\ Moved(c)
             /\ IF With("phone", Digits(r.phone), None) = {} THEN Sends(c, {})
                ELSE \E a \in DOMAIN session : Sends(c, {Sign(a)})
  <2>1. r.op \in Admitting /\ call[c].stages = <<{s}>>
    BY <1>6, Sending DEF GetCustomer, Admitting
  <2>2. CASE With("phone", Digits(r.phone), None) = {}
    BY <1>1, <1>6, <2>1, <2>2, Done DEF GetCustomer
  <2>3. CASE With("phone", Digits(r.phone), None) # {}
    <3>1. PICK k : k \in With("phone", Digits(r.phone), None) /\ Admit(c, Customer(k))
      BY <1>6, <2>3 DEF GetCustomer
    <3>2. Customer(k) \in DOMAIN session /\ Customer(k) \in AllAccounts
      BY <3>1, Accounted DEF With, Tables
    <3>3. Moved(c) /\ Sends(c, {Sign(Customer(k))})
      BY <1>1, <2>1, <3>1, <3>2, Admits
    <3> QED
      BY <2>3, <3>2, <3>3
  <2> QED
    BY <2>2, <2>3
<1>7. ASSUME SignUpCustomer(c, s)
      PROVE  Moved(c) /\ (Sends(c, {}) \/ Sends(c, {Inserts(Digits(r.phone), None)}))
  <2> DEFINE A == {Inserts(Digits(r.phone), None)}
             B == {Sign(Customer(c))}
  <2>1. CASE GoOn(c, <<A, B>>)
    <3>1. r.op = "signUpCustomer" /\ call[c].stages = <<{Bare("read")}>> /\ A # {}
      BY <1>2, <1>7 DEF SignUpCustomer
    <3>2. Plan(c, r, <<A, B>>)
      BY <3>1 DEF Plan, StorefrontPlan
    <3> QED
      BY <1>1, <2>1, <3>1, <3>2, GoesOnTwo
  <2>2. CASE Refuse(c)
    BY <1>1, <2>2, Refuses
  <2> QED
    BY <1>7, <2>1, <2>2 DEF SignUpCustomer, Inserts, Sign
<1>8. ASSUME SendChangeOtp(c, s)
      PROVE  Moved(c) /\ Sends(c, {})
  <2>1. call[c].stages = <<{Bare("read")}>> /\ s = Bare("read") /\ (Executed(c, s) \/ Refuse(c))
    BY <1>2, <1>8 DEF SendChangeOtp
  <2> QED
    BY <1>1, <2>1, Done, Refuses
<1>9. ASSUME AcceptCode(c, s)
      PROVE  Moved(c) /\ (Sends(c, {}) \/ (changeCodes[r.phone] = r.code /\ Sends(c, {Writes(Digits(r.phone), None)})))
  <2>1. CASE changeCodes[r.phone] = r.code /\ GoOn(c, <<{Writes(Digits(r.phone), None)}>>)
    <3>1. r.op = "updateMyPhoneNumber" /\ call[c].stages = <<{Bare("read")}>> /\ {Writes(Digits(r.phone), None)} # {}
      BY <1>2, <1>9 DEF AcceptCode
    <3>2. Plan(c, r, <<{Writes(Digits(r.phone), None)}>>)
      BY <3>1 DEF Plan, StorefrontPlan
    <3> QED
      BY <1>1, <2>1, <3>1, <3>2, GoesOn
  <2>2. CASE Refuse(c)
    BY <1>1, <2>2, Refuses
  <2> QED
    BY <1>9, <2>1, <2>2 DEF AcceptCode, Writes
<1>10. ASSUME CreateCustomer(c, s)
      PROVE  Moved(c) /\ (Sends(c, {}) \/ (~ Taken(r, None) /\ Sends(c, {Inserts(Groups(r.phone), r.email)})))
  <2>1. CASE ~ Taken(r, None) /\ GoOn(c, <<{Inserts(Groups(r.phone), r.email)}>>)
    <3>1. r.op = "createCustomer" /\ call[c].stages = <<{Bare("read")}>> /\ {Inserts(Groups(r.phone), r.email)} # {}
      BY <1>2, <1>10 DEF CreateCustomer
    <3>2. Plan(c, r, <<{Inserts(Groups(r.phone), r.email)}>>)
      BY <3>1 DEF Plan, StorefrontPlan
    <3> QED
      BY <1>1, <2>1, <3>1, <3>2, GoesOn
  <2>2. CASE Refuse(c)
    BY <1>1, <2>2, Refuses
  <2> QED
    BY <1>10, <2>1, <2>2 DEF CreateCustomer, Inserts
<1>12. ASSUME ReadCustomer(c, s)
      PROVE  Moved(c) /\ (Sends(c, {}) \/ Sends(c, {Bare("deleteCustomer")}))
  <2>1. CASE GoOn(c, <<{Bare("deleteCustomer")}>>)
    <3>1. r.op = "removeCustomer" /\ call[c].stages = <<{Bare("read")}>> /\ {Bare("deleteCustomer")} # {}
      BY <1>2, <1>12 DEF ReadCustomer
    <3>2. Plan(c, r, <<{Bare("deleteCustomer")}>>)
      BY <3>1 DEF Plan, StorefrontPlan
    <3> QED
      BY <1>1, <2>1, <3>1, <3>2, GoesOn
  <2>2. CASE Refuse(c)
    BY <1>1, <2>2, Refuses
  <2> QED
    BY <1>12, <2>1, <2>2 DEF ReadCustomer, Bare
<1>11. ASSUME UpdateCustomer(c, s)
      PROVE  /\ Moved(c)
             /\ \/ Sends(c, {})
                \/ /\ r.doc[2] \in DOMAIN customers /\ ~ Taken(r, r.doc[2])
                   /\ Sends(c, {Writes(IF r.phone = None THEN None ELSE Groups(r.phone), r.email)})
  <2> DEFINE A == {Writes(IF r.phone = None THEN None ELSE Groups(r.phone), r.email)}
  <2>1. CASE r.doc[2] \in DOMAIN customers /\ ~ Taken(r, r.doc[2]) /\ GoOn(c, <<A>>)
    <3>1. r.op = "updateCustomer" /\ call[c].stages = <<{Bare("read")}>> /\ A # {}
      BY <1>2, <1>11 DEF UpdateCustomer
    <3>2. Plan(c, r, <<A>>)
      BY <3>1 DEF Plan, StorefrontPlan
    <3> QED
      BY <1>1, <2>1, <3>1, <3>2, GoesOn
  <2>2. CASE Refuse(c)
    BY <1>1, <2>2, Refuses
  <2> QED
    BY <1>11, <2>1, <2>2 DEF UpdateCustomer, Writes
<1> QED
  BY <1>3, <1>4, <1>5, <1>6, <1>7, <1>8, <1>9, <1>10, <1>11, <1>12
-----------------------------------------------------------------------------
(* A step of call c: what it may have to send afterwards.                  *)
Acts(c, s) ==
  SessionStep(c, s) \/ StaffStep(c, s) \/ StorefrontStep(c, s) \/ Lose(c, s)
Turns == {"sign", "store", "forget", "getCustomer"}

(* After a statement that has succeeded a call reads no more: what it      *)
(* sends it had to send, or it is its turn.                                *)
LEMMA ExecutedMoves ==
  ASSUME CallsOK, NEW c \in Calls, NEW s \in Sent(c), Executed(c, s)
  PROVE  /\ Moved(c)
         /\ \A t \in Sent(c)' : t.op # "read" /\ (t \in Sent(c) \ {s} \/ t.op \in Turns)
<1>1. Moved(c) /\ Sent(c)' = Leaves(c, s)
  BY ExecutedSends DEF Sends
<1>2. \A t \in Leaves(c, s) : t \in Sent(c) \ {s} \/ t.op \in Turns
  BY DEF Leaves, Sign, Bare, Turns
<1>3. \A t \in Sent(c) \ {s} : t.op # "read"
  BY Sending DEF Reading, Sent
<1> QED
  BY <1>1, <1>2, <1>3 DEF Turns

(* The steps of the sessions send only what takes its turn.                *)
LEMMA SessionMoves ==
  ASSUME CallsOK, Tables, NEW c \in Calls, NEW s \in Sent(c), SessionStep(c, s)
  PROVE  Moved(c) /\ \A t \in Sent(c)' : t.op \in Turns
<1>1. CASE SignTokens(c, s)
  BY <1>1, SessionReads DEF Sends, Turns, Store
<1>2. CASE StoreHash(c, s)
  <2>1. s.op = "store" /\ Executed(c, s)
    BY <1>2 DEF StoreHash
  <2>2. Sent(c) = {s}
    BY <2>1, Sending DEF Sent
  <2> QED
    BY <2>1, <2>2, ExecutedMoves
<1>3. CASE LogOut(c, s)
  BY <1>3, SessionReads DEF Sends
<1>4. CASE RefreshToken(c, s)
  <2>1. Moved(c) /\ (Sent(c)' = {} \/ Sent(c)' = {Sign(Request(c).doc)})
    BY <1>4, SessionReads DEF Sends
  <2>2. \A a : Sign(a).op \in Turns
    BY DEF Sign, Turns
  <2> QED
    BY <2>1, <2>2
<1> QED
  BY <1>1, <1>2, <1>3, <1>4 DEF SessionStep

(* The steps of the staff's services send new statements only after a      *)
(* read.                                                                   *)
LEMMA StaffMoves ==
  ASSUME CallsOK, Tables, NEW c \in Calls, NEW s \in Sent(c), StaffStep(c, s)
  PROVE  /\ Moved(c)
         /\ \A t \in Sent(c)' : t.op # "read" /\ (s.op = "read" \/ t \in Sent(c) \ {s} \/ t.op \in Turns)
<1>1. CASE Executed(c, s)
  BY <1>1, ExecutedMoves
<1>2. CASE SignUp(c, s)
  <2>1. Moved(c) /\ (Sent(c)' = {} \/ Sent(c)' = {Insert(c)}) /\ s.op = "read"
    BY <1>2, StaffReads DEF Sends, SignUp
  <2>2. Insert(c).op # "read"
    BY DEF Insert
  <2> QED
    BY <2>1, <2>2
<1>3. CASE LogIn(c, s)
  BY <1>3, StaffReads DEF Sends, LogIn, Sign
<1>4. CASE ReadUserForPassword(c, s)
  BY <1>4, StaffReads DEF Sends, ReadUserForPassword, Bare
<1>5. CASE CreateEmployee(c, s)
  <2>1. Moved(c) /\ (Sent(c)' = {} \/ Sent(c)' = {Insert(c), Allows(Request(c).email)}) /\ s.op = "read"
    BY <1>5, StaffReads DEF Sends, CreateEmployee
  <2>2. \A e : Insert(c).op # "read" /\ Allows(e).op # "read"
    BY DEF Insert, Allows
  <2> QED
    BY <2>1, <2>2
<1>6. CASE UpdateAccount(c, s)
  BY <1>6, StaffReads DEF Sends, UpdateAccount, Bare, EmailsFollow
<1>7. CASE RemoveEmployee(c, s)
  BY <1>7, StaffReads DEF Sends, RemoveEmployee, Bare, Disallows
<1> QED
  BY <1>1, <1>2, <1>3, <1>4, <1>5, <1>6, <1>7
     DEF StaffStep, InsertUser, Allow, Disallow, SetPassword, UpdateUser, SetKey, UploadPicture, DeleteUser

(* The steps of the storefront's services do so too.                       *)
LEMMA StorefrontMoves ==
  ASSUME CallsOK, Tables, NEW c \in Calls, NEW s \in Sent(c), StorefrontStep(c, s)
  PROVE  /\ Moved(c)
         /\ \A t \in Sent(c)' : t.op # "read" /\ (s.op = "read" \/ t \in Sent(c) \ {s} \/ t.op \in Turns)
<1>1. CASE Executed(c, s)
  BY <1>1, ExecutedMoves
<1>2. CASE SendOtp(c, s) \/ SendChangeOtp(c, s)
  BY <1>2, StorefrontReads DEF Sends
<1>3. CASE ValidateOtp(c, s)
  BY <1>3, StorefrontReads DEF Sends, ValidateOtp, Bare
<1>4. CASE FindCustomer(c, s)
  BY <1>4, StorefrontReads DEF Sends, Bare, Turns
<1>5. CASE GetCustomer(c, s)
  BY <1>5, StorefrontReads DEF Sends, Sign, Turns
<1>6. CASE SignUpCustomer(c, s)
  BY <1>6, StorefrontReads DEF Sends, SignUpCustomer, Inserts
<1>7. CASE AcceptCode(c, s)
  BY <1>7, StorefrontReads DEF Sends, AcceptCode, Writes
<1>8. CASE CreateCustomer(c, s)
  BY <1>8, StorefrontReads DEF Sends, CreateCustomer, Inserts
<1>9. CASE UpdateCustomer(c, s)
  BY <1>9, StorefrontReads DEF Sends, UpdateCustomer, Writes
<1>10. CASE ReadCustomer(c, s)
  BY <1>10, StorefrontReads DEF Sends, ReadCustomer, Bare
<1> QED
  BY <1>1, <1>2, <1>3, <1>4, <1>5, <1>6, <1>7, <1>8, <1>9, <1>10
     DEF StorefrontStep, InsertCustomer, WriteCustomer, ForgetCode, DeleteCustomer

(* Any step of a call moves it alone, and reads nothing again.             *)
LEMMA Moves ==
  ASSUME CallsOK, Tables, NEW c \in Calls, NEW s \in Sent(c), Acts(c, s)
  PROVE  /\ Moved(c)
         /\ \A t \in Sent(c)' : t.op # "read" /\ (s.op = "read" \/ t \in Sent(c) \ {s} \/ t.op \in Turns)
<1>1. CASE SessionStep(c, s)
  BY <1>1, SessionMoves DEF Turns
<1>2. CASE StaffStep(c, s)
  BY <1>2, StaffMoves
<1>3. CASE StorefrontStep(c, s)
  BY <1>3, StorefrontMoves
<1>4. CASE Lose(c, s)
  <2>1. Moved(c) /\ Sent(c)' = Sent(c) \ {s}
    BY <1>4, Lost DEF Sends
  <2>2. \A t \in Sent(c) \ {s} : t.op # "read"
    BY Sending DEF Reading, Sent
  <2> QED
    BY <2>1, <2>2
<1> QED
  BY <1>1, <1>2, <1>3, <1>4 DEF Acts
-----------------------------------------------------------------------------
(* Which step of call c has sent statement t.                              *)
Sender(c, s, t) ==
  \/ t.op \in {"sign", "store", "setPassword", "deleteCustomer"}
  \/ t.op = "insertCustomer" /\ (SignUpCustomer(c, s) \/ CreateCustomer(c, s))
  \/ t.op = "writeCustomer" /\ (AcceptCode(c, s) \/ UpdateCustomer(c, s))
  \/ t.op = "find" /\ ValidateOtp(c, s)
  \/ t.op = "forget" /\ FindCustomer(c, s)
  \/ t.op = "getCustomer" /\ (FindCustomer(c, s) \/ ForgetCode(c, s))
  \/ t.op = "insertUser" /\ (SignUp(c, s) \/ CreateEmployee(c, s))
  \/ t.op = "allow" /\ (CreateEmployee(c, s) \/ UpdateAccount(c, s))
  \/ t.op = "disallow" /\ (UpdateAccount(c, s) \/ RemoveEmployee(c, s))
  \/ t.op \in {"updateUser", "setKey", "upload"} /\ UpdateAccount(c, s)
  \/ t.op = "deleteUser" /\ RemoveEmployee(c, s)

(* A statement that a call has to send after a step and had not before is  *)
(* sent by that step.                                                      *)
LEMMA Senders ==
  ASSUME CallsOK, Tables, NEW c \in Calls, NEW s \in Sent(c), Acts(c, s), NEW t \in Sent(c)'
  PROVE  t \in Sent(c) \ {s} \/ Sender(c, s, t)
<1> DEFINE r == Request(c)
<1>1. CASE ForgetCode(c, s)
  <2>1. Sent(c)' = {Bare("getCustomer")}
    BY <1>1, ExecutedSends DEF Sends, Leaves, ForgetCode
  <2> QED
    BY <1>1, <2>1 DEF Sender, Bare
<1>2. CASE Executed(c, s) /\ s.op \notin {"find", "forget"}
  <2>1. Sent(c)' = Leaves(c, s)
    BY <1>2, ExecutedSends DEF Sends
  <2>2. Leaves(c, s) = Sent(c) \ {s} \/ \E a : Leaves(c, s) = {Sign(a)}
    BY <1>2 DEF Leaves
  <2>3. \A a : Sign(a).op = "sign"
    BY DEF Sign
  <2> QED
    BY <2>1, <2>2, <2>3 DEF Sender
<1>3. CASE Lose(c, s)
  BY <1>3, Lost DEF Sends
<1>4. CASE SignUp(c, s)
  <2>1. \A x \in Sent(c)' : x = Insert(c)
    BY <1>4, StaffReads DEF Sends
  <2>2. Insert(c).op = "insertUser" /\ Allows(r.email).op = "allow"
    BY DEF Insert, Allows
  <2> QED
    BY <1>4, <2>1, <2>2 DEF Sender
<1>5. CASE LogIn(c, s)
  <2>1. \E a : t = Sign(a)
    BY <1>5, StaffReads DEF Sends
  <2>2. \A a : Sign(a).op = "sign"
    BY DEF Sign
  <2> QED
    BY <2>1, <2>2 DEF Sender
<1>6. CASE ReadUserForPassword(c, s)
  BY <1>6, StaffReads DEF Sends, Sender, Bare
<1>7. CASE CreateEmployee(c, s)
  <2>1. \A x \in Sent(c)' : x = Insert(c) \/ x = Allows(r.email)
    BY <1>7, StaffReads DEF Sends
  <2>2. Insert(c).op = "insertUser" /\ Allows(r.email).op = "allow"
    BY DEF Insert, Allows
  <2> QED
    BY <1>7, <2>1, <2>2 DEF Sender
<1>8. CASE UpdateAccount(c, s)
  BY <1>8, StaffReads DEF Sends, Sender, Bare, EmailsFollow
<1>9. CASE RemoveEmployee(c, s)
  BY <1>9, StaffReads DEF Sends, Sender, Bare, Disallows
<1>10. CASE SendOtp(c, s)
  BY <1>10, StorefrontReads DEF Sends, Sender
<1>11. CASE ValidateOtp(c, s)
  BY <1>11, StorefrontReads DEF Sends, Sender, Bare
<1>12. CASE FindCustomer(c, s)
  BY <1>12, StorefrontReads DEF Sends, Sender, Bare
<1>13. CASE GetCustomer(c, s)
  <2>1. \E a : t = Sign(a)
    BY <1>13, StorefrontReads DEF Sends
  <2>2. \A a : Sign(a).op = "sign"
    BY DEF Sign
  <2> QED
    BY <2>1, <2>2 DEF Sender
<1>14. CASE SignUpCustomer(c, s)
  BY <1>14, StorefrontReads DEF Sends, Sender, Inserts
<1>15. CASE SendChangeOtp(c, s)
  BY <1>15, StorefrontReads DEF Sends, Sender
<1>16. CASE AcceptCode(c, s)
  BY <1>16, StorefrontReads DEF Sends, Sender, Writes
<1>17. CASE CreateCustomer(c, s)
  BY <1>17, StorefrontReads DEF Sends, Sender, Inserts
<1>18. CASE UpdateCustomer(c, s)
  BY <1>18, StorefrontReads DEF Sends, Sender, Writes
<1>19. CASE ReadCustomer(c, s)
  BY <1>19, StorefrontReads DEF Sends, Sender, Bare
<1>20. CASE SignTokens(c, s)
  BY <1>20, SessionReads DEF Sends, Sender, Store
<1>21. CASE LogOut(c, s)
  BY <1>21, SessionReads DEF Sends, Sender
<1>22. CASE RefreshToken(c, s)
  <2>1. \E a : t = Sign(a)
    BY <1>22, SessionReads DEF Sends
  <2>2. \A a : Sign(a).op = "sign"
    BY DEF Sign
  <2> QED
    BY <2>1, <2>2 DEF Sender
<1>23. CASE SessionStep(c, s)
  BY <1>2, <1>20, <1>21, <1>22, <1>23 DEF SessionStep, StoreHash
<1>24. CASE StaffStep(c, s)
  BY <1>2, <1>4, <1>5, <1>6, <1>7, <1>8, <1>9, <1>24
     DEF StaffStep, InsertUser, Allow, Disallow, SetPassword, UpdateUser, SetKey, UploadPicture, DeleteUser
<1>25. CASE StorefrontStep(c, s)
  BY <1>1, <1>2, <1>10, <1>11, <1>12, <1>13, <1>14, <1>15, <1>16, <1>17, <1>18, <1>19, <1>25
     DEF StorefrontStep, InsertCustomer, WriteCustomer, DeleteCustomer
<1> QED
  BY <1>3, <1>23, <1>24, <1>25 DEF Acts
-----------------------------------------------------------------------------
(* TypeOK and Tables, table by table.                                      *)
UsersOK ==
  /\ DOMAIN users \subseteq UserIds
  /\ users \in [DOMAIN users -> [email : Emails, password : Passwords, picture : BOOLEAN]]
  /\ \A u \in DOMAIN users : ~ InUse(users[u].email, u)
CustomersOK ==
  /\ DOMAIN customers \subseteq CustomerIds
  /\ customers \in [DOMAIN customers -> [phone : Numbers, email : Emails \cup {None}]]
  /\ \A k \in DOMAIN customers : With("phone", customers[k].phone, k) = {}
SessionsOK ==
  /\ session = [a \in DOMAIN session |-> session[a]]
  /\ DOMAIN session = {User(id) : id \in DOMAIN users} \cup {Customer(id) : id \in DOMAIN customers}
  /\ \A a \in DOMAIN session : session[a] \in {a} \X (0..second) \cup {None}
MapsOK ==
  /\ allowed \subseteq Emails /\ pictures \subseteq UserIds
  /\ codes \in [Phones -> Calls \cup {None}] /\ changeCodes \in [Phones -> Calls \cup {None}]

(* The type invariant, table by table.                                     *)
LEMMA TypeParts ==
  (Tables /\ TypeOK) <=>
    second \in 1..LastSecond /\ UsersOK /\ CustomersOK /\ SessionsOK /\ MapsOK /\ disturbed \subseteq Docs
BY DEF Tables, TypeOK, UsersOK, CustomersOK, SessionsOK, MapsOK

(* A call that has something to insert finds its id free.                  *)
Unborn(c) ==
  call[c].at = "idle" \/ \E s \in Sent(c) : s.op \in {"read", "insertUser", "insertCustomer"}
Fresh == \A c \in Calls : Unborn(c) => c \notin DOMAIN users \cup DOMAIN customers

Inv == CallsOK /\ Tables /\ TypeOK /\ Fresh

(* A user is no customer.                                                  *)
LEMMA UserNotCustomer == \A i, j : User(i) # Customer(j)
BY DEF User, Customer

(* The id of an account can be read off it.                                *)
LEMMA SameUser == \A i, j : /\ User(i) = User(j) => i = j
                            /\ Customer(i) = Customer(j) => i = j
                            /\ User(i)[2] = i /\ Customer(i)[2] = i
BY DEF User, Customer

(* An account has a session while it is in its table.                      *)
LEMMA SessionOf ==
  ASSUME SessionsOK, NEW id
  PROVE  /\ User(id) \in DOMAIN session <=> id \in DOMAIN users
         /\ Customer(id) \in DOMAIN session <=> id \in DOMAIN customers
<1>1. \A a : a \in DOMAIN session <=> (\E i \in DOMAIN users : a = User(i)) \/ \E j \in DOMAIN customers : a = Customer(j)
  BY DEF SessionsOK
<1>2. \A i, j : User(i) # Customer(j) /\ (User(i) = User(j) => i = j) /\ (Customer(i) = Customer(j) => i = j)
  BY UserNotCustomer, SameUser
<1>3. User(id) \in DOMAIN session <=> id \in DOMAIN users
  BY <1>1, <1>2
<1>4. Customer(id) \in DOMAIN session <=> id \in DOMAIN customers
  BY <1>1, <1>2
<1> QED
  BY <1>3, <1>4

(* The writes to the users.                                                *)
LEMMA InsertUserOK ==
  ASSUME Inv, NEW c \in Calls, NEW s \in Sent(c), InsertUser(c, s)
  PROVE  /\ UsersOK' /\ DOMAIN users' = DOMAIN users \cup {c} /\ c \notin DOMAIN users
         /\ \A u \in DOMAIN users : users'[u] = users[u]
         /\ users'[c] = [email |-> Request(c).email, password |-> Request(c).password, picture |-> FALSE]
<1> DEFINE r == Request(c)
           row == [email |-> r.email, password |-> r.password, picture |-> FALSE]
<1>1. UsersOK
  BY TypeParts DEF Inv
<1>2. r.op \in {"signUp", "createEmployee"} /\ Understood(c, r)
  BY Sending DEF Inv, InsertUser
<1>3. r.email \in Emails /\ r.password \in Passwords
  BY <1>2 DEF Understood
<1>4. row \in [email : Emails, password : Passwords, picture : BOOLEAN]
  BY <1>3
<1>5. \A u \in DOMAIN users : users[u].email # r.email
  <2>1. None \notin DOMAIN users
    BY <1>1, OpeningAssumption DEF UsersOK
  <2> QED
    BY <2>1 DEF InsertUser, InUse
<1>6. c \in UserIds /\ c \notin DOMAIN users
  BY DEF UserIds, Inv, Fresh, Unborn, InsertUser
<1>7. row.email = r.email
  OBVIOUS
<1> HIDE DEF row
<1>8. users' = [i \in DOMAIN users \cup {c} |-> IF i = c THEN row ELSE users[i]]
  BY DEF InsertUser, Put, row
<1>9. DOMAIN users' = DOMAIN users \cup {c} /\ users'[c] = row /\ \A u \in DOMAIN users : users'[u] = users[u]
  BY <1>6, <1>8
<1>10. users' \in [DOMAIN users' -> [email : Emails, password : Passwords, picture : BOOLEAN]]
  BY <1>1, <1>4, <1>8, <1>9 DEF UsersOK
<1>11. \A u, v \in DOMAIN users' : u # v => users'[u].email # users'[v].email
  BY <1>1, <1>5, <1>7, <1>9 DEF UsersOK, InUse
<1> QED
  BY <1>1, <1>6, <1>9, <1>10, <1>11 DEF UsersOK, InUse, row

(* The user of the request gets another e-mail, which nobody else has.     *)
LEMMA UpdateUserOK ==
  ASSUME Inv, NEW c \in Calls, NEW s \in Sent(c), UpdateUser(c, s), NEW u, u = Request(c).doc[2]
  PROVE  /\ UsersOK' /\ DOMAIN users' = DOMAIN users /\ u \in DOMAIN users
         /\ users' = [users EXCEPT ![u].email = Request(c).email]
         /\ Request(c).doc = User(u)
         /\ \A v \in DOMAIN users \ {u} : users'[v] = users[v]
         /\ users'[u].email = Request(c).email /\ users'[u].picture = users[u].picture
<1> DEFINE r == Request(c)
<1>1. UsersOK /\ SessionsOK
  BY TypeParts DEF Inv
<1>2. r.op \in {"updateEmployee", "updateMe"} /\ Understood(c, r)
  BY Sending DEF Inv, UpdateUser
<1>3. r.email \in Emails /\ \E id \in UserIds : r.doc = User(id)
  BY <1>2 DEF Understood
<1>4. u \in DOMAIN users /\ r.doc = User(u)
  <2>1. r.doc \in DOMAIN session
    BY DEF UpdateUser
  <2> QED
    BY <1>1, <1>3, <2>1, SessionOf, SameUser
<1>5. users' = [users EXCEPT ![u].email = r.email] /\ ~ InUse(r.email, u)
  BY DEF UpdateUser
<1>6. \A v \in DOMAIN users : users[v] \in [email : Emails, password : Passwords, picture : BOOLEAN]
  BY <1>1 DEF UsersOK
<1> DEFINE row == [users[u] EXCEPT !.email = r.email]
<1>7. row \in [email : Emails, password : Passwords, picture : BOOLEAN] /\ row.email = r.email
      /\ row.picture = users[u].picture
  BY <1>3, <1>4, <1>6
<1>8. users' = [v \in DOMAIN users |-> IF v = u THEN row ELSE users[v]]
  BY <1>1, <1>4, <1>5 DEF UsersOK
<1> HIDE DEF row
<1>9. DOMAIN users' = DOMAIN users /\ users'[u] = row /\ \A v \in DOMAIN users \ {u} : users'[v] = users[v]
  BY <1>4, <1>8
<1>10. users' \in [DOMAIN users' -> [email : Emails, password : Passwords, picture : BOOLEAN]]
  BY <1>6, <1>7, <1>8, <1>9
<1>11. \A v, w \in DOMAIN users' : v # w => users'[v].email # users'[w].email
  BY <1>1, <1>5, <1>7, <1>9 DEF UsersOK, InUse
<1> QED
  BY <1>1, <1>4, <1>5, <1>7, <1>9, <1>10, <1>11 DEF UsersOK, InUse

(* The other fields of a user.                                             *)
LEMMA SetFieldOK ==
  ASSUME Inv, NEW c \in Calls, NEW s \in Sent(c), SetPassword(c, s) \/ SetKey(c, s), NEW u, u = Request(c).doc[2]
  PROVE  /\ UsersOK' /\ DOMAIN users' = DOMAIN users /\ u \in DOMAIN users /\ Request(c).doc = User(u)
         /\ \A v \in DOMAIN users \ {u} : users'[v] = users[v]
         /\ users'[u].email = users[u].email
         /\ SetPassword(c, s) => users'[u].picture = users[u].picture
<1> DEFINE r == Request(c)
<1>1. UsersOK /\ SessionsOK
  BY TypeParts DEF Inv
<1>2. r.op \in {"updatePassword", "updateEmployee", "updateMe"} /\ Understood(c, r)
      /\ (SetPassword(c, s) => r.op = "updatePassword")
  BY Sending DEF Inv, SetPassword, SetKey
<1>3. (\E id \in UserIds : r.doc = User(id)) /\ (SetPassword(c, s) => r.password \in Passwords)
  BY <1>2 DEF Understood
<1>4. u \in DOMAIN users /\ r.doc = User(u)
  <2>1. r.doc \in DOMAIN session
    BY DEF SetPassword, SetKey
  <2> QED
    BY <1>1, <1>3, <2>1, SessionOf, SameUser
<1>5. \A v \in DOMAIN users : users[v] \in [email : Emails, password : Passwords, picture : BOOLEAN]
  BY <1>1 DEF UsersOK
<1> DEFINE RowOf(row) == /\ row \in [email : Emails, password : Passwords, picture : BOOLEAN]
                         /\ row.email = users[u].email
                         /\ SetPassword(c, s) => row.picture = users[u].picture
<1>6. \E row : RowOf(row) /\ users' = [v \in DOMAIN users |-> IF v = u THEN row ELSE users[v]]
  <2>1. CASE SetPassword(c, s)
    <3>1. RowOf([users[u] EXCEPT !.password = r.password])
      BY <1>3, <1>4, <1>5, <2>1
    <3>2. users' = [v \in DOMAIN users |-> IF v = u THEN [users[u] EXCEPT !.password = r.password] ELSE users[v]]
      BY <1>1, <1>4, <2>1 DEF UsersOK, SetPassword
    <3> QED
      BY <3>1, <3>2
  <2>2. CASE SetKey(c, s)
    <3>1. RowOf([users[u] EXCEPT !.picture = TRUE])
      <4>1. ~ SetPassword(c, s)
        BY <2>2 DEF SetPassword, SetKey
      <4> QED
        BY <1>4, <1>5, <4>1
    <3>2. users' = [v \in DOMAIN users |-> IF v = u THEN [users[u] EXCEPT !.picture = TRUE] ELSE users[v]]
      BY <1>1, <1>4, <2>2 DEF UsersOK, SetKey
    <3> QED
      BY <3>1, <3>2
  <2> QED
    BY <2>1, <2>2
<1>7. PICK row : RowOf(row) /\ users' = [v \in DOMAIN users |-> IF v = u THEN row ELSE users[v]]
  BY <1>6
<1>8. DOMAIN users' = DOMAIN users /\ users'[u] = row /\ \A v \in DOMAIN users \ {u} : users'[v] = users[v]
  BY <1>4, <1>7
<1>9. users' \in [DOMAIN users' -> [email : Emails, password : Passwords, picture : BOOLEAN]]
  BY <1>5, <1>7, <1>8
<1>10. \A v, w \in DOMAIN users' : v # w => users'[v].email # users'[w].email
  BY <1>1, <1>7, <1>8 DEF UsersOK, InUse
<1> QED
  BY <1>1, <1>4, <1>7, <1>8, <1>9, <1>10 DEF UsersOK, InUse

(* The user of the request goes, and no other.                             *)
LEMMA DeleteUserOK ==
  ASSUME Inv, NEW c \in Calls, NEW s \in Sent(c), DeleteUser(c, s), NEW u, u = Request(c).doc[2]
  PROVE  /\ UsersOK' /\ DOMAIN users' = DOMAIN users \ {u} /\ u \in DOMAIN users
         /\ Request(c).doc = User(u)
         /\ \A v \in DOMAIN users' : users'[v] = users[v]
<1>1. UsersOK
  BY TypeParts DEF Inv
<1>2. users' = [i \in DOMAIN users \ {u} |-> users[i]] /\ u \in DOMAIN users
  BY DEF DeleteUser
<1>3. Request(c).op = "removeEmployee" /\ Understood(c, Request(c))
  BY Sending DEF Inv, DeleteUser
<1>4. Request(c).doc = User(u)
  BY <1>3, SameUser DEF Understood
<1>5. DOMAIN users' = DOMAIN users \ {u} /\ \A v \in DOMAIN users' : users'[v] = users[v]
  BY <1>2
<1> QED
  BY <1>1, <1>2, <1>4, <1>5 DEF UsersOK, InUse

(* The writes to the customers.                                            *)
LEMMA InsertCustomerOK ==
  ASSUME Inv, NEW c \in Calls, NEW s \in Sent(c), InsertCustomer(c, s)
  PROVE  /\ CustomersOK' /\ DOMAIN customers' = DOMAIN customers \cup {c} /\ c \notin DOMAIN customers
         /\ \A k \in DOMAIN customers : customers'[k] = customers[k] /\ customers[k].phone # s.phone
         /\ customers'[c] = [phone |-> s.phone, email |-> s.email]
<1> DEFINE r == Request(c)
           row == [phone |-> s.phone, email |-> s.email]
<1>1. CustomersOK
  BY TypeParts DEF Inv
<1>2. /\ r.op \in {"signUpCustomer", "createCustomer"} /\ Understood(c, r)
      /\ \/ r.op = "signUpCustomer" /\ s = Inserts(Digits(r.phone), None)
         \/ r.op = "createCustomer" /\ s = Inserts(Groups(r.phone), r.email)
  BY Sending DEF Inv, InsertCustomer
<1>3. r.phone \in Phones /\ (r.op = "createCustomer" => r.email \in Emails \cup {None})
  BY <1>2 DEF Understood
<1>4. s.phone \in Numbers /\ s.email \in Emails \cup {None}
  BY <1>2, <1>3 DEF Inserts, Numbers
<1>5. row \in [phone : Numbers, email : Emails \cup {None}] /\ row.phone = s.phone
  BY <1>4
<1>6. \A k \in DOMAIN customers : customers[k].phone # s.phone
  <2>1. None \notin DOMAIN customers
    BY <1>1, OpeningAssumption DEF CustomersOK
  <2>2. customers \in [DOMAIN customers -> [phone : Numbers, email : Emails \cup {None}]]
    BY <1>1 DEF CustomersOK
  <2> QED
    BY <2>1, <2>2 DEF InsertCustomer, With
<1>7. c \in CustomerIds /\ c \notin DOMAIN customers
  BY DEF CustomerIds, Inv, Fresh, Unborn, InsertCustomer
<1> HIDE DEF row
<1>8. customers' = [i \in DOMAIN customers \cup {c} |-> IF i = c THEN row ELSE customers[i]]
  BY DEF InsertCustomer, Put, row
<1>9. DOMAIN customers' = DOMAIN customers \cup {c} /\ customers'[c] = row
      /\ \A k \in DOMAIN customers : customers'[k] = customers[k]
  BY <1>7, <1>8
<1>10. customers' \in [DOMAIN customers' -> [phone : Numbers, email : Emails \cup {None}]]
  BY <1>1, <1>5, <1>8, <1>9 DEF CustomersOK
<1>11. \A k, l \in DOMAIN customers' : k # l => customers'[k].phone # customers'[l].phone
  BY <1>1, <1>5, <1>6, <1>9 DEF CustomersOK, With
<1> QED
  BY <1>1, <1>6, <1>7, <1>9, <1>10, <1>11 DEF CustomersOK, With, row

(* The customer of the request gets a number that is nobody else's, or     *)
(* another e-mail, or both.                                                *)
LEMMA WriteCustomerOK ==
  ASSUME Inv, NEW c \in Calls, NEW s \in Sent(c), WriteCustomer(c, s), NEW k, k = Request(c).doc[2]
  PROVE  /\ CustomersOK' /\ DOMAIN customers' = DOMAIN customers /\ k \in DOMAIN customers
         /\ Request(c).doc = Customer(k) /\ s.phone \in Numbers \cup {None}
         /\ \A l \in DOMAIN customers \ {k} : customers'[l] = customers[l] /\ customers[l].phone # s.phone
         /\ customers'[k].phone = Else(s.phone, customers[k].phone)
         /\ customers'[k].email = Else(s.email, customers[k].email)
<1> DEFINE r == Request(c)
           row == [customers[k] EXCEPT !.phone = Else(s.phone, @), !.email = Else(s.email, @)]
<1>1. CustomersOK
  BY TypeParts DEF Inv
<1>2. /\ r.op \in {"updateMyPhoneNumber", "updateCustomer"} /\ Understood(c, r)
      /\ \/ r.op = "updateMyPhoneNumber" /\ s = Writes(Digits(r.phone), None)
         \/ r.op = "updateCustomer" /\ s = Writes(IF r.phone = None THEN None ELSE Groups(r.phone), r.email)
  BY Sending DEF Inv, WriteCustomer
<1>3. /\ r.phone \in Phones \cup {None} /\ (r.op = "updateMyPhoneNumber" => r.phone \in Phones)
      /\ (r.op = "updateCustomer" => r.email \in Emails \cup {None})
      /\ \E id \in CustomerIds : r.doc = Customer(id)
  BY <1>2 DEF Understood
<1>4. s.phone \in Numbers \cup {None} /\ s.email \in Emails \cup {None}
  BY <1>2, <1>3 DEF Writes, Numbers
<1>5. k \in DOMAIN customers /\ r.doc = Customer(k)
  BY <1>3, SameUser DEF WriteCustomer
<1>6. \A l \in DOMAIN customers : customers[l] \in [phone : Numbers, email : Emails \cup {None}]
  BY <1>1 DEF CustomersOK
<1>7. /\ row \in [phone : Numbers, email : Emails \cup {None}]
      /\ row.phone = Else(s.phone, customers[k].phone) /\ row.email = Else(s.email, customers[k].email)
  BY <1>4, <1>5, <1>6 DEF Else
<1>8. customers' = [l \in DOMAIN customers |-> IF l = k THEN row ELSE customers[l]]
  BY <1>1, <1>5, <1>6 DEF CustomersOK, WriteCustomer
<1> HIDE DEF row
<1>9. DOMAIN customers' = DOMAIN customers /\ customers'[k] = row
      /\ \A l \in DOMAIN customers \ {k} : customers'[l] = customers[l]
  BY <1>5, <1>8
<1>10. customers' \in [DOMAIN customers' -> [phone : Numbers, email : Emails \cup {None}]]
  BY <1>6, <1>7, <1>8, <1>9
<1>11. \A l \in DOMAIN customers \ {k} : customers[l].phone # s.phone /\ customers[l].phone # customers[k].phone
  BY <1>1, <1>5 DEF CustomersOK, With, WriteCustomer
<1>12. \A l, m \in DOMAIN customers' : l # m => customers'[l].phone # customers'[m].phone
  BY <1>1, <1>7, <1>9, <1>11 DEF CustomersOK, With, Else
<1> QED
  BY <1>1, <1>4, <1>5, <1>7, <1>9, <1>10, <1>11, <1>12 DEF CustomersOK, With

(* The customer of the request goes, and no other.                         *)
LEMMA DeleteCustomerOK ==
  ASSUME Inv, NEW c \in Calls, NEW s \in Sent(c), DeleteCustomer(c, s), NEW k, k = Request(c).doc[2]
  PROVE  /\ CustomersOK' /\ DOMAIN customers' = DOMAIN customers \ {k} /\ k \in DOMAIN customers
         /\ Request(c).doc = Customer(k)
         /\ \A l \in DOMAIN customers' : customers'[l] = customers[l]
<1>1. CustomersOK
  BY TypeParts DEF Inv
<1>2. customers' = [i \in DOMAIN customers \ {k} |-> customers[i]] /\ k \in DOMAIN customers
  BY DEF DeleteCustomer
<1>3. Request(c).op = "removeCustomer" /\ Understood(c, Request(c))
  BY Sending DEF Inv, DeleteCustomer
<1>4. Request(c).doc = Customer(k)
  BY <1>3, SameUser DEF Understood
<1>5. DOMAIN customers' = DOMAIN customers \ {k} /\ \A l \in DOMAIN customers' : customers'[l] = customers[l]
  BY <1>2
<1> QED
  BY <1>1, <1>2, <1>4, <1>5 DEF CustomersOK, With

(* The writes to the sessions.                                             *)
LEMMA OpenOK ==
  ASSUME Inv, second' = second, NEW a, a \notin DOMAIN session, Open(a),
         \/ \E id : a = User(id) /\ DOMAIN users' = DOMAIN users \cup {id} /\ UNCHANGED customers
         \/ \E id : a = Customer(id) /\ DOMAIN customers' = DOMAIN customers \cup {id} /\ UNCHANGED users
  PROVE  /\ SessionsOK' /\ DOMAIN session' = DOMAIN session \cup {a} /\ session'[a] = None
         /\ \A b \in DOMAIN session : session'[b] = session[b]
<1>1. SessionsOK
  BY TypeParts DEF Inv
<1>2. session' = [b \in DOMAIN session \cup {a} |-> IF b = a THEN None ELSE session[b]]
  BY DEF Open, Put
<1>3. DOMAIN session' = DOMAIN session \cup {a} /\ session'[a] = None /\ \A b \in DOMAIN session : session'[b] = session[b]
  BY <1>2
<1>4. DOMAIN session' = {User(id) : id \in DOMAIN users'} \cup {Customer(id) : id \in DOMAIN customers'}
  <2>1. \A b : b \in DOMAIN session <=> (\E i \in DOMAIN users : b = User(i)) \/ \E j \in DOMAIN customers : b = Customer(j)
    BY <1>1 DEF SessionsOK
  <2>2. \A b : b \in DOMAIN session' <=> (\E i \in DOMAIN users' : b = User(i)) \/ \E j \in DOMAIN customers' : b = Customer(j)
    BY <1>3, <2>1
  <2> QED
    BY <2>2
<1>5. session' = [b \in DOMAIN session' |-> session'[b]]
  BY <1>2
<1>6. \A b \in DOMAIN session' : session'[b] \in {b} \X (0..second') \cup {None}
  BY <1>1, <1>3 DEF SessionsOK
<1> QED
  BY <1>3, <1>4, <1>5, <1>6 DEF SessionsOK

(* The session of an account that goes goes with it.                       *)
LEMMA RemoveOK ==
  ASSUME Inv, second' = second, NEW a, Remove(a),
         \/ \E id : a = User(id) /\ DOMAIN users' = DOMAIN users \ {id} /\ UNCHANGED customers
         \/ \E id : a = Customer(id) /\ DOMAIN customers' = DOMAIN customers \ {id} /\ UNCHANGED users
  PROVE  /\ SessionsOK' /\ DOMAIN session' = DOMAIN session \ {a}
         /\ \A b \in DOMAIN session' : session'[b] = session[b]
<1>1. SessionsOK
  BY TypeParts DEF Inv
<1>2. session' = [b \in DOMAIN session \ {a} |-> session[b]]
  BY DEF Remove
<1>3. DOMAIN session' = DOMAIN session \ {a} /\ \A b \in DOMAIN session' : session'[b] = session[b]
  BY <1>2
<1>4. DOMAIN session' = {User(id) : id \in DOMAIN users'} \cup {Customer(id) : id \in DOMAIN customers'}
  <2>1. \A b : b \in DOMAIN session <=> (\E i \in DOMAIN users : b = User(i)) \/ \E j \in DOMAIN customers : b = Customer(j)
    BY <1>1 DEF SessionsOK
  <2>2. \A i, j : User(i) # Customer(j) /\ (User(i) = User(j) => i = j) /\ (Customer(i) = Customer(j) => i = j)
    BY UserNotCustomer, SameUser
  <2>3. \A b : b \in DOMAIN session' <=> (\E i \in DOMAIN users' : b = User(i)) \/ \E j \in DOMAIN customers' : b = Customer(j)
    BY <1>3, <2>1, <2>2
  <2> QED
    BY <2>3
<1>5. session' = [b \in DOMAIN session' |-> session'[b]]
  BY <1>2
<1>6. \A b \in DOMAIN session' : session'[b] \in {b} \X (0..second') \cup {None}
  BY <1>1, <1>3 DEF SessionsOK
<1> QED
  BY <1>3, <1>4, <1>5, <1>6 DEF SessionsOK

(* An account that is there gets another token, or none.                   *)
LEMMA ReplaceOK ==
  ASSUME Inv, second' = second, NEW a, NEW t \in {a} \X (0..second) \cup {None},
         session' = [b \in DOMAIN session |-> IF b = a THEN t ELSE session[b]],
         DOMAIN users' = DOMAIN users, UNCHANGED customers
  PROVE  SessionsOK'
<1>1. SessionsOK
  BY TypeParts DEF Inv
<1>2. DOMAIN session' = DOMAIN session /\ \A b \in DOMAIN session : session'[b] = IF b = a THEN t ELSE session[b]
  OBVIOUS
<1> QED
  BY <1>1, <1>2 DEF SessionsOK
-----------------------------------------------------------------------------
(* A call at work is on a document; what is disturbed stays so.            *)
LEMMA DocsOfCalls ==
  ASSUME Inv, NEW c \in Calls, Running(c)
  PROVE  Request(c).doc \in Docs
<1>1. Understood(c, Request(c)) /\ User(c) \in AllAccounts /\ Customer(c) \in AllAccounts
  BY DEF Inv, CallsOK, AllAccounts, UserIds, CustomerIds
<1>2. /\ Request(c).doc \in {User(id) : id \in UserIds} => Request(c).doc \in AllAccounts
      /\ Request(c).doc \in {Customer(id) : id \in CustomerIds} => Request(c).doc \in AllAccounts
  BY DEF AllAccounts
<1>3. Request(c).doc \in AllAccounts \/ \E p \in Phones : Request(c).doc = <<"code", p>>
  BY <1>1, <1>2 DEF Understood
<1> QED
  BY <1>3 DEF Docs

(* What has been disturbed stays so.                                       *)
LEMMA DisturbedGrows ==
  ASSUME Inv, NEW c \in Calls, NEW s \in Sent(c), Acts(c, s)
  PROVE  disturbed \subseteq disturbed' /\ disturbed' \subseteq Docs
<1>1. disturbed \subseteq Docs /\ \A b \in Calls : Running(b) => Request(b).doc \in Docs
  BY DocsOfCalls DEF Inv, TypeOK
<1>2. Running(c) /\ \A b \in Calls : \A t \in Sent(b) : Running(b)
  BY DEF Sent
<1>3. CASE UNCHANGED disturbed
  BY <1>1, <1>3
<1>4. CASE \E condition : DisturbIf(c, condition)
  BY <1>1, <1>2, <1>4 DEF DisturbIf
<1>5. CASE \E given, taken, condition : DisturbRivals(c, given, taken, condition)
  BY <1>1, <1>2, <1>5 DEF DisturbRivals, Giving
<1>6. CASE \E number : DisturbValidations(number)
  BY <1>1, <1>6 DEF DisturbValidations
<1>7. ASSUME SessionStep(c, s) PROVE UNCHANGED disturbed
  BY <1>7 DEF SessionStep, SignTokens, StoreHash, LogOut, RefreshToken
<1>8. ASSUME StaffStep(c, s)
      PROVE  UNCHANGED disturbed \/ \E given, taken, condition : DisturbRivals(c, given, taken, condition)
  <2>1. CASE SignUp(c, s) \/ CreateEmployee(c, s)
    <3>1. UNCHANGED disturbed \/ DisturbRivals(c, Request(c).email, None, FALSE)
      BY <2>1 DEF SignUp, CreateEmployee
    <3> QED
      BY <3>1
  <2>2. CASE UpdateAccount(c, s)
    <3>1. UNCHANGED disturbed \/ DisturbRivals(c, Request(c).email, users[Request(c).doc[2]].email, Busy(c))
      BY <2>2 DEF UpdateAccount
    <3> QED
      BY <3>1
  <2>3. CASE RemoveEmployee(c, s)
    <3>1. UNCHANGED disturbed \/ DisturbRivals(c, None, users[Request(c).doc[2]].email, Busy(c))
      BY <2>3 DEF RemoveEmployee
    <3> QED
      BY <3>1
  <2> QED
    BY <1>8, <2>1, <2>2, <2>3
       DEF StaffStep, InsertUser, Allow, Disallow, LogIn, ReadUserForPassword, SetPassword, UpdateUser, SetKey,
           UploadPicture, DeleteUser
<1>9. ASSUME StorefrontStep(c, s) PROVE UNCHANGED disturbed \/ \E number : DisturbValidations(number)
  <2>1. CASE WriteCustomer(c, s)
    BY <2>1 DEF WriteCustomer
  <2>2. CASE GetCustomer(c, s)
    BY <2>2 DEF GetCustomer
  <2>3. CASE SendOtp(c, s)
    BY <2>3 DEF SendOtp
  <2>4. CASE DeleteCustomer(c, s)
    BY <2>4 DEF DeleteCustomer
  <2> QED
    BY <1>9, <2>1, <2>2, <2>3, <2>4
       DEF StorefrontStep, InsertCustomer, ValidateOtp, FindCustomer, ForgetCode, SignUpCustomer, SendChangeOtp,
           AcceptCode, CreateCustomer, UpdateCustomer, ReadCustomer
<1>10. ASSUME Lose(c, s) PROVE \E condition : DisturbIf(c, condition)
  BY <1>10 DEF Lose
<1> QED
  BY <1>3, <1>4, <1>5, <1>6, <1>7, <1>8, <1>9, <1>10 DEF Acts

(* What a step adds to the tables.                                         *)
LEMMA StaffStepOK ==
  ASSUME Inv, NEW c \in Calls, NEW s \in Sent(c), StaffStep(c, s), UNCHANGED <<storefront, second>>
  PROVE  /\ UsersOK' /\ CustomersOK' /\ SessionsOK' /\ MapsOK'
         /\ \/ DOMAIN users' \subseteq DOMAIN users
            \/ s.op = "insertUser" /\ DOMAIN users' = DOMAIN users \cup {c}
         /\ DOMAIN customers' = DOMAIN customers
<1>1. UsersOK /\ CustomersOK /\ SessionsOK /\ MapsOK /\ UNCHANGED customers /\ CustomersOK'
  BY TypeParts DEF Inv, storefront, CustomersOK, With
<1>2. CASE UNCHANGED <<staff, session>>
  BY <1>1, <1>2 DEF UsersOK, InUse, SessionsOK, MapsOK, staff, storefront
<1>3. CASE InsertUser(c, s)
  <2>1. User(c) \notin DOMAIN session /\ Open(User(c))
    BY <1>1, <1>3, InsertUserOK, SessionOf DEF InsertUser
  <2>2. SessionsOK'
    BY <1>1, <1>3, <2>1, InsertUserOK, OpenOK
  <2> QED
    BY <1>1, <1>3, <2>2, InsertUserOK DEF InsertUser, MapsOK, storefront
<1>4. CASE Allow(c, s)
  <2>1. Understood(c, Request(c)) /\ Request(c).op \in {"createEmployee", "updateEmployee", "updateMe"}
        /\ s = Allows(Request(c).email)
    BY <1>4, Sending DEF Allow, Inv
  <2>2. s.email \in Emails
    BY <2>1 DEF Understood, Allows
  <2> QED
    BY <1>1, <1>4, <2>2 DEF Allow, UsersOK, InUse, SessionsOK, MapsOK, storefront
<1>5. CASE Disallow(c, s)
  BY <1>1, <1>5 DEF Disallow, UsersOK, InUse, SessionsOK, MapsOK, storefront
<1>6. CASE SetPassword(c, s)
  <2>1. DOMAIN users' = DOMAIN users /\ UsersOK'
    BY <1>6, SetFieldOK
  <2>2. session' = [b \in DOMAIN session |-> IF b = Request(c).doc THEN None ELSE session[b]]
    BY <1>1, <1>6 DEF SetPassword, SessionsOK
  <2>3. SessionsOK'
    BY <1>1, <2>1, <2>2, ReplaceOK
  <2> QED
    BY <1>1, <1>6, <2>1, <2>3 DEF SetPassword, MapsOK, storefront
<1>7. CASE UpdateUser(c, s)
  <2>1. DOMAIN users' = DOMAIN users /\ UsersOK'
    BY <1>7, UpdateUserOK
  <2> QED
    BY <1>1, <1>7, <2>1 DEF UpdateUser, MapsOK, SessionsOK, storefront
<1>8. CASE SetKey(c, s)
  <2>1. DOMAIN users' = DOMAIN users /\ UsersOK'
    BY <1>8, SetFieldOK
  <2> QED
    BY <1>1, <1>8, <2>1 DEF SetKey, MapsOK, SessionsOK, storefront
<1>9. CASE UploadPicture(c, s)
  <2>1. Understood(c, Request(c)) /\ Request(c).op \in {"updateEmployee", "updateMe"}
    BY <1>9, Sending DEF UploadPicture, Inv
  <2>2. Request(c).doc[2] \in UserIds
    BY <2>1, SameUser DEF Understood
  <2> QED
    BY <1>1, <1>9, <2>2 DEF UploadPicture, UsersOK, InUse, SessionsOK, MapsOK, storefront
<1>10. CASE DeleteUser(c, s)
  <2>1. /\ DOMAIN users' = DOMAIN users \ {Request(c).doc[2]} /\ UsersOK'
        /\ Remove(User(Request(c).doc[2]))
    BY <1>10, DeleteUserOK DEF DeleteUser
  <2>2. SessionsOK'
    BY <1>1, <2>1, RemoveOK
  <2> QED
    BY <1>1, <1>10, <2>1, <2>2 DEF DeleteUser, MapsOK, storefront
<1> QED
  BY <1>2, <1>3, <1>4, <1>5, <1>6, <1>7, <1>8, <1>9, <1>10
     DEF StaffStep, SignUp, LogIn, ReadUserForPassword, CreateEmployee, UpdateAccount, RemoveEmployee, staff

(* The steps of the storefront's services keep the tables and the maps.    *)
LEMMA StorefrontStepOK ==
  ASSUME Inv, NEW c \in Calls, NEW s \in Sent(c), StorefrontStep(c, s), UNCHANGED <<staff, second>>
  PROVE  /\ UsersOK' /\ CustomersOK' /\ SessionsOK' /\ MapsOK'
         /\ \/ DOMAIN customers' \subseteq DOMAIN customers
            \/ s.op = "insertCustomer" /\ DOMAIN customers' = DOMAIN customers \cup {c}
         /\ DOMAIN users' = DOMAIN users
<1>1. UsersOK /\ CustomersOK /\ SessionsOK /\ MapsOK /\ UNCHANGED <<users, allowed, pictures>> /\ UsersOK'
  BY TypeParts DEF Inv, staff, UsersOK, InUse
<1>2. CASE UNCHANGED <<customers, session, codes, changeCodes>>
  BY <1>1, <1>2 DEF CustomersOK, With, SessionsOK, MapsOK
<1>3. CASE InsertCustomer(c, s)
  <2>1. Customer(c) \notin DOMAIN session /\ Open(Customer(c))
    BY <1>1, <1>3, InsertCustomerOK, SessionOf DEF InsertCustomer
  <2>2. SessionsOK'
    BY <1>1, <1>3, <2>1, InsertCustomerOK, OpenOK
  <2> QED
    BY <1>1, <1>3, <2>2, InsertCustomerOK DEF InsertCustomer, MapsOK
<1>4. CASE WriteCustomer(c, s)
  <2>1. DOMAIN customers' = DOMAIN customers /\ CustomersOK'
    BY <1>4, WriteCustomerOK
  <2> QED
    BY <1>1, <1>4, <2>1 DEF WriteCustomer, MapsOK, SessionsOK
<1>5. CASE DeleteCustomer(c, s)
  <2>1. /\ DOMAIN customers' = DOMAIN customers \ {Request(c).doc[2]} /\ CustomersOK'
        /\ Remove(Customer(Request(c).doc[2]))
    BY <1>5, DeleteCustomerOK DEF DeleteCustomer
  <2>2. SessionsOK'
    BY <1>1, <2>1, RemoveOK
  <2> QED
    BY <1>1, <1>5, <2>1, <2>2 DEF DeleteCustomer, MapsOK, codesAndHistory
<1>6. CASE UNCHANGED <<customers, session>> /\ codes' \in [Phones -> Calls \cup {None}]
           /\ changeCodes' \in [Phones -> Calls \cup {None}]
  BY <1>1, <1>6 DEF CustomersOK, With, SessionsOK, MapsOK
<1>7. CASE SendOtp(c, s)
  <2>1. codes' \in [Phones -> Calls \cup {None}] /\ UNCHANGED <<customers, session, changeCodes>>
    BY <1>1, <1>7 DEF SendOtp, MapsOK
  <2> QED
    BY <1>1, <1>6, <2>1 DEF MapsOK
<1>8. CASE ForgetCode(c, s)
  <2>1. codes' \in [Phones -> Calls \cup {None}] /\ UNCHANGED <<customers, session, changeCodes>>
    BY <1>1, <1>8 DEF ForgetCode, MapsOK
  <2> QED
    BY <1>1, <1>6, <2>1 DEF MapsOK
<1>9. CASE SendChangeOtp(c, s) \/ AcceptCode(c, s)
  <2>1. changeCodes' \in [Phones -> Calls \cup {None}] /\ UNCHANGED <<customers, session, codes>>
    BY <1>1, <1>9 DEF SendChangeOtp, AcceptCode, MapsOK
  <2> QED
    BY <1>1, <1>6, <2>1 DEF MapsOK
<1> QED
  BY <1>2, <1>3, <1>4, <1>5, <1>7, <1>8, <1>9
     DEF StorefrontStep, ValidateOtp, FindCustomer, GetCustomer, SignUpCustomer, CreateCustomer, UpdateCustomer,
         ReadCustomer, storefront

(* The steps of the sessions keep the tables and put tokens of the past    *)
(* into force.                                                             *)
LEMMA SessionStepOK ==
  ASSUME Inv, NEW c \in Calls, NEW s \in Sent(c), SessionStep(c, s), UNCHANGED <<staff, storefront, second>>
  PROVE  /\ UsersOK' /\ CustomersOK' /\ SessionsOK' /\ MapsOK'
         /\ DOMAIN users' = DOMAIN users /\ DOMAIN customers' = DOMAIN customers
<1>1. UsersOK /\ CustomersOK /\ SessionsOK /\ MapsOK
  BY TypeParts DEF Inv
<1>2. UsersOK' /\ CustomersOK' /\ MapsOK' /\ DOMAIN users' = DOMAIN users /\ DOMAIN customers' = DOMAIN customers
      /\ UNCHANGED customers
  BY <1>1 DEF UsersOK, InUse, CustomersOK, With, MapsOK, staff, storefront
<1>3. CASE UNCHANGED session
  BY <1>1, <1>2, <1>3 DEF SessionsOK
<1>4. CASE StoreHash(c, s)
  <2>1. PICK a \in AllAccounts : \E t \in TokensOf(a) : t[2] <= second /\ s = Store(a, t)
    BY <1>4, Sending DEF Inv, StoreHash
  <2>2. PICK t \in TokensOf(a) : t[2] <= second /\ s = Store(a, t)
    BY <2>1
  <2>3. t \in {a} \X (0..second)
    <3>1. second \in Nat
      BY DEF Inv, Tables
    <3> QED
      BY <2>2, <3>1 DEF TokensOf
  <2>4. session' = [session EXCEPT ![a] = t]
    BY <1>4, <2>2 DEF StoreHash, Store
  <2>5. session' = [b \in DOMAIN session |-> IF b = a THEN t ELSE session[b]]
    BY <1>1, <2>4 DEF SessionsOK
  <2>6. SessionsOK'
    BY <1>2, <2>3, <2>5, ReplaceOK
  <2> QED
    BY <1>2, <2>6
<1>5. CASE LogOut(c, s)
  <2>1. SessionsOK'
    BY <1>2, <1>5, ReplaceOK DEF LogOut
  <2> QED
    BY <1>2, <2>1
<1> QED
  BY <1>3, <1>4, <1>5 DEF SessionStep, SignTokens, RefreshToken

(* The invariant holds after a step of a call.                             *)
LEMMA ServeInv ==
  ASSUME Inv, NEW c \in Calls, Serve(c)
  PROVE  Inv' /\ disturbed \subseteq disturbed'
<1>1. PICK s \in Sent(c) :
        /\ \/ SessionStep(c, s) /\ UNCHANGED <<staff, storefront>>
           \/ StaffStep(c, s) /\ UNCHANGED storefront
           \/ StorefrontStep(c, s) /\ UNCHANGED staff
           \/ Lose(c, s) /\ UNCHANGED <<staff, storefront, session>>
        /\ UNCHANGED <<second, overlapped>>
  BY DEF Serve
<1>2. Acts(c, s) /\ Running(c)
  BY <1>1 DEF Acts, Sent
<1>3. /\ UsersOK' /\ CustomersOK' /\ SessionsOK' /\ MapsOK'
      /\ \/ DOMAIN users' \subseteq DOMAIN users /\ DOMAIN customers' \subseteq DOMAIN customers
         \/ /\ s.op \in {"insertUser", "insertCustomer"}
            /\ DOMAIN users' \subseteq DOMAIN users \cup {c} /\ DOMAIN customers' \subseteq DOMAIN customers \cup {c}
  <2>1. CASE Lose(c, s) /\ UNCHANGED <<staff, storefront, session>>
    <3>1. UsersOK /\ CustomersOK /\ SessionsOK /\ MapsOK
      BY TypeParts DEF Inv
    <3> QED
      BY <1>1, <2>1, <3>1 DEF UsersOK, InUse, CustomersOK, With, MapsOK, SessionsOK, staff, storefront
  <2>2. CASE SessionStep(c, s) /\ UNCHANGED <<staff, storefront>>
    BY <1>1, <2>2, SessionStepOK
  <2>3. CASE StaffStep(c, s) /\ UNCHANGED storefront
    BY <1>1, <2>3, StaffStepOK
  <2>4. CASE StorefrontStep(c, s) /\ UNCHANGED staff
    BY <1>1, <2>4, StorefrontStepOK
  <2> QED
    BY <1>1, <2>1, <2>2, <2>3, <2>4
<1>4. disturbed \subseteq disturbed' /\ disturbed' \subseteq Docs
  BY <1>2, DisturbedGrows
<1>5. second' \in 1..LastSecond
  BY <1>1 DEF Inv, Tables
<1>6. Tables' /\ TypeOK'
  <2>1. (second \in 1..LastSecond /\ UsersOK /\ CustomersOK /\ SessionsOK /\ MapsOK /\ disturbed \subseteq Docs)'
    BY <1>3, <1>4, <1>5
  <2>2. (Tables /\ TypeOK)'
    BY <2>1 DEF Tables, TypeOK, UsersOK, CustomersOK, SessionsOK, MapsOK
  <2> QED
    BY <2>2
<1>7. /\ Moved(c)
      /\ \A t \in Sent(c)' : t.op # "read" /\ (s.op = "read" \/ t \in Sent(c) \ {s} \/ t.op \in Turns)
  BY <1>2, Moves DEF Inv
<1>8. CallsOK'
  BY <1>1, <1>2, <1>7, CallsKept DEF Inv
<1>9. Fresh'
  <2>1. \A b \in Calls \ {c} : Unborn(b)' <=> Unborn(b)
    BY <1>7, Others DEF Unborn, Moved, Alone
  <2>2. Unborn(c)' => Unborn(c) /\ s.op \notin {"insertUser", "insertCustomer"}
    <3>1. SUFFICES ASSUME Unborn(c)' PROVE Unborn(c) /\ s.op \notin {"insertUser", "insertCustomer"}
      OBVIOUS
    <3>2. PICK t \in Sent(c)' : t.op \in {"insertUser", "insertCustomer"} /\ (s.op = "read" \/ t \in Sent(c) \ {s})
      BY <1>7, <3>1 DEF Unborn, Moved, Turns
    <3>3. CASE s.op = "read"
      BY <3>3 DEF Unborn
    <3>4. CASE t \in Sent(c) \ {s}
      <4>1. s.op \notin {"insertUser", "insertCustomer"}
        <5>1. t.op = "insertUser" => t = Insert(c)
          BY <3>4, Sending DEF Inv
        <5>2. s.op = "insertUser" => /\ s = Insert(c) /\ \A x \in Sent(c) : x = s \/ x = Allows(Request(c).email)
          <6>1. \A x, y : Head(<<x, y>>) = x /\ Head(<<x>>) = x
            OBVIOUS
          <6>2. Sent(c) = Head(call[c].stages)
            BY <1>2 DEF Sent
          <6> QED
            BY <6>1, <6>2, Sending DEF Inv
        <5>3. s.op = "insertCustomer" => Sent(c) = {s}
          BY Sending DEF Inv, Sent
        <5> QED
          BY <3>2, <3>4, <5>1, <5>2, <5>3 DEF Allows
      <4> QED
        BY <3>2, <3>4, <4>1 DEF Unborn
    <3> QED
      BY <3>2, <3>3, <3>4
  <2> QED
    BY <1>3, <2>1, <2>2 DEF Fresh, Inv
<1> QED
  BY <1>4, <1>6, <1>8, <1>9 DEF Inv

(* The invariant holds to begin with.                                      *)
LEMMA InitInv == Init => Inv
<1> SUFFICES ASSUME Init PROVE Inv
  OBVIOUS
<1>1. CallsOK
  BY DEF Init, HandlersInit, CallsOK, Shaped, Record, Running, Blank
<1>2. UsersOK
  BY OpeningAssumption DEF Init, UsersOK, InUse, UserIds
<1>3. CustomersOK
  BY OpeningAssumption DEF Init, CustomersOK, With, CustomerIds
<1>4. SessionsOK
  <2>1. 0 \in 0..second
    BY DEF Init, SessionsInit
  <2> QED
    BY <2>1 DEF Init, SessionsInit, SessionsOK
<1>5. MapsOK /\ disturbed \subseteq Docs /\ second \in 1..LastSecond
  BY OpeningAssumption, SecondsAssumption DEF Init, MapsOK, HandlersInit, SessionsInit, NoCodes
<1>6. Tables /\ TypeOK
  BY <1>2, <1>3, <1>4, <1>5, TypeParts
<1>7. Fresh
  BY OpeningAssumption DEF Init, Fresh
<1> QED
  BY <1>1, <1>6, <1>7 DEF Inv

(* A request arrives: its call is to read, and nothing else has changed.   *)
LEMMA ReceiveMoves ==
  ASSUME Inv, NEW c \in Calls, ReceiveRequest(c)
  PROVE  /\ Shaped' /\ Alone(c) /\ call[c].at = "idle" /\ ~ Running(c)
         /\ Running(c)' /\ call'[c].stages = Reading /\ Sent(c)' = {Bare("read")} /\ Sent(c) = {}
         /\ Understood(c, Request(c)')
         /\ UNCHANGED <<staff, storefront, second, session, disturbed>>
         /\ overlapped' = (overlapped \/ \E b \in Calls : Running(b))
<1>1. PICK r \in Requests[c] :
        /\ Receive(c, [r EXCEPT !.doc[2] = IF @ = None THEN c ELSE @])
        /\ overlapped' = (overlapped \/ \E b \in Calls : Running(b))
        /\ UNCHANGED <<staff, storefront, second, session>>
  BY DEF ReceiveRequest
<1> DEFINE q == [r EXCEPT !.doc[2] = IF @ = None THEN c ELSE @]
<1>2. Understood(c, q)
  BY RequestsUnderstood
<1> HIDE DEF q
<1>3. Receive(c, q) /\ UNCHANGED disturbed
  BY <1>1 DEF q, Receive
<1>4. /\ Shaped' /\ Alone(c) /\ call[c].at = "idle"
      /\ call'[c].at = "running" /\ call'[c].request = q /\ call'[c].stages = Reading
  BY <1>3, ReceiveEffect DEF Inv, CallsOK
<1>5. Running(c)' /\ ~ Running(c) /\ Request(c)' = q /\ Sent(c)' = {Bare("read")} /\ Sent(c) = {}
  BY <1>4 DEF Running, Request, Sent, Reading, Bare
<1> QED
  BY <1>1, <1>2, <1>3, <1>4, <1>5

(* A call that arrives keeps the invariant.                                *)
LEMMA ReceiveInv ==
  ASSUME Inv, NEW c \in Calls, ReceiveRequest(c)
  PROVE  Inv'
<1>1. /\ Shaped' /\ Alone(c) /\ call[c].at = "idle"
      /\ Running(c)' /\ call'[c].stages = Reading /\ Understood(c, Request(c)')
      /\ UNCHANGED <<staff, storefront, second, session, disturbed>>
  BY ReceiveMoves
<1>2. CallsOK'
  <2> SUFFICES ASSUME NEW b \in Calls, Running(b)'
               PROVE  (Understood(b, Request(b)) /\ Plan(b, Request(b), call[b].stages))'
    BY <1>1 DEF CallsOK, Understood
  <2>1. CASE b = c
    BY <1>1, <2>1 DEF Plan, Reading
  <2>2. CASE b # c
    <3>1. call'[b] = call[b] /\ Running(b) /\ Request(b)' = Request(b)
      BY <1>1, <2>2 DEF Alone, Running, Request
    <3>2. Understood(b, Request(b)) /\ Plan(b, Request(b), call[b].stages)
      BY <3>1 DEF Inv, CallsOK
    <3> QED
      BY <1>1, <3>1, <3>2 DEF Plan, SessionPlan, StaffPlan, StorefrontPlan, Understood
  <2> QED
    BY <2>1, <2>2
<1>3. Tables' /\ TypeOK'
  BY <1>1 DEF Inv, Tables, TypeOK, InUse, With, staff, storefront
<1>4. Fresh'
  <2>1. \A b \in Calls \ {c} : Unborn(b)' <=> Unborn(b)
    BY <1>1 DEF Alone, Unborn, Sent, Running
  <2>2. Unborn(c)
    BY <1>1 DEF Unborn
  <2> QED
    BY <1>1, <2>1, <2>2 DEF Inv, Fresh, staff, storefront
<1> QED
  BY <1>2, <1>3, <1>4 DEF Inv

(* Time keeps the invariant: the tokens in force and those on their way    *)
(* stay in the past.                                                       *)
LEMMA PassSecondInv ==
  ASSUME Inv, PassSecond
  PROVE  Inv'
<1>1. UNCHANGED <<staff, storefront, session, call, disturbed>> /\ second' = second + 1 /\ second' \in 1..LastSecond
  BY SecondsAssumption DEF PassSecond, Tick, Inv, Tables
<1>2. second \in Nat
  BY DEF Inv, Tables
<1>3. \A a : session[a] \in {a} \X (0..second) \cup {None} => session[a] \in {a} \X (0..second') \cup {None}
  BY <1>1, <1>2
<1>4. Tables' /\ TypeOK'
  BY <1>1, <1>3 DEF Inv, Tables, TypeOK, InUse, With, staff, storefront
<1>5. \A r, st : SessionPlan(r, st) => SessionPlan(r, st)'
  <2> SUFFICES ASSUME NEW r, NEW st, SessionPlan(r, st) PROVE SessionPlan(r, st)'
    OBVIOUS
  <2>1. PICK a \in AllAccounts : \/ st = <<{Sign(a)}>>
                                 \/ \E t \in TokensOf(a) : t[2] <= second /\ st = <<{Store(a, t)}>>
    BY DEF SessionPlan
  <2>2. \A t \in TokensOf(a) : t[2] <= second => t[2] <= second + 1
    BY <1>2, SecondsAssumption DEF TokensOf
  <2> QED
    BY <1>1, <2>1, <2>2 DEF SessionPlan
<1>6. CallsOK'
  <2>1. \A b : (Running(b)' <=> Running(b)) /\ Request(b)' = Request(b) /\ call'[b] = call[b]
    BY <1>1 DEF Running, Request
  <2>2. \A b, r, st : Plan(b, r, st) => Plan(b, r, st)'
    BY <1>5 DEF Plan, StaffPlan, StorefrontPlan
  <2>3. Shaped'
    BY <1>1 DEF Inv, CallsOK, Shaped
  <2> SUFFICES ASSUME NEW b \in Calls, Running(b)'
               PROVE  (Understood(b, Request(b)) /\ Plan(b, Request(b), call[b].stages))'
    BY <2>3 DEF CallsOK, Understood
  <2>4. Understood(b, Request(b)) /\ Plan(b, Request(b), call[b].stages)
    BY <2>1 DEF Inv, CallsOK
  <2> QED
    BY <2>1, <2>2, <2>4 DEF Plan, SessionPlan
<1>7. Fresh'
  BY <1>1 DEF Inv, Fresh, Unborn, Sent, Running, staff, storefront
<1> QED
  BY <1>4, <1>6, <1>7 DEF Inv

(* The server stops: no call runs.                                         *)
LEMMA CrashMoves ==
  ASSUME Inv, Crash
  PROVE  /\ Shaped'
         /\ \A c \in Calls : /\ ~ Running(c)' /\ Sent(c)' = {}
                             /\ call'[c].at = "idle" <=> call[c].at = "idle"
                             /\ Past(c) => Request(c).doc \in disturbed'
         /\ disturbed \subseteq disturbed' /\ disturbed' \subseteq Docs
<1>1. Restart /\ Shaped
  BY DEF Crash, Inv, CallsOK
<1>2. \A c \in Calls : IF Running(c) THEN call'[c] = [Blank EXCEPT !.at = "aborted"] ELSE call'[c] = call[c]
  BY <1>1, RestartEffect
<1>3. \A c \in Calls : ~ Running(c)' /\ Sent(c)' = {} /\ (call'[c].at = "idle" <=> call[c].at = "idle")
  BY <1>2 DEF Running, Sent, Blank
<1>4. disturbed' = disturbed \cup {Request(c).doc : c \in {c \in Calls : Past(c)}}
  BY <1>1 DEF Restart, Past, Reading
<1>5. \A c \in Calls : Past(c) => Request(c).doc \in Docs
  BY DocsOfCalls DEF Past
<1> QED
  BY <1>1, <1>3, <1>4, <1>5, RestartEffect DEF Inv, TypeOK

(* A restart keeps the invariant: the maps are empty and the tables are as *)
(* they were.                                                              *)
LEMMA CrashInv ==
  ASSUME Inv, Crash
  PROVE  Inv'
<1>1. UNCHANGED <<users, allowed, pictures, customers, second, session>> /\ codes' = NoCodes /\ changeCodes' = NoCodes
  BY DEF Crash, ForgetCodes, staff
<1>2. Shaped' /\ disturbed' \subseteq Docs
      /\ \A c \in Calls : ~ Running(c)' /\ Sent(c)' = {} /\ (call'[c].at = "idle" <=> call[c].at = "idle")
  BY CrashMoves
<1>3. CallsOK'
  BY <1>2 DEF CallsOK
<1>4. Tables' /\ TypeOK'
  BY <1>1, <1>2 DEF Inv, Tables, TypeOK, InUse, With, NoCodes
<1>5. Fresh'
  BY <1>1, <1>2 DEF Inv, Fresh, Unborn
<1> QED
  BY <1>3, <1>4, <1>5 DEF Inv

(* So does a step in which nothing happens.                                *)
LEMMA StutterInv ==
  ASSUME Inv, UNCHANGED vars
  PROVE  Inv'
<1>1. UNCHANGED <<call, second>> /\ CallsOK
  BY DEF vars, Inv
<1>2. CallsOK'
  <2>1. \A b : (Running(b)' <=> Running(b)) /\ Request(b)' = Request(b) /\ call'[b] = call[b]
    BY <1>1 DEF Running, Request
  <2>2. \A b, r, st : Plan(b, r, st) => Plan(b, r, st)'
    BY <1>1 DEF Plan, SessionPlan, StaffPlan, StorefrontPlan
  <2>3. Shaped'
    BY <1>1 DEF CallsOK, Shaped
  <2> SUFFICES ASSUME NEW b \in Calls, Running(b)'
               PROVE  (Understood(b, Request(b)) /\ Plan(b, Request(b), call[b].stages))'
    BY <2>3 DEF CallsOK, Understood
  <2>4. Understood(b, Request(b)) /\ Plan(b, Request(b), call[b].stages)
    BY <2>1, <1>1 DEF CallsOK
  <2> QED
    BY <2>1, <2>2, <2>4 DEF Plan, SessionPlan
<1>3. Tables' /\ TypeOK'
  BY DEF vars, staff, storefront, Inv, Tables, TypeOK, InUse, With
<1>4. Fresh'
  BY DEF vars, staff, storefront, Inv, Fresh, Unborn, Sent, Running
<1> QED
  BY <1>2, <1>3, <1>4 DEF Inv

(* Every step keeps the invariant.                                         *)
LEMMA InvStep ==
  ASSUME Inv, [Next]_vars
  PROVE  Inv'
BY ServeInv, ReceiveInv, PassSecondInv, CrashInv, StutterInv DEF Next

(* The tables, the maps and the calls hold what they are meant to, whatever*)
(* the handlers of both AuthServices, EmployeesService, UsersService and   *)
(* the two CustomersServices do side by side, and whatever fails.          *)
THEOREM TypeCorrect == Spec => []TypeOK
<1>1. Inv /\ [Next]_vars => Inv'
  BY InvStep
<1>2. Inv => TypeOK
  BY DEF Inv
<1> QED
  BY <1>1, <1>2, InitInv, PTL DEF Spec

(* What the calls have to send is within the plans of their handlers, the  *)
(* tables are well typed, and who is about to be inserted is not there.    *)
THEOREM Invariant == Spec => []Inv
<1>1. Inv /\ [Next]_vars => Inv'
  BY InvStep
<1> QED
  BY <1>1, InitInv, PTL DEF Spec
-----------------------------------------------------------------------------
(* A code that has changed a number is in no phone any more; a call that   *)
(* has sent nothing yet has given no code.                                 *)
Untouched(c) == call[c].at = "idle" \/ \E s \in Sent(c) : s.op = "read"
CodesInv ==
  /\ \A p, q \in Phones : changeCodes[p] = changeCodes[q] /\ changeCodes[p] # None => p = q
  /\ \A f \in accepted : f[1] \in Calls /\ \A p \in Phones : changeCodes[p] # f[1]
  /\ \A c \in Calls : Untouched(c) => (\A p \in Phones : changeCodes[p] # c) /\ \A f \in accepted : f[1] # c
  /\ CodeChangesOnePhone

(* A call that is past its read never reads again.                         *)
LEMMA UntouchedServe ==
  ASSUME Inv, NEW c \in Calls, NEW s \in Sent(c), Acts(c, s)
  PROVE  ~ Untouched(c)' /\ \A b \in Calls \ {c} : Untouched(b)' <=> Untouched(b)
<1>1. Moved(c) /\ \A t \in Sent(c)' : t.op # "read"
  BY Moves DEF Inv
<1> QED
  BY <1>1, Others DEF Untouched, Moved, Alone

(* A step of a call keeps CodesInv: AcceptCode takes the code that it      *)
(* accepts out of the map before it awaits anything.                       *)
LEMMA CodesServe ==
  ASSUME Inv, CodesInv, NEW c \in Calls, Serve(c)
  PROVE  CodesInv'
<1>1. PICK s \in Sent(c) :
        /\ Acts(c, s)
        /\ (StorefrontStep(c, s) \/ UNCHANGED storefront)
  BY DEF Serve, Acts
<1>2. ~ Untouched(c)' /\ \A b \in Calls \ {c} : Untouched(b)' <=> Untouched(b)
  BY <1>1, UntouchedServe
<1>3. changeCodes \in [Phones -> Calls \cup {None}] /\ None \notin Calls
  BY TypeParts, OpeningAssumption DEF Inv, MapsOK
<1>4. CASE UNCHANGED <<changeCodes, accepted>>
  BY <1>2, <1>4 DEF CodesInv, CodeChangesOnePhone
<1>5. CASE SendChangeOtp(c, s)
  <2>1. CASE UNCHANGED changeCodes
    BY <1>4, <1>5, <2>1 DEF SendChangeOtp
  <2>2. CASE changeCodes' = [changeCodes EXCEPT ![Request(c).phone] = c]
    <3>1. Untouched(c) /\ UNCHANGED accepted
      BY <1>5 DEF SendChangeOtp, Untouched
    <3>2. \A p \in Phones : changeCodes'[p] = IF p = Request(c).phone THEN c ELSE changeCodes[p]
      BY <1>3, <2>2
    <3> QED
      BY <1>2, <1>3, <3>1, <3>2 DEF CodesInv, CodeChangesOnePhone
  <2> QED
    BY <1>5, <2>1, <2>2 DEF SendChangeOtp
<1>6. CASE AcceptCode(c, s)
  <2> DEFINE r == Request(c)
  <2>1. CASE UNCHANGED <<changeCodes, accepted>>
    BY <1>4, <2>1
  <2>2. CASE /\ changeCodes[r.phone] = r.code /\ changeCodes' = [changeCodes EXCEPT ![r.phone] = None]
             /\ accepted' = accepted \cup {<<r.code, c>>}
    <3>1. r.phone \in Phones /\ r.code \in Calls
      <4>1. r.op = "updateMyPhoneNumber" /\ Understood(c, r)
        BY <1>6, ReadAlone DEF AcceptCode, Inv
      <4> QED
        BY <4>1 DEF Understood
    <3>2. \A p \in Phones : changeCodes'[p] = IF p = r.phone THEN None ELSE changeCodes[p]
      BY <1>3, <2>2
    <3>3. \A p \in Phones : p # r.phone => changeCodes[p] # r.code
      BY <1>3, <2>2, <3>1 DEF CodesInv
    <3>4. \A f \in accepted' : f \in accepted \/ f = <<r.code, c>>
      BY <2>2
    <3>5. \A f \in accepted : f[1] # r.code
      BY <2>2, <3>1 DEF CodesInv
    <3>6. \A b \in Calls : Untouched(b) => b # r.code
      BY <2>2, <3>1 DEF CodesInv
    <3>7. \A f \in accepted' : f[1] \in Calls /\ \A p \in Phones : changeCodes'[p] # f[1]
      BY <1>3, <3>1, <3>2, <3>3, <3>4 DEF CodesInv
    <3>8. CodeChangesOnePhone'
      BY <3>4, <3>5 DEF CodesInv, CodeChangesOnePhone
    <3>9. \A p, q \in Phones : changeCodes'[p] = changeCodes'[q] /\ changeCodes'[p] # None => p = q
      BY <3>2 DEF CodesInv
    <3>10. \A b \in Calls : Untouched(b)' => (\A p \in Phones : changeCodes'[p] # b) /\ \A f \in accepted' : f[1] # b
      BY <1>2, <1>3, <3>2, <3>4, <3>6 DEF CodesInv
    <3> QED
      BY <3>7, <3>8, <3>9, <3>10 DEF CodesInv
  <2> QED
    BY <1>6, <2>1, <2>2 DEF AcceptCode
<1> QED
  BY <1>1, <1>4, <1>5, <1>6
     DEF storefront, StorefrontStep, InsertCustomer, WriteCustomer, SendOtp, ValidateOtp, FindCustomer, ForgetCode,
         GetCustomer, SignUpCustomer, CreateCustomer, UpdateCustomer, ReadCustomer, DeleteCustomer, codesAndHistory

(* A code changes one phone number, of the calls of updateMyPhoneNumber    *)
(* that show it at once too: it leaves the map before anything is awaited, *)
(* and the restart that empties the map brings no code back.               *)
THEOREM CodesChangeOnePhone == Spec => []CodeChangesOnePhone
<1>1. Init => Inv /\ CodesInv
  <2>1. Init => CodesInv
    BY OpeningAssumption DEF Init, CodesInv, NoCodes, CodeChangesOnePhone
  <2> QED
    BY <2>1, InitInv
<1>2. Inv /\ CodesInv /\ [Next]_vars => Inv' /\ CodesInv'
  <2> SUFFICES ASSUME Inv, CodesInv, [Next]_vars PROVE CodesInv'
    BY InvStep
  <2>1. CASE UNCHANGED vars
    BY <2>1 DEF vars, storefront, CodesInv, CodeChangesOnePhone, Untouched, Sent, Running
  <2>2. CASE PassSecond
    BY <2>2 DEF PassSecond, storefront, CodesInv, CodeChangesOnePhone, Untouched, Sent, Running
  <2>3. CASE Crash
    <3>1. /\ changeCodes' = NoCodes /\ UNCHANGED accepted
          /\ \A c \in Calls : Untouched(c)' => Untouched(c)
      BY <2>3, CrashMoves DEF Crash, ForgetCodes, Untouched
    <3>2. None \notin Calls
      BY OpeningAssumption
    <3> QED
      BY <3>1, <3>2 DEF CodesInv, CodeChangesOnePhone, NoCodes
  <2>4. CASE \E c \in Calls : ReceiveRequest(c)
    <3>1. PICK c \in Calls : ReceiveRequest(c)
      BY <2>4
    <3>2. UNCHANGED <<changeCodes, accepted>> /\ \A b \in Calls : Untouched(b)' => Untouched(b)
      BY <3>1, ReceiveMoves DEF storefront, Alone, Untouched, Sent, Running
    <3> QED
      BY <3>2 DEF CodesInv, CodeChangesOnePhone
  <2> QED
    BY <2>1, <2>2, <2>3, <2>4, CodesServe DEF Next
<1>3. CodesInv => CodeChangesOnePhone
  BY DEF CodesInv
<1> QED
  BY <1>1, <1>2, <1>3, PTL DEF Spec
-----------------------------------------------------------------------------
(* While no two calls have been at work at once, the e-mail that a call is *)
(* about to write is still free.                                           *)
FreeEmail(email, but) == \A k \in DOMAIN customers \ {but} : customers[k].email # email
EmailInv ==
  ~ overlapped =>
    /\ \A b, c \in Calls : Running(b) /\ Running(c) => b = c
    /\ \A k \in DOMAIN customers : customers[k].email # None => FreeEmail(customers[k].email, k)
    /\ \A c \in Calls : \A s \in Sent(c) :
         /\ s.op = "insertCustomer" /\ s.email # None => FreeEmail(s.email, None)
         /\ s.op = "writeCustomer" /\ s.email # None => FreeEmail(s.email, Request(c).doc[2])

(* Nobody has a certain e-mail, seen from a row that does not count.       *)
LEMMA WithNobody ==
  ASSUME Tables, NEW v, NEW but
  PROVE  /\ With("email", v, but) = {} <=> FreeEmail(v, but)
         /\ With("phone", v, but) = {} <=> \A k \in DOMAIN customers \ {but} : customers[k].phone # v
<1>1. \A k \in DOMAIN customers : customers[k]["email"] = customers[k].email /\ customers[k]["phone"] = customers[k].phone
  OBVIOUS
<1> QED
  BY <1>1 DEF With, FreeEmail

(* A statement that gives a customer an e-mail comes from a read that      *)
(* found it free.                                                          *)
LEMMA EmailReads ==
  ASSUME Inv, NEW c \in Calls, NEW s \in Sent(c), Acts(c, s), NEW t \in Sent(c)', t.op \in {"insertCustomer", "writeCustomer"},
         t.email # None
  PROVE  /\ t.op = "insertCustomer" => FreeEmail(t.email, None)
         /\ t.op = "writeCustomer" => FreeEmail(t.email, Request(c).doc[2])
         /\ UNCHANGED customers
<1>1. t \in Sent(c) \ {s} \/ Sender(c, s, t)
  BY Senders DEF Inv
<1>2. t \notin Sent(c) \ {s}
  <2>1. SUFFICES ASSUME t \in Sent(c) PROVE Sent(c) = {t}
    OBVIOUS
  <2>2. \A x, y : Head(<<x, y>>) = x /\ Head(<<x>>) = x
    OBVIOUS
  <2>3. Sent(c) = Head(call[c].stages)
    BY <2>1 DEF Sent
  <2>4. call[c].stages = <<{t}>> \/ \E y : call[c].stages = <<{t}, y>>
    BY <2>1, Sending DEF Inv
  <2> QED
    BY <2>2, <2>3, <2>4
<1>3. SignUpCustomer(c, s) \/ CreateCustomer(c, s) \/ AcceptCode(c, s) \/ UpdateCustomer(c, s)
  BY <1>1, <1>2 DEF Sender
<1> DEFINE r == Request(c)
<1>4. CASE CreateCustomer(c, s)
  <2>1. Sent(c)' = {Inserts(Groups(r.phone), r.email)} /\ ~ Taken(r, None)
    BY <1>4, StorefrontReads DEF Inv, Sends
  <2> QED
    BY <1>4, <2>1, WithNobody DEF Inv, Taken, Inserts, CreateCustomer, storefront
<1>5. CASE UpdateCustomer(c, s)
  <2>1. Sent(c)' = {Writes(IF r.phone = None THEN None ELSE Groups(r.phone), r.email)} /\ ~ Taken(r, r.doc[2])
    BY <1>5, StorefrontReads DEF Inv, Sends
  <2> QED
    BY <1>5, <2>1, WithNobody DEF Inv, Taken, Writes, UpdateCustomer, storefront
<1>6. CASE SignUpCustomer(c, s)
  <2>1. Sent(c)' = {Inserts(Digits(r.phone), None)}
    BY <1>6, StorefrontReads DEF Inv, Sends
  <2> QED
    BY <2>1 DEF Inserts
<1>7. CASE AcceptCode(c, s)
  <2>1. Sent(c)' = {Writes(Digits(r.phone), None)}
    BY <1>7, StorefrontReads DEF Inv, Sends
  <2> QED
    BY <2>1 DEF Writes
<1> QED
  BY <1>3, <1>4, <1>5, <1>6, <1>7

(* A step of a call keeps EmailInv.                                        *)
LEMMA EmailServe ==
  ASSUME Inv, EmailInv, NEW c \in Calls, Serve(c)
  PROVE  EmailInv'
<1> SUFFICES ASSUME ~ overlapped'
             PROVE  /\ \A b, d \in Calls : Running(b)' /\ Running(d)' => b = d
                    /\ \A k \in DOMAIN customers' : customers'[k].email # None => FreeEmail(customers[k].email, k)'
                    /\ \A d \in Calls : \A t \in Sent(d)' :
                         /\ t.op = "insertCustomer" /\ t.email # None => FreeEmail(t.email, None)'
                         /\ t.op = "writeCustomer" /\ t.email # None => FreeEmail(t.email, Request(d).doc[2])'
  BY DEF EmailInv, Request, FreeEmail
<1>1. PICK s \in Sent(c) :
        /\ Acts(c, s) /\ UNCHANGED overlapped
        /\ StorefrontStep(c, s) \/ UNCHANGED storefront
  BY DEF Serve, Acts
<1>2. Moved(c) /\ Running(c)
  BY <1>1, Moves DEF Inv, Sent
<1>3. ~ overlapped /\ \A b \in Calls \ {c} : ~ Running(b) /\ ~ Running(b)' /\ Sent(b)' = {}
  <2>1. \A b \in Calls \ {c} : ~ Running(b)
    BY <1>1, <1>2 DEF EmailInv
  <2> QED
    BY <1>1, <1>2, <2>1, Others DEF Sent
<1>4. \A d \in Calls : \A t \in Sent(d)' :
        /\ t.op = "insertCustomer" /\ t.email # None => FreeEmail(t.email, None)'
        /\ t.op = "writeCustomer" /\ t.email # None => FreeEmail(t.email, Request(d).doc[2])'
  <2> SUFFICES ASSUME NEW t \in Sent(c)', t.op \in {"insertCustomer", "writeCustomer"}, t.email # None
               PROVE  /\ t.op = "insertCustomer" => FreeEmail(t.email, None)'
                      /\ t.op = "writeCustomer" => FreeEmail(t.email, Request(c).doc[2])'
    BY <1>3
  <2>1. /\ t.op = "insertCustomer" => FreeEmail(t.email, None)
        /\ t.op = "writeCustomer" => FreeEmail(t.email, Request(c).doc[2])
        /\ UNCHANGED customers
    BY <1>1, EmailReads
  <2>2. Request(c)' = Request(c)
    BY <1>2 DEF Moved, Sent, Request
  <2> QED
    BY <2>1, <2>2 DEF FreeEmail
<1>5. \A k \in DOMAIN customers' : customers'[k].email # None => FreeEmail(customers[k].email, k)'
  <2>1. \A k \in DOMAIN customers : customers[k].email # None => FreeEmail(customers[k].email, k)
    BY <1>3 DEF EmailInv
  <2>2. CASE UNCHANGED customers
    BY <2>1, <2>2 DEF FreeEmail
  <2>3. CASE InsertCustomer(c, s)
    <3>1. /\ DOMAIN customers' = DOMAIN customers \cup {c} /\ c \notin DOMAIN customers
          /\ \A k \in DOMAIN customers : customers'[k] = customers[k]
          /\ customers'[c].email = s.email
      <4>1. customers'[c] = [phone |-> s.phone, email |-> s.email]
        BY <2>3, InsertCustomerOK
      <4>2. [phone |-> s.phone, email |-> s.email].email = s.email
        OBVIOUS
      <4>3. /\ DOMAIN customers' = DOMAIN customers \cup {c} /\ c \notin DOMAIN customers
            /\ \A k \in DOMAIN customers : customers'[k] = customers[k]
        BY <2>3, InsertCustomerOK
      <4> QED
        BY <4>1, <4>2, <4>3
    <3>2. s.email # None => FreeEmail(s.email, None)
      BY <1>3, <2>3 DEF EmailInv, InsertCustomer
    <3>3. None \notin DOMAIN customers
      BY OpeningAssumption DEF Inv, Tables
    <3> QED
      BY <2>1, <3>1, <3>2, <3>3 DEF FreeEmail
  <2>4. CASE WriteCustomer(c, s)
    <3> DEFINE k == Request(c).doc[2]
    <3>1. /\ DOMAIN customers' = DOMAIN customers /\ k \in DOMAIN customers
          /\ \A l \in DOMAIN customers \ {k} : customers'[l] = customers[l]
          /\ customers'[k].email = Else(s.email, customers[k].email)
      BY <2>4, WriteCustomerOK
    <3>2. s.email # None => FreeEmail(s.email, k)
      BY <1>3, <2>4 DEF EmailInv, WriteCustomer
    <3> HIDE DEF k
    <3>3. FreeEmail(customers'[k].email, k) \/ customers'[k].email = None
      BY <2>1, <3>1, <3>2 DEF Else
    <3> QED
      BY <2>1, <3>1, <3>3 DEF FreeEmail
  <2>5. CASE DeleteCustomer(c, s)
    <3>1. /\ DOMAIN customers' \subseteq DOMAIN customers
          /\ \A l \in DOMAIN customers' : customers'[l] = customers[l]
      BY <2>5, DeleteCustomerOK
    <3> QED
      BY <2>1, <3>1 DEF FreeEmail
  <2> QED
    BY <1>1, <2>2, <2>3, <2>4, <2>5
       DEF storefront, StorefrontStep, SendOtp, ValidateOtp, FindCustomer, ForgetCode, GetCustomer, SignUpCustomer,
           SendChangeOtp, AcceptCode, CreateCustomer, UpdateCustomer, ReadCustomer
<1> QED
  BY <1>3, <1>4, <1>5

(* Two customers have the same e-mail only if two calls were at work at    *)
(* once: one at a time, the read of checkIfEmailIsTaken still holds when   *)
(* the statement after it executes, whatever failed or stopped before.     *)
THEOREM EmailsDiffer == Spec => []EmailsOfCustomersDiffer
<1>1. Init => Inv /\ EmailInv
  <2>1. Init => EmailInv
    BY OpeningAssumption DEF Init, EmailInv, FreeEmail, HandlersInit, Running, Sent, Blank
  <2> QED
    BY <2>1, InitInv
<1>2. Inv /\ EmailInv /\ [Next]_vars => Inv' /\ EmailInv'
  <2> SUFFICES ASSUME Inv, EmailInv, [Next]_vars PROVE EmailInv'
    BY InvStep
  <2>1. CASE UNCHANGED vars
    BY <2>1 DEF vars, storefront, EmailInv, FreeEmail, Sent, Running, Request
  <2>2. CASE PassSecond
    BY <2>2 DEF PassSecond, storefront, EmailInv, FreeEmail, Sent, Running, Request
  <2>3. CASE Crash
    <3>1. UNCHANGED <<customers, overlapped>> /\ \A c \in Calls : ~ Running(c)' /\ Sent(c)' = {}
      BY <2>3, CrashMoves DEF Crash, ForgetCodes
    <3> QED
      BY <3>1 DEF EmailInv, FreeEmail
  <2>4. CASE \E c \in Calls : ReceiveRequest(c)
    <3>1. PICK c \in Calls : ReceiveRequest(c)
      BY <2>4
    <3>2. UNCHANGED customers /\ Alone(c) /\ overlapped' = (overlapped \/ \E b \in Calls : Running(b))
          /\ Sent(c)' = {Bare("read")}
      BY <3>1, ReceiveMoves DEF storefront
    <3>3. ASSUME ~ overlapped'
          PROVE  ~ overlapped /\ \A b \in Calls \ {c} : ~ Running(b)' /\ Sent(b)' = {}
      BY <3>2, <3>3 DEF Alone, Running, Sent
    <3>4. \A t \in Sent(c)' : t.op = "read"
      BY <3>2 DEF Bare
    <3>5. ~ overlapped' => \A b, d \in Calls : Running(b)' /\ Running(d)' => b = d
      BY <3>3
    <3>6. ~ overlapped' => \A d \in Calls : \A t \in Sent(d)' : t.op = "read"
      BY <3>3, <3>4
    <3>7. ~ overlapped' => \A k \in DOMAIN customers' : customers'[k].email # None => FreeEmail(customers[k].email, k)'
      BY <3>2, <3>3 DEF EmailInv, FreeEmail
    <3> QED
      BY <3>5, <3>6, <3>7 DEF EmailInv
  <2> QED
    BY <2>1, <2>2, <2>3, <2>4, EmailServe DEF Next
<1>3. Inv /\ EmailInv => EmailsOfCustomersDiffer
  BY WithNobody DEF Inv, EmailInv, EmailsOfCustomersDiffer
<1> QED
  BY <1>1, <1>2, <1>3, PTL DEF Spec
-----------------------------------------------------------------------------
(* A validation that nothing has disturbed has a customer, or the code; it *)
(* forgets the code of a customer only.  A phone that was told to sign up  *)
(* has no customer, has the code, and no call is about to forget it.       *)
Known(p) == \E k \in DOMAIN customers : customers[k].phone = Digits(p)
Validation == {"find", "forget", "getCustomer"}
OtpInv ==
  /\ \A c \in Calls : \A s \in Sent(c) :
       s.op \in Validation /\ Request(c).doc \notin disturbed =>
         /\ Known(Request(c).phone) \/ codes[Request(c).phone] = Request(c).code
         /\ s.op = "forget" => Known(Request(c).phone)
  /\ \A f \in firstTimers :
       /\ f[1] \in Phones /\ ~ Known(f[1]) /\ codes[f[1]] = f[2]
       /\ \A c \in Calls : \A s \in Sent(c) : s.op = "forget" => Request(c).phone # f[1]

(* A statement of validateOtp is one of a validateOtp call, and stands     *)
(* alone.                                                                  *)
LEMMA Validating ==
  ASSUME Inv, NEW c \in Calls, NEW s \in Sent(c), s.op \in Validation
  PROVE  /\ Running(c) /\ Request(c).op = "validateOtp" /\ Request(c).phone \in Phones
         /\ Request(c).doc = <<"code", Request(c).phone>>
<1>1. Running(c) /\ Request(c).op = "validateOtp" /\ Understood(c, Request(c))
  BY Sending DEF Inv, Validation
<1> QED
  BY <1>1 DEF Understood

(* A customer with a number is found by it.                                *)
LEMMA KnownIs ==
  ASSUME Inv, NEW p
  PROVE  With("phone", Digits(p), None) = {} <=> ~ Known(p)
<1>1. None \notin DOMAIN customers
  BY OpeningAssumption DEF Inv, Tables
<1> QED
  BY <1>1, WithNobody DEF Known, Inv

(* A number belongs to one phone.                                          *)
LEMMA SameDigits == \A p, q : Digits(p) = Digits(q) => p = q
BY DEF Digits

(* The statements of the others, and what call c had to send before.       *)
Follows(c) ==
  /\ disturbed \subseteq disturbed'
  /\ \A b \in Calls : \A t \in Sent(b)' : t.op \in Validation =>
       Request(b)' = Request(b) /\ (b # c => t \in Sent(b))

(* What a step of a call leaves of the others, and of what it asks for.    *)
LEMMA ServeFollows ==
  ASSUME Inv, NEW c \in Calls, NEW s \in Sent(c), Acts(c, s)
  PROVE  Follows(c)
<1>1. Moved(c) /\ disturbed \subseteq disturbed'
  BY Moves, DisturbedGrows DEF Inv
<1>2. \A b \in Calls : \A t \in Sent(b)' : Request(b)' = Request(b) /\ (b # c => t \in Sent(b))
  BY <1>1, Others DEF Moved, Sent, Running
<1> QED
  BY <1>1, <1>2 DEF Follows

(* A step that leaves codes, first timers and customers alone keeps        *)
(* OtpInv.                                                                 *)
LEMMA OtpQuiet ==
  ASSUME OtpInv, NEW c \in Calls, Follows(c), UNCHANGED <<customers, codes, firstTimers>>,
         \A t \in Sent(c)' : t.op \in Validation => t \in Sent(c)
  PROVE  OtpInv'
<1>1. \A b \in Calls : \A t \in Sent(b)' : t.op \in Validation => t \in Sent(b) /\ Request(b)' = Request(b)
  BY DEF Follows
<1>2. (\A p : Known(p)' <=> Known(p)) /\ disturbed \subseteq disturbed' /\ "forget" \in Validation
  BY DEF Known, Follows, Validation
<1> QED
  BY <1>1, <1>2 DEF OtpInv

(* The steps that change codes or first timers keep OtpInv: another code   *)
(* for the phone forgets the first timer with the old one.                 *)
LEMMA OtpCodes ==
  ASSUME Inv, OtpInv, NEW c \in Calls, NEW s \in Sent(c), StorefrontStep(c, s),
         SendOtp(c, s) \/ ValidateOtp(c, s) \/ FindCustomer(c, s) \/ ForgetCode(c, s) \/ GetCustomer(c, s)
  PROVE  OtpInv'
<1> DEFINE r == Request(c)
           p == r.phone
<1>1. Acts(c, s) /\ Follows(c)
  BY ServeFollows DEF Acts
<1>2. UNCHANGED customers /\ \A q : Known(q)' <=> Known(q)
  BY DEF SendOtp, ValidateOtp, FindCustomer, ForgetCode, GetCustomer, storefront, Known
<1>3. codes \in [Phones -> Calls \cup {None}]
  BY TypeParts DEF Inv, MapsOK
<1>4. CASE SendOtp(c, s)
  <2>1. Sent(c)' = {}
    BY <1>4, StorefrontReads DEF Inv, Sends
  <2>2. codes' = [codes EXCEPT ![p] = c] /\ ForgetFirstTimers(Digits(p)) /\ DisturbValidations(Digits(p))
    BY <1>4 DEF SendOtp
  <2>3. \A b \in Calls : \A t \in Sent(b)' : t.op \in Validation =>
          /\ t \in Sent(b) /\ Request(b)' = Request(b) /\ Request(b).phone \in Phones
          /\ Request(b).phone = p => Request(b).doc \in disturbed'
    <3> SUFFICES ASSUME NEW b \in Calls, NEW t \in Sent(b)', t.op \in Validation
                 PROVE  /\ t \in Sent(b) /\ Request(b)' = Request(b) /\ Request(b).phone \in Phones
                        /\ Request(b).phone = p => Request(b).doc \in disturbed'
      OBVIOUS
    <3>1. t \in Sent(b) /\ Request(b)' = Request(b)
      BY <1>1, <2>1 DEF Follows
    <3>2. Running(b) /\ Request(b).op = "validateOtp" /\ Request(b).phone \in Phones
      BY <3>1, Validating
    <3> QED
      BY <2>2, <3>1, <3>2 DEF DisturbValidations
  <2>4. \A q \in Phones : q # p => codes'[q] = codes[q]
    BY <1>3, <2>2
  <2>5. firstTimers' \subseteq firstTimers /\ \A f \in firstTimers' : f[1] # p
    BY <2>2 DEF ForgetFirstTimers
  <2> QED
    BY <1>1, <1>2, <2>3, <2>4, <2>5 DEF OtpInv, Follows, Validation
<1>5. CASE ValidateOtp(c, s)
  <2>1. UNCHANGED <<codes, firstTimers>>
    BY <1>5 DEF ValidateOtp, storefront
  <2>2. CASE Sent(c)' = {}
    BY <1>1, <1>2, <2>1, <2>2, OtpQuiet
  <2>3. CASE codes[p] = r.code /\ Sent(c)' = {Bare("find")}
    <3>1. \A b \in Calls : \A t \in Sent(b)' : t.op \in Validation =>
            /\ Request(b)' = Request(b)
            /\ t \in Sent(b) \/ (b = c /\ t.op = "find")
      BY <1>1, <2>3 DEF Follows, Bare
    <3> QED
      BY <1>1, <1>2, <2>1, <2>3, <3>1 DEF OtpInv, Follows, Validation
  <2> QED
    BY <1>5, <2>2, <2>3, StorefrontReads DEF Inv, Sends
<1>6. CASE FindCustomer(c, s)
  <2>1. UNCHANGED <<codes, firstTimers>> /\ s.op = "find"
    BY <1>6 DEF FindCustomer, storefront
  <2>2. Sent(c)' = IF Known(p) THEN {Bare("forget")} ELSE {Bare("getCustomer")}
    BY <1>6, KnownIs, StorefrontReads DEF Inv, Sends
  <2>3. r.doc \notin disturbed => Known(p) \/ codes[p] = r.code
    BY <2>1 DEF OtpInv, Validation
  <2>4. \A b \in Calls : \A t \in Sent(b)' : t.op \in Validation =>
          /\ Request(b)' = Request(b)
          /\ t \in Sent(b) \/ (b = c /\ (t.op = "forget" => Known(p)))
    BY <1>1, <2>2 DEF Follows, Bare
  <2> QED
    BY <1>1, <1>2, <2>1, <2>3, <2>4 DEF OtpInv, Follows, Validation
<1>7. CASE ForgetCode(c, s)
  <2>1. s.op = "forget" /\ codes' = [codes EXCEPT ![p] = None] /\ UNCHANGED disturbed
        /\ firstTimers' \subseteq firstTimers
    BY <1>7 DEF ForgetCode, ForgetFirstTimers
  <2>2. Sent(c)' = {Bare("getCustomer")}
    BY <1>7, <2>1, ExecutedSends DEF Inv, Sends, Leaves, ForgetCode
  <2>3. r.doc \notin disturbed => Known(p)
    BY <2>1 DEF OtpInv, Validation
  <2>4. r.doc = <<"code", p>> /\ p \in Phones
    BY <2>1, Validating DEF Validation
  <2>5. \A b \in Calls : \A t \in Sent(b)' : t.op \in Validation =>
          /\ Request(b)' = Request(b) /\ Request(b).phone \in Phones
          /\ Request(b).doc = <<"code", Request(b).phone>>
          /\ t \in Sent(b) \/ (b = c /\ t.op = "getCustomer")
    <3> SUFFICES ASSUME NEW b \in Calls, NEW t \in Sent(b)', t.op \in Validation
                 PROVE  /\ Request(b)' = Request(b) /\ Request(b).phone \in Phones
                        /\ Request(b).doc = <<"code", Request(b).phone>>
                        /\ t \in Sent(b) \/ (b = c /\ t.op = "getCustomer")
      OBVIOUS
    <3>1. CASE b = c
      BY <1>1, <2>2, <2>4, <3>1 DEF Follows, Bare
    <3>2. CASE b # c
      <4>1. t \in Sent(b) /\ Request(b)' = Request(b)
        BY <1>1, <3>2 DEF Follows
      <4> QED
        BY <4>1, Validating
    <3> QED
      BY <3>1, <3>2
  <2>6. \A q \in Phones : q # p => codes'[q] = codes[q]
    BY <1>3, <2>1
  <2>7. \A f \in firstTimers : f[1] # p
    BY <2>1 DEF OtpInv
  <2>8. \A b \in Calls : \A t \in Sent(b)' : t.op \in Validation /\ Request(b).doc \notin disturbed =>
          /\ Known(Request(b).phone) \/ codes'[Request(b).phone] = Request(b).code
          /\ t.op = "forget" => Known(Request(b).phone)
    <3> SUFFICES ASSUME NEW b \in Calls, NEW t \in Sent(b)', t.op \in Validation, Request(b).doc \notin disturbed
                 PROVE  /\ Known(Request(b).phone) \/ codes'[Request(b).phone] = Request(b).code
                        /\ t.op = "forget" => Known(Request(b).phone)
      OBVIOUS
    <3>1. CASE Request(b).phone = p
      BY <2>3, <2>4, <2>5, <3>1
    <3>2. CASE Request(b).phone # p
      <4>1. t \in Sent(b) /\ codes'[Request(b).phone] = codes[Request(b).phone]
        BY <2>5, <2>6, <3>2
      <4> QED
        BY <4>1 DEF OtpInv
    <3> QED
      BY <3>1, <3>2
  <2>9. \A f \in firstTimers' : /\ f[1] \in Phones /\ ~ Known(f[1]) /\ codes'[f[1]] = f[2]
                                /\ \A b \in Calls : \A t \in Sent(b)' : t.op = "forget" => Request(b).phone # f[1]
    BY <2>1, <2>5, <2>6, <2>7 DEF OtpInv, Validation
  <2> QED
    BY <1>2, <2>1, <2>5, <2>8, <2>9 DEF OtpInv, Validation
<1>8. CASE GetCustomer(c, s)
  <2>1. UNCHANGED <<codes, disturbed>> /\ s.op = "getCustomer"
    BY <1>8 DEF GetCustomer
  <2>2. \A t \in Sent(c)' : t.op \notin Validation
    BY <1>8, StorefrontReads DEF Inv, Sends, Sign, Validation
  <2>3. CASE UNCHANGED firstTimers
    BY <1>1, <1>2, <2>1, <2>2, <2>3, OtpQuiet
  <2>4. CASE ~ Known(p) /\ r.doc \notin disturbed /\ firstTimers' = firstTimers \cup {<<p, r.code>>}
    <3>1. codes[p] = r.code
      BY <2>1, <2>4 DEF OtpInv, Validation
    <3>2. p \in Phones /\ r.doc = <<"code", p>>
      BY <2>1, Validating DEF Validation
    <3>3. \A b \in Calls : \A t \in Sent(b) : t.op = "forget" => Request(b).phone # p
      <4> SUFFICES ASSUME NEW b \in Calls, NEW t \in Sent(b), t.op = "forget", Request(b).phone = p PROVE FALSE
        OBVIOUS
      <4>1. Request(b).doc = r.doc
        BY <3>2, Validating DEF Validation
      <4> QED
        BY <2>4, <4>1 DEF OtpInv, Validation
    <3>4. \A b \in Calls : \A t \in Sent(b)' : t.op \in Validation => t \in Sent(b) /\ Request(b)' = Request(b)
      BY <1>1, <2>2 DEF Follows
    <3>5. \A f \in firstTimers' : f \in firstTimers \/ (f[1] = p /\ f[2] = r.code)
      BY <2>4
    <3> QED
      BY <1>2, <2>1, <2>4, <3>1, <3>2, <3>3, <3>4, <3>5 DEF OtpInv, Validation
  <2> QED
    BY <1>8, <2>3, <2>4, KnownIs DEF GetCustomer
<1> QED
  BY <1>4, <1>5, <1>6, <1>7, <1>8

(* Numbers come and go in the table of the customers.                      *)
LEMMA OtpNumbers ==
  ASSUME Inv, OtpInv, NEW c \in Calls, Follows(c), UNCHANGED codes, firstTimers' \subseteq firstTimers,
         \A t \in Sent(c)' : t.op \in Validation => t \in Sent(c),
         \A p \in Phones : Known(p) =>
           Known(p)' \/ \A b \in Calls : \A t \in Sent(b) :
                          t.op \in Validation /\ Request(b).phone = p => Request(b).doc \in disturbed',
         \A f \in firstTimers' : ~ Known(f[1])'
  PROVE  OtpInv'
<1>1. \A b \in Calls : \A t \in Sent(b)' : t.op \in Validation => t \in Sent(b) /\ Request(b)' = Request(b)
  BY DEF Follows
<1>2. disturbed \subseteq disturbed' /\ "forget" \in Validation
  BY DEF Follows, Validation
<1>3. ASSUME NEW b \in Calls, NEW t \in Sent(b)', t.op \in Validation, Request(b).doc \notin disturbed',
             NEW p, p = Request(b).phone
      PROVE  Known(p)' \/ codes[p] = Request(b).code
  <2>1. t \in Sent(b) /\ p \in Phones
    BY <1>1, <1>3, Validating
  <2> QED
    BY <1>2, <1>3, <2>1 DEF OtpInv
<1>4. ASSUME NEW b \in Calls, NEW t \in Sent(b)', t.op = "forget", Request(b).doc \notin disturbed',
             NEW p, p = Request(b).phone
      PROVE  Known(p)'
  <2>1. t \in Sent(b) /\ p \in Phones
    BY <1>1, <1>2, <1>4, Validating
  <2> QED
    BY <1>2, <1>4, <2>1 DEF OtpInv
<1>5. \A f \in firstTimers' :
        /\ f[1] \in Phones /\ ~ Known(f[1])' /\ codes'[f[1]] = f[2]
        /\ \A b \in Calls : \A t \in Sent(b)' : t.op = "forget" => Request(b)'.phone # f[1]
  BY <1>1, <1>2 DEF OtpInv
<1>6. \A b \in Calls : \A t \in Sent(b)' : t.op \in Validation /\ Request(b)'.doc \notin disturbed' =>
        /\ Known(Request(b).phone)' \/ codes'[Request(b)'.phone] = Request(b)'.code
        /\ t.op = "forget" => Known(Request(b).phone)'
  BY <1>1, <1>2, <1>3, <1>4 DEF Known
<1> QED
  BY <1>5, <1>6 DEF OtpInv

(* The steps that change customers keep OtpInv: who gets a number is a     *)
(* first timer with it no more.                                            *)
LEMMA OtpCustomers ==
  ASSUME Inv, OtpInv, NEW c \in Calls, NEW s \in Sent(c), StorefrontStep(c, s),
         InsertCustomer(c, s) \/ WriteCustomer(c, s) \/ DeleteCustomer(c, s)
  PROVE  OtpInv'
<1>1. Acts(c, s) /\ Follows(c) /\ UNCHANGED codes
  BY ServeFollows DEF Acts, InsertCustomer, WriteCustomer, DeleteCustomer, codesAndHistory
<1>2. \A t \in Sent(c)' : t.op \in Validation => t \in Sent(c)
  BY <1>1, Senders
     DEF Inv, Sender, Validation, InsertCustomer, WriteCustomer, DeleteCustomer, ValidateOtp, FindCustomer, ForgetCode
<1>3. \A f \in firstTimers : ~ Known(f[1])
  BY DEF OtpInv
<1>4. CASE InsertCustomer(c, s)
  <2>1. /\ DOMAIN customers' = DOMAIN customers \cup {c}
        /\ \A k \in DOMAIN customers : customers'[k] = customers[k]
        /\ customers'[c].phone = s.phone
    <3>1. customers'[c] = [phone |-> s.phone, email |-> s.email]
      BY <1>4, InsertCustomerOK
    <3> QED
      BY <1>4, <3>1, InsertCustomerOK
  <2>2. \A p : Known(p)' <=> Known(p) \/ Digits(p) = s.phone
    BY <2>1 DEF Known
  <2>3. firstTimers' = {f \in firstTimers : Digits(f[1]) # s.phone}
    BY <1>4 DEF InsertCustomer, ForgetFirstTimers
  <2>4. firstTimers' \subseteq firstTimers /\ \A f \in firstTimers' : ~ Known(f[1])'
    BY <1>3, <2>2, <2>3
  <2> QED
    BY <1>1, <1>2, <2>2, <2>4, OtpNumbers
<1>5. ASSUME NEW p, Known(p), ~ Known(p)', NEW k, DisturbValidations(customers[k].phone), k \in DOMAIN customers,
             \A l \in DOMAIN customers \ {k} : l \in DOMAIN customers' /\ customers'[l].phone = customers[l].phone,
             NEW b \in Calls, NEW t \in Sent(b), t.op \in Validation, Request(b).phone = p
      PROVE  Request(b).doc \in disturbed'
  <2>1. customers[k].phone = Digits(p)
    BY <1>5 DEF Known
  <2>2. Running(b) /\ Request(b).op = "validateOtp"
    BY <1>5, Validating
  <2> QED
    BY <1>5, <2>1, <2>2 DEF DisturbValidations
<1>6. CASE WriteCustomer(c, s)
  <2> DEFINE k == Request(c).doc[2]
  <2>1. /\ DOMAIN customers' = DOMAIN customers /\ k \in DOMAIN customers
        /\ \A l \in DOMAIN customers \ {k} : customers'[l] = customers[l] /\ customers[l].phone # s.phone
        /\ customers'[k].phone = Else(s.phone, customers[k].phone)
    BY <1>6, WriteCustomerOK
  <2>2. CASE s.phone = None
    <3>1. \A l \in DOMAIN customers : customers'[l].phone = customers[l].phone
      BY <2>1, <2>2 DEF Else
    <3>2. \A p : Known(p)' <=> Known(p)
      BY <2>1, <3>1 DEF Known
    <3>3. UNCHANGED firstTimers
      BY <1>6, <2>2 DEF WriteCustomer
    <3> QED
      BY <1>1, <1>2, <1>3, <3>2, <3>3, OtpNumbers
  <2>3. CASE s.phone # None
    <3>1. firstTimers' = {f \in firstTimers : Digits(f[1]) # s.phone} /\ DisturbValidations(customers[k].phone)
      BY <1>6, <2>3 DEF WriteCustomer, ForgetFirstTimers
    <3>2. customers'[k].phone = s.phone
      BY <2>1, <2>3 DEF Else
    <3> HIDE DEF k
    <3>3. \A p : Known(p)' => Known(p) \/ Digits(p) = s.phone
      BY <2>1, <3>2 DEF Known
    <3>4. firstTimers' \subseteq firstTimers /\ \A f \in firstTimers' : ~ Known(f[1])'
      BY <1>3, <3>1, <3>3
    <3>5. \A l \in DOMAIN customers \ {k} : l \in DOMAIN customers' /\ customers'[l].phone = customers[l].phone
      BY <2>1
    <3>6. \A p \in Phones : Known(p) =>
            Known(p)' \/ \A b \in Calls : \A t \in Sent(b) :
                           t.op \in Validation /\ Request(b).phone = p => Request(b).doc \in disturbed'
      BY <1>5, <2>1, <3>1, <3>5
    <3> QED
      BY <1>1, <1>2, <3>4, <3>6, OtpNumbers
  <2> QED
    BY <2>2, <2>3
<1>7. CASE DeleteCustomer(c, s)
  <2> DEFINE k == Request(c).doc[2]
  <2>1. /\ DOMAIN customers' = DOMAIN customers \ {k} /\ k \in DOMAIN customers
        /\ \A l \in DOMAIN customers' : customers'[l] = customers[l]
    BY <1>7, DeleteCustomerOK DEF DeleteCustomer
  <2>2. DisturbValidations(customers[k].phone) /\ UNCHANGED firstTimers
    BY <1>7 DEF DeleteCustomer, codesAndHistory
  <2> HIDE DEF k
  <2>3. \A p : Known(p)' => Known(p)
    BY <2>1 DEF Known
  <2>4. \A l \in DOMAIN customers \ {k} : l \in DOMAIN customers' /\ customers'[l].phone = customers[l].phone
    BY <2>1
  <2>5. \A p \in Phones : Known(p) =>
          Known(p)' \/ \A b \in Calls : \A t \in Sent(b) :
                         t.op \in Validation /\ Request(b).phone = p => Request(b).doc \in disturbed'
    BY <1>5, <2>1, <2>2, <2>4
  <2> QED
    BY <1>1, <1>2, <1>3, <2>2, <2>3, <2>5, OtpNumbers
<1> QED
  BY <1>4, <1>6, <1>7

(* A step of a call keeps OtpInv.                                          *)
LEMMA OtpServe ==
  ASSUME Inv, OtpInv, NEW c \in Calls, Serve(c)
  PROVE  OtpInv'
<1>1. PICK s \in Sent(c) :
        Acts(c, s) /\ (StorefrontStep(c, s) \/ (UNCHANGED storefront /\ ~ StorefrontStep(c, s)))
  BY DEF Serve, Acts
<1>2. CASE InsertCustomer(c, s) \/ WriteCustomer(c, s) \/ DeleteCustomer(c, s)
  BY <1>1, <1>2, OtpCustomers DEF StorefrontStep
<1>3. CASE SendOtp(c, s) \/ ValidateOtp(c, s) \/ FindCustomer(c, s) \/ ForgetCode(c, s) \/ GetCustomer(c, s)
  BY <1>1, <1>3, OtpCodes DEF StorefrontStep
<1>4. CASE /\ UNCHANGED <<customers, codes, firstTimers>>
           /\ ~ ValidateOtp(c, s) /\ ~ FindCustomer(c, s) /\ ~ ForgetCode(c, s)
  <2>1. \A t \in Sent(c)' : t.op \in Validation => t \in Sent(c)
    BY <1>1, <1>4, Senders DEF Inv, Sender, Validation
  <2> QED
    BY <1>1, <1>4, <2>1, ServeFollows, OtpQuiet
<1> QED
  BY <1>1, <1>2, <1>3, <1>4
     DEF storefront, StorefrontStep, SignUpCustomer, SendChangeOtp, AcceptCode, CreateCustomer, UpdateCustomer,
         ReadCustomer

(* A phone that was told to sign up can do it with the code that it showed,*)
(* until it is sent another one, the number is given to a customer or the  *)
(* server restarts: only the validation of a customer's number forgets a   *)
(* code, and one that finds the customer gone is accounted for.            *)
THEOREM FirstTimersSignUp == Spec => []FirstTimersCanSignUp
<1>1. Init => Inv /\ OtpInv
  <2>1. Init => OtpInv
    BY DEF Init, OtpInv, HandlersInit, Running, Sent, Blank
  <2> QED
    BY <2>1, InitInv
<1>2. Inv /\ OtpInv /\ [Next]_vars => Inv' /\ OtpInv'
  <2> SUFFICES ASSUME Inv, OtpInv, [Next]_vars PROVE OtpInv'
    BY InvStep
  <2>1. CASE UNCHANGED vars
    BY <2>1 DEF vars, storefront, OtpInv, Known, Sent, Running, Request
  <2>2. CASE PassSecond
    BY <2>2 DEF PassSecond, storefront, OtpInv, Known, Sent, Running, Request
  <2>3. CASE Crash
    <3>1. firstTimers' = {} /\ \A c \in Calls : Sent(c)' = {}
      BY <2>3, CrashMoves DEF Crash, ForgetCodes
    <3> QED
      BY <3>1 DEF OtpInv
  <2>4. CASE \E c \in Calls : ReceiveRequest(c)
    <3>1. PICK c \in Calls : ReceiveRequest(c)
      BY <2>4
    <3>2. UNCHANGED <<customers, codes, firstTimers, disturbed>> /\ Alone(c) /\ Sent(c)' = {Bare("read")}
      BY <3>1, ReceiveMoves DEF storefront
    <3>3. \A b \in Calls \ {c} : Request(b)' = Request(b) /\ Sent(b)' = Sent(b)
      BY <3>2 DEF Alone, Request, Sent, Running
    <3>4. \A b \in Calls : \A t \in Sent(b)' : t.op \in Validation => t \in Sent(b) /\ Request(b)' = Request(b)
      BY <3>2, <3>3 DEF Bare, Validation
    <3>5. \A p : Known(p)' <=> Known(p)
      BY <3>2 DEF Known
    <3> QED
      BY <3>2, <3>4, <3>5 DEF OtpInv, Validation
  <2> QED
    BY <2>1, <2>2, <2>3, <2>4, OtpServe DEF Next
<1>3. OtpInv => FirstTimersCanSignUp
  BY DEF OtpInv, FirstTimersCanSignUp
<1> QED
  BY <1>1, <1>2, <1>3, PTL DEF Spec
-----------------------------------------------------------------------------
(* What call c has been admitted to and has not got yet.                   *)
Offering == {"sign", "store"}
Offered(c) == {<<c, t.account, Shown(Request(c))>> : t \in {t \in Sent(c) : t.op \in Offering}}

(* Who is admitted, call by call.                                          *)
LEMMA AdmittedIs ==
  /\ \A v : v \in Admitted <=> \E c \in Calls : v \in Offered(c)
  /\ \A c, v : v \in Offered(c) => v[1] = c
BY DEF Admitted, Offered, Offering

(* A step of one call changes what that call is admitted for.              *)
LEMMA AdmittedNext ==
  ASSUME NEW c \in Calls, \A b \in Calls \ {c} : Offered(b)' = Offered(b)
  PROVE  /\ Offered(c)' \subseteq Offered(c) => Admitted' \subseteq Admitted
         /\ Offered(c)' = Offered(c) => Admitted' = Admitted
         /\ \A v : Offered(c) = {v} /\ Offered(c)' = {} => v \in Admitted /\ Admitted' = Admitted \ {v}
         /\ \A v : Offered(c) = {} /\ Offered(c)' = {v} =>
              Admitted' = Admitted \cup {v} /\ \A w \in Admitted : w[1] # c
<1>1. \A v : v \in Admitted <=> \E b \in Calls : v \in Offered(b)
  BY AdmittedIs
<1>2. \A v : v \in Admitted' <=> \E b \in Calls : v \in Offered(b)'
  BY DEF Admitted, Offered, Offering
<1>3. \A b, v : v \in Offered(b) => v[1] = b
  BY AdmittedIs
<1>4. \A v : v \in Admitted' <=> v \in Offered(c)' \/ (v \in Admitted /\ v \notin Offered(c))
  BY <1>1, <1>2, <1>3
<1>5. Offered(c) \subseteq Admitted
  BY <1>1
<1>6. \A v : v \in Admitted /\ v[1] = c => v \in Offered(c)
  BY <1>1, <1>3
<1> QED
  BY <1>4, <1>5, <1>6

(* A call that offers no tokens is admitted for none.                      *)
LEMMA NothingOffered ==
  ASSUME NEW c, \A t \in Sent(c) : t.op \notin Offering
  PROVE  Offered(c) = {}
BY DEF Offered

(* What a step of call c does to what is offered.                          *)
LEMMA Offers ==
  ASSUME Inv, NEW c \in Calls, NEW s \in Sent(c), Acts(c, s)
  PROVE  /\ \A b \in Calls \ {c} : Offered(b)' = Offered(b)
         /\ s.op \notin Offering => Offered(c) = {}
         /\ (\A t \in Sent(c)' : t.op \notin Offering) => Offered(c)' = {}
         /\ \A a : Sends(c, {Sign(a)}) => Offered(c)' = {<<c, a, Shown(Request(c))>>}
<1>1. Moved(c)
  BY Moves DEF Inv
<1>2. \A b \in Calls \ {c} : Offered(b)' = Offered(b)
  BY <1>1, Others DEF Offered
<1>3. s.op \notin Offering => \A t \in Sent(c) : t.op \notin Offering
  <2> SUFFICES ASSUME NEW t \in Sent(c), t.op \in Offering PROVE s = t
    OBVIOUS
  <2>1. \A x : Head(<<x>>) = x
    OBVIOUS
  <2> QED
    BY <2>1, Sending DEF Inv, Sent, Offering
<1>4. (\A t \in Sent(c)' : t.op \notin Offering) => Offered(c)' = {}
  BY DEF Offered
<1>5. ASSUME NEW a, Sends(c, {Sign(a)})
      PROVE  Offered(c)' = {<<c, a, Shown(Request(c))>>}
  <2>1. Running(c)' /\ Sent(c)' = {Sign(a)} /\ Sign(a).op \in Offering /\ Sign(a).account = a
    BY <1>5 DEF Sends, Sent, Sign, Offering
  <2>2. Request(c)' = Request(c)
    BY <1>1, <2>1 DEF Moved
  <2>3. {t \in Sent(c)' : t.op \in Offering} = {Sign(a)}
    BY <2>1
  <2>4. Offered(c)' = {<<c, t.account, Shown(Request(c))>> : t \in {Sign(a)}}
    BY <2>2, <2>3 DEF Offered, Shown
  <2> QED
    BY <2>1, <2>4
<1> QED
  BY <1>2, <1>3, <1>4, <1>5, NothingOffered

(* The steps of TokenGrants.                                               *)
LEMMA GrantSteps ==
  /\ InForce' = InForce /\ Admitted' \subseteq Admitted => Granted!Next
  /\ \A w : \A a \in AllAccounts, c \in Calls :
       /\ InForce' = InForce /\ w \in {None, InForce[a]}
       /\ Admitted' = Admitted \cup {<<c, a, w>>} /\ \A v \in Admitted : v[1] # c
       => Granted!Next
  /\ \A v, t : /\ v \in Admitted /\ Admitted' = Admitted \ {v}
               /\ t \in TokensOf(v[2]) /\ InForce' = [InForce EXCEPT ![v[2]] = t]
               => Granted!Next
  /\ \A a \in AllAccounts :
       Admitted' = Admitted /\ InForce' = [InForce EXCEPT ![a] = None] => Granted!Next
BY DEF Granted!Next, Granted!Drop, Granted!Verify, Granted!Grant, Granted!Revoke

(* The tokens in force follow the sessions.                                *)
LEMMA InForceNext ==
  ASSUME NEW a \in AllAccounts
  PROVE  /\ Open(a) /\ a \notin DOMAIN session => InForce' = InForce
         /\ Remove(a) => InForce' = [InForce EXCEPT ![a] = None]
         /\ \A t : /\ session' = [b \in DOMAIN session |-> IF b = a THEN t ELSE session[b]]
                   /\ a \in DOMAIN session \/ t = None
                   => InForce' = [InForce EXCEPT ![a] = t]
BY DEF InForce, Open, Remove, Put

(* Each handler grants, verifies, revokes or drops.                        *)
LEMMA SessionGrants ==
  ASSUME Inv, NEW c \in Calls, NEW s \in Sent(c), SessionStep(c, s)
  PROVE  Granted!Next
<1> DEFINE r == Request(c)
<1>1. Acts(c, s)
  BY DEF Acts
<1>2. \A b \in Calls \ {c} : Offered(b)' = Offered(b)
  BY <1>1, Offers
<1>3. UNCHANGED session => InForce' = InForce
  BY DEF InForce
<1>4. CASE SignTokens(c, s)
  <2>1. PICK a \in AllAccounts : s = Sign(a) /\ Sent(c) = {s}
    <3>1. \A x : Head(<<x>>) = x
      OBVIOUS
    <3> QED
      BY <1>4, <3>1, Sending DEF Inv, SignTokens, Sent
  <2>2. s.account = a /\ s.op = "sign"
    BY <2>1 DEF Sign
  <2>3. Moved(c) /\ (Sent(c)' = {} \/ Sent(c)' = {Store(a, <<a, second>>)})
    BY <1>4, <2>2, SessionReads DEF Inv, Sends
  <2>4. Store(a, <<a, second>>).account = a
    BY DEF Store
  <2>5. Offered(c)' \subseteq {<<c, a, Shown(r)>>}
    <3>1. Sent(c)' # {} => Request(c)' = r
      BY <2>3 DEF Moved, Sent
    <3> QED
      BY <2>3, <2>4, <3>1 DEF Offered, Shown
  <2>6. <<c, a, Shown(r)>> \in Offered(c)
    BY <2>1, <2>2 DEF Offered, Offering
  <2> QED
    BY <1>2, <1>3, <1>4, <2>5, <2>6, AdmittedNext, GrantSteps DEF SignTokens
<1>5. CASE StoreHash(c, s)
  <2>1. PICK a \in AllAccounts : \E t \in TokensOf(a) : s = Store(a, t) /\ Sent(c) = {s}
    <3>1. \A x : Head(<<x>>) = x
      OBVIOUS
    <3> QED
      BY <1>5, <3>1, Sending DEF Inv, StoreHash, Sent
  <2>2. PICK t \in TokensOf(a) : s = Store(a, t) /\ Sent(c) = {s}
    BY <2>1
  <2>3. s.account = a /\ s.op = "store" /\ s.token = t
    BY <2>2 DEF Store
  <2>4. Sent(c)' = {}
    BY <1>5, <2>2, <2>3, ExecutedSends DEF Inv, StoreHash, Sends, Leaves
  <2>5. Offered(c)' = {}
    BY <1>1, <2>4, Offers
  <2>6. Offered(c) = {<<c, a, Shown(r)>>}
    <3>1. {x \in Sent(c) : x.op \in Offering} = {s}
      BY <2>2, <2>3 DEF Offering
    <3> QED
      BY <2>3, <3>1 DEF Offered
  <2>7. Admitted' = Admitted \ {<<c, a, Shown(r)>>} /\ <<c, a, Shown(r)>> \in Admitted
    BY <1>2, <2>5, <2>6, AdmittedNext
  <2>8. InForce' = [InForce EXCEPT ![a] = t]
    <3>1. session' = [b \in DOMAIN session |-> IF b = a THEN t ELSE session[b]] /\ a \in DOMAIN session
      BY <1>5, <2>3 DEF StoreHash, Inv, Tables
    <3> QED
      BY <3>1, InForceNext
  <2> DEFINE v == <<c, a, Shown(r)>>
  <2>9. v[2] = a
    OBVIOUS
  <2> HIDE DEF v
  <2> QED
    BY <2>7, <2>8, <2>9, GrantSteps DEF v
<1>6. CASE LogOut(c, s)
  <2>1. s.op \notin Offering /\ Sent(c)' = {}
    BY <1>6, SessionReads DEF Inv, LogOut, Sends, Offering
  <2>2. Admitted' = Admitted
    BY <1>1, <1>2, <2>1, Offers, AdmittedNext
  <2>3. r.doc \in AllAccounts
    <3>1. Understood(c, r) /\ r.op = "logOut"
      BY <1>6, ReadAlone DEF LogOut, Inv
    <3> QED
      BY <3>1 DEF Understood
  <2>4. InForce' = [InForce EXCEPT ![r.doc] = None]
    BY <1>6, <2>3, InForceNext DEF LogOut
  <2> QED
    BY <2>2, <2>3, <2>4, GrantSteps
<1>7. CASE RefreshToken(c, s)
  <2>1. s.op \notin Offering /\ UNCHANGED session
    BY <1>7 DEF RefreshToken, Offering
  <2>2. Offered(c) = {}
    BY <1>1, <2>1, Offers
  <2>3. CASE Sends(c, {})
    <3>1. Offered(c)' = {}
      BY <1>1, <2>3, Offers DEF Sends
    <3> QED
      BY <1>2, <1>3, <2>1, <2>2, <3>1, AdmittedNext, GrantSteps
  <2>4. CASE Sends(c, {Sign(r.doc)}) /\ r.doc \in DOMAIN session /\ session[r.doc] = r.token
    <3>1. Offered(c)' = {<<c, r.doc, Shown(r)>>}
      BY <1>1, <2>4, Offers
    <3>2. r.doc \in AllAccounts
      BY <2>4, Accounted DEF Inv
    <3>3. Shown(r) = InForce[r.doc]
      BY <1>7, <2>4, <3>2 DEF Shown, RefreshToken, InForce
    <3>4. Admitted' = Admitted \cup {<<c, r.doc, Shown(r)>>} /\ \A w \in Admitted : w[1] # c
      BY <1>2, <2>2, <3>1, AdmittedNext
    <3> QED
      BY <1>3, <2>1, <3>2, <3>3, <3>4, GrantSteps
  <2> QED
    BY <1>7, <2>3, <2>4, SessionReads DEF Inv
<1> QED
  BY <1>4, <1>5, <1>6, <1>7 DEF SessionStep

(* A read that sends no tokens is a stutter of TokenGrants.                *)
LEMMA AdmitsNobody ==
  ASSUME Inv, NEW c \in Calls, NEW s \in Sent(c), Acts(c, s), s.op \notin Offering,
         \A t \in Sent(c)' : t.op \notin Offering
  PROVE  Admitted' = Admitted
BY Offers, AdmittedNext

(* A read that sends the tokens of one account is Verify of TokenGrants.   *)
LEMMA AdmitsOne ==
  ASSUME Inv, NEW c \in Calls, NEW s \in Sent(c), Acts(c, s), s.op \notin Offering, NEW a \in AllAccounts,
         Sends(c, {Sign(a)}), Request(c).op # "refreshToken", InForce' = InForce
  PROVE  Granted!Next
<1>1. Offered(c)' = {<<c, a, None>>} /\ Offered(c) = {} /\ \A b \in Calls \ {c} : Offered(b)' = Offered(b)
  BY Offers DEF Shown
<1>2. Admitted' = Admitted \cup {<<c, a, None>>} /\ \A w \in Admitted : w[1] # c
  BY <1>1, AdmittedNext
<1> QED
  BY <1>2, GrantSteps

(* A statement that succeeds admits nobody, unless it inserts who signs up.*)
LEMMA ExecutedAdmits ==
  ASSUME Inv, NEW c \in Calls, NEW s \in Sent(c), Acts(c, s), Executed(c, s), s.op \notin Offering,
         ~ (s.op = "insertUser" /\ Request(c).op = "signUp"),
         ~ (s.op = "insertCustomer" /\ Request(c).op = "signUpCustomer")
  PROVE  Admitted' = Admitted
<1>1. Sent(c)' = Leaves(c, s)
  BY ExecutedSends DEF Inv, Sends
<1>2. Leaves(c, s) \subseteq Sent(c) \cup {Bare("getCustomer")}
  BY DEF Leaves
<1>3. \A t \in Sent(c) : t.op \notin Offering
  <2>1. \A x : Head(<<x>>) = x
    OBVIOUS
  <2> QED
    BY <2>1, Sending DEF Inv, Sent, Offering
<1>4. \A t \in Sent(c)' : t.op \notin Offering
  BY <1>1, <1>2, <1>3 DEF Bare, Offering
<1> QED
  BY <1>4, AdmitsNobody

(* Every step of the staff's services is a step of TokenGrants, or a       *)
(* stutter.                                                                *)
LEMMA StaffGrants ==
  ASSUME Inv, NEW c \in Calls, NEW s \in Sent(c), StaffStep(c, s)
  PROVE  Granted!Next
<1> DEFINE r == Request(c)
<1>1. Acts(c, s) /\ SessionsOK
  BY TypeParts DEF Acts, Inv
<1>2. UNCHANGED session => InForce' = InForce
  BY DEF InForce
<1>3. User(c) \in AllAccounts
  BY DEF AllAccounts, UserIds
<1>4. CASE InsertUser(c, s)
  <2>1. User(c) \notin DOMAIN session /\ Open(User(c)) /\ s.op = "insertUser" /\ Executed(c, s)
    BY <1>1, <1>4, InsertUserOK, SessionOf DEF InsertUser
  <2>2. InForce' = InForce /\ s.op \notin Offering
    BY <1>3, <2>1, InForceNext DEF Offering
  <2>3. CASE r.op = "signUp"
    <3>1. Sends(c, {Sign(User(c))})
      BY <2>1, <2>3, ExecutedSends DEF Leaves, Inv
    <3> QED
      BY <1>1, <1>3, <2>2, <2>3, <3>1, AdmitsOne
  <2>4. CASE r.op # "signUp"
    BY <1>1, <2>1, <2>2, <2>4, ExecutedAdmits, GrantSteps
  <2> QED
    BY <2>3, <2>4
<1>5. CASE Allow(c, s) \/ Disallow(c, s) \/ UpdateUser(c, s) \/ SetKey(c, s) \/ UploadPicture(c, s)
  <2>1. Executed(c, s) /\ s.op \in {"allow", "disallow", "updateUser", "setKey", "upload"} /\ UNCHANGED session
    BY <1>5 DEF Allow, Disallow, UpdateUser, SetKey, UploadPicture
  <2> QED
    BY <1>1, <1>2, <2>1, ExecutedAdmits, GrantSteps DEF Offering
<1>6. CASE SetPassword(c, s)
  <2>1. Executed(c, s) /\ s.op = "setPassword" /\ r.doc \in DOMAIN session /\ r.doc \in AllAccounts
    BY <1>6, Accounted DEF SetPassword, Inv
  <2>2. session' = [b \in DOMAIN session |-> IF b = r.doc THEN None ELSE session[b]]
    BY <1>1, <1>6 DEF SetPassword, SessionsOK
  <2>3. InForce' = [InForce EXCEPT ![r.doc] = None]
    BY <2>1, <2>2, InForceNext
  <2>4. Admitted' = Admitted
    BY <1>1, <2>1, ExecutedAdmits DEF Offering
  <2> QED
    BY <2>1, <2>3, <2>4, GrantSteps
<1>7. CASE DeleteUser(c, s)
  <2> DEFINE a == User(r.doc[2])
  <2>1. Executed(c, s) /\ s.op = "deleteUser" /\ Remove(a)
    BY <1>7 DEF DeleteUser
  <2>2. a \in AllAccounts
    BY <1>7, Accounted DEF DeleteUser, Inv
  <2> HIDE DEF a
  <2>3. InForce' = [InForce EXCEPT ![a] = None]
    BY <2>1, <2>2, InForceNext
  <2>4. Admitted' = Admitted
    BY <1>1, <2>1, ExecutedAdmits DEF Offering
  <2> QED
    BY <2>2, <2>3, <2>4, GrantSteps
<1>8. CASE LogIn(c, s)
  <2>1. s.op \notin Offering /\ UNCHANGED session /\ r.op # "refreshToken"
    BY <1>8 DEF LogIn, Offering
  <2>2. CASE Sends(c, {})
    <3>1. Admitted' = Admitted
      BY <1>1, <2>1, <2>2, AdmitsNobody DEF Sends
    <3> QED
      BY <1>2, <2>1, <3>1, GrantSteps
  <2>3. CASE \E a \in DOMAIN session : Sends(c, {Sign(a)})
    BY <1>1, <1>2, <2>1, <2>3, Accounted, AdmitsOne DEF Inv
  <2> QED
    BY <1>8, <2>2, <2>3, StaffReads DEF Inv
<1>9. CASE SignUp(c, s) \/ ReadUserForPassword(c, s) \/ CreateEmployee(c, s) \/ UpdateAccount(c, s) \/ RemoveEmployee(c, s)
  <2>1. s.op = "read" /\ UNCHANGED session
    BY <1>9 DEF SignUp, ReadUserForPassword, CreateEmployee, UpdateAccount, RemoveEmployee
  <2>2. \A t \in Sent(c)' : t.op \notin Offering
    <3>1. CASE SignUp(c, s)
      <4>1. \A t \in Sent(c)' : t = Insert(c)
        BY <3>1, StaffReads DEF Inv, Sends
      <4> QED
        BY <4>1 DEF Insert, Offering
    <3>2. CASE ReadUserForPassword(c, s)
      BY <3>2, StaffReads DEF Inv, Sends, Bare, Offering
    <3>3. CASE CreateEmployee(c, s)
      <4>1. \A t \in Sent(c)' : t = Insert(c) \/ t = Allows(r.email)
        BY <3>3, StaffReads DEF Inv, Sends
      <4> QED
        BY <4>1 DEF Insert, Allows, Offering
    <3>4. CASE UpdateAccount(c, s)
      BY <3>4, StaffReads DEF Inv, Sends, Bare, EmailsFollow, Offering
    <3>5. CASE RemoveEmployee(c, s)
      BY <3>5, StaffReads DEF Inv, Sends, Bare, Disallows, Offering
    <3> QED
      BY <1>9, <3>1, <3>2, <3>3, <3>4, <3>5
  <2>3. Admitted' = Admitted
    BY <1>1, <2>1, <2>2, AdmitsNobody DEF Offering
  <2> QED
    BY <1>2, <2>1, <2>3, GrantSteps
<1> QED
  BY <1>4, <1>5, <1>6, <1>7, <1>8, <1>9 DEF StaffStep

(* Every step of the storefront's services is a step of TokenGrants, or a  *)
(* stutter.                                                                *)
LEMMA StorefrontGrants ==
  ASSUME Inv, NEW c \in Calls, NEW s \in Sent(c), StorefrontStep(c, s)
  PROVE  Granted!Next
<1> DEFINE r == Request(c)
<1>1. Acts(c, s) /\ SessionsOK
  BY TypeParts DEF Acts, Inv
<1>2. UNCHANGED session => InForce' = InForce
  BY DEF InForce
<1>3. Customer(c) \in AllAccounts
  BY DEF AllAccounts, CustomerIds
<1>4. CASE InsertCustomer(c, s)
  <2>1. Customer(c) \notin DOMAIN session /\ Open(Customer(c)) /\ s.op = "insertCustomer" /\ Executed(c, s)
    BY <1>1, <1>4, InsertCustomerOK, SessionOf DEF InsertCustomer
  <2>2. InForce' = InForce /\ s.op \notin Offering
    BY <1>3, <2>1, InForceNext DEF Offering
  <2>3. CASE r.op = "signUpCustomer"
    <3>1. Sends(c, {Sign(Customer(c))})
      BY <2>1, <2>3, ExecutedSends DEF Leaves, Inv
    <3> QED
      BY <1>1, <1>3, <2>2, <2>3, <3>1, AdmitsOne
  <2>4. CASE r.op # "signUpCustomer"
    BY <1>1, <2>1, <2>2, <2>4, ExecutedAdmits, GrantSteps
  <2> QED
    BY <2>3, <2>4
<1>5. CASE WriteCustomer(c, s) \/ ForgetCode(c, s)
  <2>1. Executed(c, s) /\ s.op \in {"writeCustomer", "forget"} /\ UNCHANGED session
    BY <1>5 DEF WriteCustomer, ForgetCode
  <2> QED
    BY <1>1, <1>2, <2>1, ExecutedAdmits, GrantSteps DEF Offering
<1>6. CASE DeleteCustomer(c, s)
  <2> DEFINE a == Customer(r.doc[2])
  <2>1. Executed(c, s) /\ s.op = "deleteCustomer" /\ Remove(a)
    BY <1>6 DEF DeleteCustomer
  <2>2. a \in AllAccounts
    BY <1>6, Accounted DEF DeleteCustomer, Inv
  <2> HIDE DEF a
  <2>3. InForce' = [InForce EXCEPT ![a] = None]
    BY <2>1, <2>2, InForceNext
  <2>4. Admitted' = Admitted
    BY <1>1, <2>1, ExecutedAdmits DEF Offering
  <2> QED
    BY <2>2, <2>3, <2>4, GrantSteps
<1>7. CASE GetCustomer(c, s)
  <2>1. s.op \notin Offering /\ UNCHANGED session /\ r.op # "refreshToken"
    BY <1>7, Sending DEF GetCustomer, Offering, Inv
  <2>2. CASE Sends(c, {})
    <3>1. Admitted' = Admitted
      BY <1>1, <2>1, <2>2, AdmitsNobody DEF Sends
    <3> QED
      BY <1>2, <2>1, <3>1, GrantSteps
  <2>3. CASE \E a \in DOMAIN session : Sends(c, {Sign(a)})
    BY <1>1, <1>2, <2>1, <2>3, Accounted, AdmitsOne DEF Inv
  <2> QED
    BY <1>7, <2>2, <2>3, StorefrontReads DEF Inv
<1>8. CASE /\ s.op \notin Offering /\ UNCHANGED session
           /\ \A t \in Sent(c)' : t.op \notin Offering
  BY <1>1, <1>2, <1>8, AdmitsNobody, GrantSteps
<1>9. CASE SendOtp(c, s)
  BY <1>8, <1>9, StorefrontReads DEF Inv, Sends, SendOtp, Offering
<1>10. CASE ValidateOtp(c, s)
  BY <1>8, <1>10, StorefrontReads DEF Inv, Sends, ValidateOtp, Offering, Bare
<1>11. CASE FindCustomer(c, s)
  BY <1>8, <1>11, StorefrontReads DEF Inv, Sends, FindCustomer, Offering, Bare
<1>12. CASE SignUpCustomer(c, s)
  BY <1>8, <1>12, StorefrontReads DEF Inv, Sends, SignUpCustomer, Offering, Inserts
<1>13. CASE SendChangeOtp(c, s)
  BY <1>8, <1>13, StorefrontReads DEF Inv, Sends, SendChangeOtp, Offering
<1>14. CASE AcceptCode(c, s)
  BY <1>8, <1>14, StorefrontReads DEF Inv, Sends, AcceptCode, Offering, Writes
<1>15. CASE CreateCustomer(c, s)
  BY <1>8, <1>15, StorefrontReads DEF Inv, Sends, CreateCustomer, Offering, Inserts
<1>16. CASE UpdateCustomer(c, s)
  BY <1>8, <1>16, StorefrontReads DEF Inv, Sends, UpdateCustomer, Offering, Writes
<1>17. CASE ReadCustomer(c, s)
  BY <1>8, <1>17, StorefrontReads DEF Inv, Sends, ReadCustomer, Offering, Bare
<1> QED
  BY <1>4, <1>5, <1>6, <1>7, <1>9, <1>10, <1>11, <1>12, <1>13, <1>14, <1>15, <1>16, <1>17 DEF StorefrontStep

(* Both AuthServices, and all that changes an account, hand tokens out as  *)
(* TokenGrants says: a token comes into force only for a call that was     *)
(* admitted, and once; and an account that goes leaves none in force.      *)
THEOREM TokensGranted == Spec => GrantsTokens
<1>1. Init => Granted!Init
  <2> SUFFICES ASSUME Init PROVE Granted!Init
    OBVIOUS
  <2>1. \A c \in Calls : Sent(c) = {}
    BY DEF Init, HandlersInit, Sent, Running, Blank
  <2>2. Admitted = {}
    BY <2>1 DEF Admitted
  <2>3. \A a \in DOMAIN session : session[a] \in TokensOf(a)
    BY SecondsAssumption DEF Init, SessionsInit, TokensOf
  <2>4. InForce \in [AllAccounts -> {None} \cup UNION {TokensOf(a) : a \in AllAccounts}]
    BY <2>3 DEF InForce
  <2> QED
    BY <2>2, <2>4 DEF Granted!Init
<1>2. Inv /\ [Next]_vars => [Granted!Next]_(Granted!grants)
  <2> SUFFICES ASSUME Inv, [Next]_vars PROVE Granted!Next \/ UNCHANGED Granted!grants
    OBVIOUS
  <2>1. UNCHANGED session => InForce' = InForce
    BY DEF InForce
  <2>2. CASE UNCHANGED vars \/ PassSecond
    <3>1. UNCHANGED <<session, call>>
      BY <2>2 DEF vars, PassSecond
    <3>2. Admitted' = Admitted
      BY <3>1 DEF Admitted, Sent, Running, Request, Shown
    <3> QED
      BY <2>1, <3>1, <3>2 DEF Granted!grants
  <2>3. CASE Crash
    <3>1. UNCHANGED session /\ \A c \in Calls : Sent(c)' = {}
      BY <2>3, CrashMoves DEF Crash
    <3>2. Admitted' \subseteq Admitted
      BY <3>1 DEF Admitted
    <3> QED
      BY <2>1, <3>1, <3>2, GrantSteps
  <2>4. CASE \E c \in Calls : ReceiveRequest(c)
    <3>1. PICK c \in Calls : ReceiveRequest(c)
      BY <2>4
    <3>2. UNCHANGED session /\ Alone(c) /\ Sent(c)' = {Bare("read")}
      BY <3>1, ReceiveMoves
    <3>3. \A b \in Calls \ {c} : Offered(b)' = Offered(b)
      BY <3>2 DEF Offered, Alone, Sent, Running, Request, Shown
    <3>4. Offered(c)' = {}
      BY <3>2 DEF Offered, Offering, Bare
    <3>5. Admitted' \subseteq Admitted
      BY <3>3, <3>4, AdmittedNext
    <3> QED
      BY <2>1, <3>2, <3>5, GrantSteps
  <2>5. CASE \E c \in Calls : Serve(c)
    <3>1. PICK c \in Calls : Serve(c)
      BY <2>5
    <3>2. PICK s \in Sent(c) :
            \/ SessionStep(c, s) \/ StaffStep(c, s) \/ StorefrontStep(c, s)
            \/ Lose(c, s) /\ UNCHANGED session
      BY <3>1 DEF Serve
    <3>3. CASE Lose(c, s) /\ UNCHANGED session
      <4>1. Acts(c, s) /\ Moved(c) /\ Sent(c)' = Sent(c) \ {s}
        BY <3>3, Lost DEF Acts, Inv, Sends
      <4>2. Offered(c)' \subseteq Offered(c)
        <5>1. Sent(c)' # {} => Request(c)' = Request(c)
          BY <4>1 DEF Moved, Sent
        <5> QED
          BY <4>1, <5>1 DEF Offered, Shown
      <4>3. Admitted' \subseteq Admitted
        BY <4>1, <4>2, Offers, AdmittedNext
      <4> QED
        BY <2>1, <3>3, <4>3, GrantSteps
    <3> QED
      BY <3>2, <3>3, SessionGrants, StaffGrants, StorefrontGrants
  <2> QED
    BY <2>2, <2>3, <2>4, <2>5 DEF Next
<1> QED
  BY <1>1, <1>2, Invariant, PTL DEF Spec, GrantsTokens, Granted!Spec
-----------------------------------------------------------------------------
(* Past its read, a call gives its user an e-mail (a taker), or takes one  *)
(* from it (a mover), or both.                                             *)
Taker(c) == Past(c) /\ Request(c).op \in {"signUp", "createEmployee", "updateEmployee", "updateMe"}
Mover(c) == Past(c) /\ Request(c).op \in {"updateEmployee", "updateMe", "removeEmployee"}
Changing(c) == Taker(c) \/ Mover(c)
Pending(c, op) == \E s \in Sent(c) : s.op = op
Row(c) == Pending(c, "insertUser") \/ Pending(c, "updateUser")
Calm(c) == Request(c).doc \notin disturbed
Its(c) == Request(c).doc[2]

(* Two calls on a user that nothing has disturbed do not overlap, and who  *)
(* moves a user has found it.                                              *)
OneChanging ==
  \A b, c \in Calls : b # c /\ Changing(b) /\ Changing(c) /\ Request(b).doc = Request(c).doc => ~ Calm(b)
BornFirst == \A c \in Calls : Mover(c) /\ Its(c) \in Calls => ~ Unborn(Its(c))

(* An undisturbed user: who disallows its e-mail is at work on it; while   *)
(* nobody is, the e-mail is allowed; its picture is there or on its way.   *)
DisallowedByOwn(u) == \A b \in Disallowing(users[u].email) : Request(b).doc = User(u)
AllowedOrChanging(u) == users[u].email \in allowed \/ \E b \in Calls : Changing(b) /\ Request(b).doc = User(u)
PictureOrUpload(u) ==
  users[u].picture => u \in pictures \/ \E b \in Calls : Pending(b, "upload") /\ Request(b).doc = User(u)
UsersKept ==
  \A u \in DOMAIN users : User(u) \notin disturbed => DisallowedByOwn(u) /\ AllowedOrChanging(u) /\ PictureOrUpload(u)

(* An undisturbed call: nobody is about to disallow the e-mail that it is  *)
(* about to give; it gives it or has given it, and allows it or has done   *)
(* so; what it deletes is there no longer; the key goes with the file.     *)
GivesOrGave(c) == Row(c) \/ (Its(c) \in DOMAIN users /\ users[Its(c)].email = Request(c).email)
AllowsOrAllowed(c) == Pending(c, "allow") \/ Request(c).email \in allowed
CallKept(c) ==
  /\ Row(c) => Disallowing(Request(c).email) = {}
  /\ Taker(c) => GivesOrGave(c) /\ AllowsOrAllowed(c)
  /\ Request(c).op = "removeEmployee" => Pending(c, "deleteUser") \/ Its(c) \notin DOMAIN users
  /\ Pending(c, "setKey") => Pending(c, "upload") \/ Its(c) \in pictures
CallsKeep == \A c \in Calls : Past(c) /\ Calm(c) => CallKept(c)

AllowedInv == OneChanging /\ BornFirst /\ UsersKept /\ CallsKeep

(* A plan begins with a stage that is not empty.                           *)
LEMMA PlanBegins ==
  ASSUME NEW c, NEW r, NEW st, Plan(c, r, st)
  PROVE  Head(st) # {}
<1>1. \A x, y : Head(<<x, y>>) = x /\ Head(<<x>>) = x
  OBVIOUS
<1>2. st = Reading => Head(st) # {}
  <2>1. \A x : Head(<<{x}>>) # {}
    BY <1>1
  <2> QED
    BY <2>1 DEF Reading
<1>3. SessionPlan(r, st) => Head(st) # {}
  <2> SUFFICES ASSUME SessionPlan(r, st) PROVE \E x : st = <<{x}>>
    BY <1>1
  <2> QED
    BY DEF SessionPlan
<1>4. StaffPlan(c, r, st) => Head(st) # {}
  <2> SUFFICES ASSUME StaffPlan(c, r, st) PROVE Head(st) # {}
    OBVIOUS
  <2>1. CASE \E T : st = <<T>> /\ T # {}
    BY <1>1, <2>1
  <2>2. CASE \E x, y : st = <<{x}, y>>
    BY <1>1, <2>2
  <2>3. CASE \E x : st = <<{x}>>
    BY <1>1, <2>3
  <2> QED
    BY <2>1, <2>2, <2>3 DEF StaffPlan
<1>5. StorefrontPlan(c, r, st) => Head(st) # {}
  <2> SUFFICES ASSUME StorefrontPlan(c, r, st) PROVE (\E x, y : st = <<{x}, y>>) \/ \E x : st = <<{x}>>
    BY <1>1
  <2> QED
    BY DEF StorefrontPlan
<1> QED
  BY <1>2, <1>3, <1>4, <1>5 DEF Plan

(* Where the calls are after a step of call c.                             *)
LEMMA After ==
  ASSUME Inv, NEW c \in Calls, NEW s \in Sent(c), Acts(c, s)
  PROVE  /\ \A b \in Calls \ {c} : (Past(b)' <=> Past(b)) /\ Request(b)' = Request(b) /\ Sent(b)' = Sent(b)
         /\ Past(c)' <=> Sent(c)' # {}
         /\ Sent(c)' # {} => Request(c)' = Request(c)
         /\ Past(c) <=> s.op # "read"
         /\ disturbed \subseteq disturbed'
<1>1. Moved(c) /\ disturbed \subseteq disturbed' /\ \A t \in Sent(c)' : t.op # "read"
  BY Moves, DisturbedGrows DEF Inv
<1>2. \A b \in Calls \ {c} : (Past(b)' <=> Past(b)) /\ Request(b)' = Request(b) /\ Sent(b)' = Sent(b)
  BY <1>1, Others
<1>3. Past(c) <=> s.op # "read"
  <2>1. Running(c) /\ (Past(c) => \A t \in Sent(c) : t.op # "read") /\ (~ Past(c) => Sent(c) = {Bare("read")})
    BY PastSends DEF Inv, Sent
  <2> QED
    BY <2>1 DEF Bare
<1>4. Running(c)' <=> Sent(c)' # {}
  <2>1. Running(c)' => Plan(c, Request(c), call'[c].stages) /\ Sent(c)' = Head(call'[c].stages)
    BY <1>1 DEF Moved, Sent
  <2>2. Running(c)' => Sent(c)' # {}
    BY <2>1, PlanBegins
  <2> QED
    BY <2>2 DEF Sent
<1>5. Running(c)' => call'[c].stages # Reading
  <2>1. Bare("read").op = "read" /\ \A x : Head(<<x>>) = x
    BY DEF Bare
  <2> QED
    BY <1>1, <2>1 DEF Sent, Reading, Bare
<1> QED
  BY <1>1, <1>2, <1>3, <1>4, <1>5 DEF Past, Moved

(* Who changes a user, and which statements it sends.                      *)
LEMMA Changers ==
  ASSUME Inv, NEW c \in Calls, Changing(c)
  PROVE  /\ Request(c).doc = User(Its(c)) /\ Its(c) \in UserIds
         /\ Request(c).op \in {"signUp", "createEmployee"} => Its(c) = c
         /\ Taker(c) => Request(c).email \in Emails
<1>1. Understood(c, Request(c))
  BY DEF Changing, Taker, Mover, Past, Inv, CallsOK
<1>2. c \in UserIds
  BY DEF UserIds
<1> QED
  BY <1>1, <1>2, SameUser DEF Understood, Changing, Taker, Mover, Its

Changes == {"insertUser", "allow", "disallow", "updateUser", "setKey", "upload", "deleteUser"}

(* A statement that changes a user or its e-mail comes from a call that is *)
(* past its read, and says what that call asks for.                        *)
LEMMA ChangesOf ==
  ASSUME Inv, NEW c \in Calls, NEW s \in Sent(c)
  PROVE  /\ s.op \in Changes => Changing(c) /\ Past(c)
         /\ s.op = "insertUser" => Taker(c) /\ Its(c) = c /\ Request(c).op \in {"signUp", "createEmployee"}
         /\ s.op = "allow" => Taker(c) /\ s.email = Request(c).email
         /\ s.op = "disallow" => /\ Mover(c)
                                 /\ Taker(c) => s.email # Request(c).email
                                 /\ ~ Taker(c) => Request(c).op = "removeEmployee"
         /\ s.op \in {"updateUser", "setKey", "upload"} => Taker(c) /\ Mover(c)
         /\ s.op = "deleteUser" => Request(c).op = "removeEmployee" /\ Mover(c) /\ ~ Taker(c)
<1> DEFINE r == Request(c)
           st == call[c].stages
<1> HIDE DEF st
<1>1. s.op # "read" => Past(c)
  <2>1. Running(c) /\ (~ Past(c) => Sent(c) = {Bare("read")})
    BY PastSends DEF Inv, Sent
  <2> QED
    BY <2>1 DEF Bare
<1>2. Understood(c, r) /\ Plan(c, r, st) /\ s \in Head(st)
  BY DEF Inv, CallsOK, Sent, st
<1>3. \A x, y : Head(<<x, y>>) = x /\ Head(<<x>>) = x
  OBVIOUS
<1>4. s.op = "insertUser" => r.op \in {"signUp", "createEmployee"}
  BY Sending DEF Inv
<1>5. s.op = "allow" => r.op \in {"createEmployee", "updateEmployee", "updateMe"} /\ s.email = r.email
  BY Sending DEF Inv, Allows
<1>6. s.op \in {"updateUser", "setKey", "upload"} => r.op \in {"updateEmployee", "updateMe"}
  BY Sending DEF Inv
<1>7. s.op = "deleteUser" => r.op = "removeEmployee"
  BY Sending DEF Inv
<1>8. s.op = "disallow" => /\ r.op \in {"updateEmployee", "updateMe", "removeEmployee"}
                           /\ r.op # "removeEmployee" => s.email # r.email
  <2> SUFFICES ASSUME s.op = "disallow"
               PROVE  /\ r.op \in {"updateEmployee", "updateMe", "removeEmployee"}
                      /\ r.op # "removeEmployee" => s.email # r.email
    OBVIOUS
  <2>1. r.op \in {"updateEmployee", "updateMe", "removeEmployee"} /\ \E T : st = <<T>> /\ s \in T
    BY Sending DEF Inv, st
  <2>2. PICK T : st = <<T>> /\ s \in T
    BY <2>1
  <2>3. r.op # "removeEmployee" => \E old \in Emails : s \in EmailsFollow(old, r.email)
    <3>1. st # Reading
      BY <1>3, <2>2 DEF Reading
    <3>2. r.op # "removeEmployee" => StaffPlan(c, r, st)
      BY <1>2, <2>1, <3>1 DEF Plan, SessionPlan, StorefrontPlan, Admitting
    <3>3. r.op # "removeEmployee" =>
            \E old \in Emails : T \subseteq {Bare("updateUser"), Bare("setKey"), Bare("upload")} \cup EmailsFollow(old, r.email)
      BY <1>3, <2>1, <2>2, <3>2 DEF StaffPlan
    <3> QED
      BY <2>2, <3>3 DEF Bare
  <2> QED
    BY <2>1, <2>3 DEF EmailsFollow
<1>9. s.op = "insertUser" => Its(c) = c
  BY <1>2, <1>4, SameUser DEF Understood, Its
<1> QED
  BY <1>1, <1>4, <1>5, <1>6, <1>7, <1>8, <1>9 DEF Changes, Changing, Taker, Mover

(* A statement of call c that succeeds or fails begins nothing: what       *)
(* changes users has changed them before.                                  *)
Continues(c) ==
  /\ \A b \in Calls : Past(b)' => Past(b) /\ Request(b)' = Request(b)
  /\ \A b \in Calls : \A t \in Sent(b)' : t.op \in Changes => t \in Sent(b)
  /\ \A b \in Calls \ {c} : (Past(b)' <=> Past(b)) /\ Request(b)' = Request(b) /\ Sent(b)' = Sent(b)
  /\ \A b \in Calls : Unborn(b)' => Unborn(b)
  /\ disturbed \subseteq disturbed'

(* After a statement, whether it succeeds or fails, what is sent of this   *)
(* kind was sent before.                                                   *)
LEMMA Continuing ==
  ASSUME Inv, NEW c \in Calls, NEW s \in Sent(c), Acts(c, s), s.op # "read"
  PROVE  Continues(c)
<1>1. /\ \A b \in Calls \ {c} : (Past(b)' <=> Past(b)) /\ Request(b)' = Request(b) /\ Sent(b)' = Sent(b)
      /\ Past(c)' <=> Sent(c)' # {}
      /\ Sent(c)' # {} => Request(c)' = Request(c)
      /\ Past(c)
      /\ disturbed \subseteq disturbed'
  BY After
<1>2. Moved(c) /\ \A t \in Sent(c)' : t.op # "read" /\ (t \in Sent(c) \/ t.op \in Turns)
  BY Moves DEF Inv
<1>3. \A b \in Calls : \A t \in Sent(b)' : t.op \in Changes => t \in Sent(b)
  BY <1>1, <1>2 DEF Changes, Turns
<1>4. \A b \in Calls : Unborn(b)' => Unborn(b)
  BY <1>1, <1>2 DEF Unborn, Moved, Alone, Turns
<1> QED
  BY <1>1, <1>3, <1>4 DEF Continues

(* Such a step lets nobody begin to work on a user beside somebody else.   *)
LEMMA AloneContinues ==
  ASSUME OneChanging, BornFirst, NEW c \in Calls, Continues(c)
  PROVE  OneChanging' /\ BornFirst'
<1>1. OneChanging'
  BY DEF OneChanging, Continues, Changing, Taker, Mover, Calm
<1>2. BornFirst'
  BY DEF BornFirst, Continues, Mover, Its
<1> QED
  BY <1>1, <1>2

(* A call that has nothing to do but statement s has given its e-mail and  *)
(* allowed it, or has deleted its user.                                    *)
LEMMA Finished ==
  ASSUME Inv, CallsKeep, NEW c \in Calls, NEW s \in Sent(c), Changing(c), Calm(c), Sent(c) \ {s} = {}, NEW u,
         u = Its(c), u \in DOMAIN users
  PROVE  /\ s.op \notin {"insertUser", "updateUser"} => ~ Taker(c) \/ users[u].email = Request(c).email
         /\ s.op # "allow" => ~ Taker(c) \/ Request(c).email \in allowed
         /\ Taker(c) \/ s.op = "deleteUser"
<1>1. \A op : Pending(c, op) => s.op = op
  BY DEF Pending
<1>2. CallKept(c)
  BY DEF CallsKeep, Changing, Taker, Mover
<1> QED
  BY <1>1, <1>2 DEF CallKept, GivesOrGave, AllowsOrAllowed, Row, Changing, Taker, Mover

(* What a step of a call that changes a user means for the other users and *)
(* for the other calls: an e-mail that it takes from the allowed ones is   *)
(* not theirs.                                                             *)
Kept(u) == User(u) \notin disturbed => DisallowedByOwn(u) /\ AllowedOrChanging(u) /\ PictureOrUpload(u)
Keeps(c) == Past(c) /\ Calm(c) => CallKept(c)
Spares(c) ==
  /\ pictures \subseteq pictures'
  /\ \A v \in DOMAIN users \cup DOMAIN users' :
       v # Its(c) => v \in DOMAIN users /\ v \in DOMAIN users' /\ users'[v] = users[v]
  /\ \A e \in allowed \ allowed' : c \in Disallowing(e)

(* A step on one user keeps the others, and the calls on them, as          *)
(* AllowedInv says.                                                        *)
LEMMA Elsewhere ==
  ASSUME Inv, AllowedInv, NEW c \in Calls, Changing(c), Continues(c), Spares(c)
  PROVE  /\ \A u \in DOMAIN users' : u # Its(c) => Kept(u)'
         /\ \A b \in Calls \ {c} : Keeps(b)'
<1>1. Request(c).doc = User(Its(c))
  BY Changers
<1>2. \A e : Disallowing(e)' \subseteq Disallowing(e)
  <2>1. "disallow" \in Changes
    BY DEF Changes
  <2> QED
    BY <2>1 DEF Continues, Disallowing
<1>3. ASSUME NEW u \in DOMAIN users', u # Its(c), User(u) \notin disturbed'
      PROVE  DisallowedByOwn(u)' /\ AllowedOrChanging(u)' /\ PictureOrUpload(u)'
  <2>1. u \in DOMAIN users /\ users'[u] = users[u] /\ User(u) \notin disturbed
    BY <1>3 DEF Spares, Continues
  <2>2. DisallowedByOwn(u) /\ AllowedOrChanging(u) /\ PictureOrUpload(u)
    BY <2>1 DEF AllowedInv, UsersKept
  <2>3. Request(c).doc # User(u)
    BY <1>1, <1>3, SameUser
  <2>4. DisallowedByOwn(u)'
    <3>1. \A b \in Disallowing(users[u].email) : Request(b).doc = User(u)
      BY <2>2 DEF DisallowedByOwn
    <3>2. c \notin Disallowing(users[u].email)
      BY <2>3, <3>1
    <3>3. \A b \in Disallowing(users[u].email)' : b \in Calls /\ b \in Disallowing(users[u].email)
      BY <1>2, <2>1 DEF Disallowing
    <3>4. \A b \in Disallowing(users[u].email)' : Request(b)' = Request(b)
      BY <3>2, <3>3 DEF Continues
    <3> QED
      BY <3>1, <3>3, <3>4 DEF DisallowedByOwn
  <2>5. AllowedOrChanging(u)'
    <3>1. CASE users[u].email \in allowed
      <4>1. users[u].email \in allowed'
        BY <2>2, <2>3, <3>1 DEF DisallowedByOwn, Spares
      <4> QED
        BY <2>1, <4>1 DEF AllowedOrChanging
    <3>2. CASE \E b \in Calls : Changing(b) /\ Request(b).doc = User(u)
      BY <2>3, <3>2 DEF Continues, AllowedOrChanging, Changing, Taker, Mover
    <3> QED
      BY <2>2, <3>1, <3>2 DEF AllowedOrChanging
  <2>6. PictureOrUpload(u)'
    BY <2>1, <2>2, <2>3 DEF PictureOrUpload, Spares, Continues, Pending
  <2> QED
    BY <2>4, <2>5, <2>6
<1>4. ASSUME NEW b \in Calls \ {c}, Past(b)', Calm(b)'
      PROVE  CallKept(b)'
  <2>1. Past(b) /\ Calm(b) /\ Request(b)' = Request(b) /\ Sent(b)' = Sent(b)
    BY <1>4 DEF Continues, Calm
  <2>2. CallKept(b)
    BY <2>1 DEF AllowedInv, CallsKeep
  <2>3. /\ \A op : Pending(b, op)' <=> Pending(b, op)
        /\ Row(b)' <=> Row(b)
        /\ Taker(b)' <=> Taker(b)
        /\ Its(b)' = Its(b)
    BY <1>4, <2>1 DEF Pending, Row, Taker, Its
  <2>4. CASE ~ Changing(b)
    <3>1. ~ Row(b) /\ ~ Taker(b) /\ Request(b).op # "removeEmployee" /\ ~ Pending(b, "setKey")
      BY <2>1, <2>4, ChangesOf DEF Row, Pending, Changes, Changing, Taker, Mover
    <3> QED
      BY <2>1, <2>3, <3>1 DEF CallKept
  <2>5. CASE Changing(b)
    <3>1. Request(b).doc = User(Its(b)) /\ Its(b) # Its(c)
      BY <1>1, <2>1, <2>5, Changers DEF AllowedInv, OneChanging
    <3>2. (Its(b) \in DOMAIN users <=> Its(b) \in DOMAIN users') /\ (Its(b) \in DOMAIN users => users'[Its(b)] = users[Its(b)])
      BY <3>1 DEF Spares
    <3>3. Taker(b) => Request(b).email \in allowed \/ Pending(b, "allow")
      BY <2>2 DEF CallKept, AllowsOrAllowed
    <3>4. Taker(b) /\ Request(b).email \in allowed => Request(b).email \in allowed'
      <4> SUFFICES ASSUME Taker(b), c \in Disallowing(Request(b).email) PROVE FALSE
        BY DEF Spares
      <4>1. ~ Row(b)
        BY <2>2 DEF CallKept
      <4>2. Its(b) \in DOMAIN users /\ users[Its(b)].email = Request(b).email
        BY <2>2, <4>1 DEF CallKept, GivesOrGave
      <4>3. User(Its(b)) \notin disturbed
        BY <2>1, <3>1 DEF Calm
      <4>4. Request(c).doc = User(Its(b))
        BY <4>2, <4>3 DEF AllowedInv, UsersKept, DisallowedByOwn
      <4> QED
        BY <1>1, <3>1, <4>4, SameUser
    <3>5. Row(b) => Disallowing(Request(b).email)' = {}
      <4>1. Row(b) => \A d \in Calls : \A t \in Sent(d) : ~ (t.op = "disallow" /\ t.email = Request(b).email)
        BY <2>2 DEF CallKept, Disallowing
      <4>2. Row(b) => \A d \in Calls : \A t \in Sent(d)' : ~ (t.op = "disallow" /\ t.email = Request(b).email)
        BY <4>1 DEF Continues, Changes
      <4> QED
        BY <2>1, <4>2 DEF Disallowing
    <3>6. Taker(b) => GivesOrGave(b)' /\ AllowsOrAllowed(b)'
      BY <2>1, <2>2, <2>3, <3>2, <3>3, <3>4 DEF CallKept, GivesOrGave, AllowsOrAllowed
    <3>7. Request(b).op = "removeEmployee" => Pending(b, "deleteUser") \/ Its(b) \notin DOMAIN users'
      BY <2>2, <3>2 DEF CallKept
    <3>8. Pending(b, "setKey") => Pending(b, "upload") \/ Its(b) \in pictures'
      BY <2>2 DEF CallKept, Spares
    <3> QED
      BY <2>1, <2>3, <3>5, <3>6, <3>7, <3>8 DEF CallKept
  <2> QED
    BY <2>4, <2>5
<1>5. \A u \in DOMAIN users' : u # Its(c) => Kept(u)'
  BY <1>3 DEF Kept
<1>6. \A b \in Calls \ {c} : Keeps(b)'
  BY <1>4 DEF Keeps
<1> QED
  BY <1>5, <1>6

(* The calls and the tables that a user's e-mail depends on are as before. *)
LEMMA Unaffected ==
  ASSUME AllowedInv, UNCHANGED staff, disturbed \subseteq disturbed',
         \A b \in Calls : (Past(b)' <=> Past(b)) /\ Request(b)' = Request(b) /\ Sent(b)' = Sent(b) /\ (Unborn(b)' => Unborn(b))
  PROVE  AllowedInv'
<1>1. \A e : Disallowing(e)' = Disallowing(e) /\ Disallowing(e) \subseteq Calls
  BY DEF Disallowing
<1>2. \A b \in Calls : /\ Taker(b)' <=> Taker(b)
                       /\ Mover(b)' <=> Mover(b)
                       /\ Changing(b)' <=> Changing(b)
                       /\ Row(b)' <=> Row(b)
                       /\ Calm(b)' => Calm(b)
                       /\ Its(b)' = Its(b)
                       /\ \A op : Pending(b, op)' <=> Pending(b, op)
  BY DEF Taker, Mover, Changing, Row, Pending, Its, Calm
<1>3. users' = users /\ allowed' = allowed /\ pictures' = pictures
  BY DEF staff
<1>4. OneChanging' /\ BornFirst'
  BY <1>2 DEF AllowedInv, OneChanging, BornFirst
<1>5. UsersKept'
  BY <1>1, <1>2, <1>3 DEF AllowedInv, UsersKept, DisallowedByOwn, AllowedOrChanging, PictureOrUpload
<1>6. CallsKeep'
  BY <1>1, <1>2, <1>3 DEF AllowedInv, CallsKeep, CallKept, GivesOrGave, AllowsOrAllowed
<1> QED
  BY <1>4, <1>5, <1>6 DEF AllowedInv

(* What changes users is never sent beside something else.                 *)
LEMMA Together ==
  ASSUME Inv, NEW c \in Calls, NEW s \in Sent(c), NEW t \in Sent(c), t.op \in Changes
  PROVE  s.op \in Changes
<1> DEFINE r == Request(c)
           st == call[c].stages
<1> HIDE DEF st
<1>1. Plan(c, r, st) /\ s \in Head(st) /\ t \in Head(st)
  BY DEF Inv, CallsOK, Sent, st
<1>2. \A x, y : Head(<<x, y>>) = x /\ Head(<<x>>) = x
  OBVIOUS
<1>3. CASE \E x, y : st = <<{x}, y>> \/ st = <<{x}>>
  BY <1>1, <1>2, <1>3
<1>4. st = Reading => \E x : st = <<{x}>>
  BY DEF Reading
<1>5. SessionPlan(r, st) => \E x : st = <<{x}>>
  BY DEF SessionPlan
<1>6. StorefrontPlan(c, r, st) => \E x, y : st = <<{x}, y>> \/ st = <<{x}>>
  BY DEF StorefrontPlan
<1>7. CASE StaffPlan(c, r, st)
  <2>1. CASE \E T : /\ st = <<T>>
                    /\ \E old : T \subseteq {Insert(c), Allows(r.email), Bare("updateUser"), Bare("setKey"), Bare("upload"),
                                             Bare("deleteUser"), Disallows(old)} \cup EmailsFollow(old, r.email)
    <3>1. PICK T : /\ st = <<T>>
                   /\ \E old : T \subseteq {Insert(c), Allows(r.email), Bare("updateUser"), Bare("setKey"), Bare("upload"),
                                            Bare("deleteUser"), Disallows(old)} \cup EmailsFollow(old, r.email)
      BY <2>1
    <3>2. s \in T
      BY <1>1, <1>2, <3>1
    <3>3. \A old : /\ \A x \in EmailsFollow(old, r.email) : x.op \in Changes
                   /\ Insert(c).op \in Changes /\ Allows(r.email).op \in Changes /\ Disallows(old).op \in Changes
                   /\ \A op \in {"updateUser", "setKey", "upload", "deleteUser"} : Bare(op).op \in Changes
      BY DEF EmailsFollow, Insert, Allows, Disallows, Bare, Changes
    <3> QED
      BY <3>1, <3>2, <3>3
  <2>2. CASE \E x, y : st = <<{x}, y>> \/ st = <<{x}>>
    BY <1>3, <2>2
  <2> DEFINE All(old) == {Insert(c), Allows(r.email), Bare("updateUser"), Bare("setKey"), Bare("upload"),
                          Bare("deleteUser"), Disallows(old)} \cup EmailsFollow(old, r.email)
  <2>3. \A old : {Insert(c), Allows(r.email)} \subseteq All(old)
    OBVIOUS
  <2>4. \A old : {Bare("updateUser"), Bare("setKey"), Bare("upload")} \cup EmailsFollow(old, r.email) \subseteq All(old)
    OBVIOUS
  <2>5. \A old : {Bare("deleteUser"), Disallows(old)} \subseteq All(old)
    OBVIOUS
  <2>6. \A T : (\E old : T \subseteq All(old)) /\ st = <<T>> => s.op \in Changes
    BY <2>1
  <2> HIDE DEF All
  <2> QED
    BY <1>7, <2>2, <2>3, <2>4, <2>5, <2>6 DEF StaffPlan
<1> QED
  BY <1>1, <1>3, <1>4, <1>5, <1>6, <1>7 DEF Plan

(* A statement that has to do with no user's e-mail and no picture.        *)
LEMMA Aside ==
  ASSUME Inv, AllowedInv, NEW c \in Calls, NEW s \in Sent(c), Acts(c, s), s.op \notin Changes \cup {"read"},
         UNCHANGED <<allowed, pictures>>, DOMAIN users' = DOMAIN users,
         \A v \in DOMAIN users : users'[v].email = users[v].email /\ users'[v].picture = users[v].picture
  PROVE  AllowedInv'
<1>1. Continues(c) /\ Past(c) /\ (Past(c)' <=> Sent(c)' # {})
  BY Continuing, After
<1>2. OneChanging' /\ BornFirst'
  BY <1>1, AloneContinues DEF AllowedInv
<1>3. \A t \in Sent(c) : t.op \notin Changes
  BY Together
<1>4. \A t \in Sent(c)' : t.op \notin Changes
  BY <1>1, <1>3 DEF Continues
<1>5. /\ \A op \in Changes : ~ Pending(c, op) /\ ~ Pending(c, op)'
      /\ \A b \in Calls \ {c} : \A op : Pending(b, op)' <=> Pending(b, op)
      /\ \A b \in Calls : Row(b)' <=> Row(b)
  BY <1>1, <1>3, <1>4 DEF Pending, Row, Continues, Changes
<1>6. \A e : Disallowing(e)' = Disallowing(e) /\ c \notin Disallowing(e) /\ Disallowing(e) \subseteq Calls
  BY <1>1, <1>3, <1>4 DEF Disallowing, Continues, Changes
<1>7. \A b \in Calls : Past(b)' => /\ Past(b) /\ Request(b)' = Request(b)
                                   /\ Taker(b)' <=> Taker(b)
                                   /\ Changing(b)' <=> Changing(b)
                                   /\ Its(b)' = Its(b)
                                   /\ Calm(b)' => Calm(b)
  BY <1>1 DEF Continues, Taker, Mover, Changing, Its, Calm
<1>8. ASSUME NEW u \in DOMAIN users', User(u) \notin disturbed'
      PROVE  DisallowedByOwn(u)' /\ AllowedOrChanging(u)' /\ PictureOrUpload(u)'
  <2>1. u \in DOMAIN users /\ User(u) \notin disturbed
    BY <1>1, <1>8 DEF Continues
  <2>2. DisallowedByOwn(u) /\ AllowedOrChanging(u) /\ PictureOrUpload(u)
    BY <2>1 DEF AllowedInv, UsersKept
  <2>3. users'[u].email = users[u].email /\ users'[u].picture = users[u].picture
    BY <2>1
  <2>4. DisallowedByOwn(u)'
    <3>1. \A b \in Disallowing(users[u].email) : b \in Calls \ {c} /\ Request(b)' = Request(b)
      BY <1>1, <1>6 DEF Continues
    <3> QED
      BY <1>6, <2>2, <2>3, <3>1 DEF DisallowedByOwn
  <2>5. PictureOrUpload(u)'
    <3>1. \A b \in Calls : Pending(b, "upload") => b # c /\ Pending(b, "upload")' /\ Request(b)' = Request(b)
      BY <1>1, <1>5 DEF Continues, Changes
    <3> QED
      BY <2>2, <2>3, <3>1 DEF PictureOrUpload
  <2>6. AllowedOrChanging(u)'
    <3>1. CASE users[u].email \in allowed
      BY <2>3, <3>1 DEF AllowedOrChanging
    <3>2. CASE \E b \in Calls : Changing(b) /\ Request(b).doc = User(u)
      <4>1. PICK b \in Calls : Changing(b) /\ Request(b).doc = User(u)
        BY <3>2
      <4>2. CASE Past(b)'
        BY <1>7, <4>1, <4>2 DEF AllowedOrChanging
      <4>3. CASE ~ Past(b)'
        <5>1. b = c
          BY <1>1, <4>1, <4>3 DEF Continues, Changing, Taker, Mover
        <5>2. u = Its(c) /\ Calm(c)
          BY <2>1, <4>1, <5>1, SameUser DEF Its, Calm
        <5>3. CallKept(c)
          BY <1>1, <5>2 DEF AllowedInv, CallsKeep
        <5>4. Taker(c)
          BY <1>1, <1>5, <2>1, <4>1, <5>1, <5>2, <5>3 DEF CallKept, Changing, Taker, Mover, Changes
        <5>5. users[u].email = Request(c).email /\ Request(c).email \in allowed
          BY <1>5, <5>2, <5>3, <5>4 DEF CallKept, GivesOrGave, AllowsOrAllowed, Row, Changes
        <5> QED
          BY <2>3, <5>5 DEF AllowedOrChanging
      <4> QED
        BY <4>2, <4>3
    <3> QED
      BY <2>2, <3>1, <3>2 DEF AllowedOrChanging
  <2> QED
    BY <2>4, <2>5, <2>6
<1>9. ASSUME NEW b \in Calls, Past(b)', Calm(b)'
      PROVE  CallKept(b)'
  <2>1. /\ Past(b) /\ Request(b)' = Request(b) /\ Calm(b) /\ Its(b)' = Its(b)
        /\ Taker(b)' <=> Taker(b)
    BY <1>7, <1>9
  <2>2. CallKept(b)
    BY <2>1 DEF AllowedInv, CallsKeep
  <2>3. \A op \in Changes : Pending(b, op)' <=> Pending(b, op)
    BY <1>5
  <2>4. GivesOrGave(b)' <=> GivesOrGave(b)
    BY <1>5, <2>1 DEF GivesOrGave
  <2>5. AllowsOrAllowed(b)' <=> AllowsOrAllowed(b)
    BY <2>1, <2>3 DEF AllowsOrAllowed, Changes
  <2> QED
    BY <1>5, <1>6, <2>1, <2>2, <2>3, <2>4, <2>5 DEF CallKept, Changes
<1>10. UsersKept'
  BY <1>8 DEF UsersKept
<1>11. CallsKeep'
  BY <1>9 DEF CallsKeep
<1> QED
  BY <1>2, <1>10, <1>11 DEF AllowedInv

(* Statement s of call c succeeds, and does this for its user u; the other *)
(* statements that the call has sent are still to come.                    *)
Does(c, s, u) ==
  /\ Continues(c) /\ Spares(c)
  /\ s \notin Sent(c)' /\ \A t \in Sent(c) \ {s} : t \in Sent(c)'
  /\ Past(c)' <=> Sent(c)' # {}
  /\ u \in DOMAIN users' => /\ s.op # "deleteUser"
                            /\ IF s.op \in {"insertUser", "updateUser"} THEN users'[u].email = Request(c).email
                               ELSE u \in DOMAIN users /\ users'[u].email = users[u].email
                            /\ users'[u].picture => u \in DOMAIN users /\ (users[u].picture \/ s.op = "setKey")
  /\ u \in DOMAIN users \/ s.op \in {"insertUser", "updateUser"} => u \in DOMAIN users' \/ s.op = "deleteUser"
  /\ \A e \in allowed \ allowed' : s.op = "disallow" /\ e = s.email
  /\ \A e \in allowed' \ allowed : s.op = "allow" /\ e = s.email
  /\ s.op = "allow" => s.email \in allowed'
  /\ s.op = "disallow" => s.email \notin allowed'
  /\ s.op = "upload" => u \in pictures'

(* A statement that changes a user keeps AllowedInv.                       *)
LEMMA DoesKeeps ==
  ASSUME Inv, AllowedInv, NEW c \in Calls, NEW s \in Sent(c), s.op \in Changes, NEW u, u = Its(c), Does(c, s, u)
  PROVE  AllowedInv'
<1>1. Changing(c) /\ Past(c) /\ Request(c).doc = User(u)
  BY ChangesOf, Changers
<1>2. Continues(c) /\ Spares(c)
  BY DEF Does
<1>3. OneChanging' /\ BornFirst'
  BY <1>2, AloneContinues DEF AllowedInv
<1>4. /\ \A v \in DOMAIN users' : v # u => Kept(v)'
      /\ \A b \in Calls \ {c} : Keeps(b)'
  BY <1>1, <1>2, Elsewhere
<1>5. \A e : Disallowing(e)' \subseteq Disallowing(e)
  BY <1>2 DEF Continues, Disallowing, Changes
<1>6. \A op \in Changes : Pending(c, op) => op = s.op \/ Pending(c, op)'
  BY DEF Does, Pending
<1>7. \A b \in Calls, op \in Changes : Pending(b, op)' => Pending(b, op)
  BY <1>2 DEF Continues, Pending
<1>8. /\ \A b \in Calls : Past(b)' => Past(b) /\ Request(b)' = Request(b)
      /\ Past(c)' /\ Calm(c)' => Calm(c)
      /\ User(u) \notin disturbed' => Calm(c)
      /\ disturbed \subseteq disturbed'
  <2>1. disturbed \subseteq disturbed' /\ \A b \in Calls : Past(b)' => Past(b) /\ Request(b)' = Request(b)
    BY <1>2 DEF Continues
  <2> QED
    BY <1>1, <2>1 DEF Calm
<1>9. Calm(c) => CallKept(c)
  BY <1>1 DEF AllowedInv, CallsKeep
<1>10. /\ s.op \in {"insertUser", "updateUser"} => Taker(c) /\ Row(c)
       /\ s.op = "allow" => s.email = Request(c).email
       /\ s.op = "disallow" /\ Taker(c) => s.email # Request(c).email
       /\ s.op \in Changes \ {"deleteUser", "disallow"} => Taker(c)
       /\ s.op = "deleteUser" => ~ Taker(c)
       /\ s.op = "insertUser" => Request(c).op # "removeEmployee"
       /\ Taker(c) => Request(c).op # "removeEmployee"
  BY <1>1, ChangesOf DEF Pending, Row, Changes, Taker
<1>11. u \in DOMAIN users' /\ User(u) \notin disturbed' => DisallowedByOwn(u)'
  <2> SUFFICES ASSUME u \in DOMAIN users', User(u) \notin disturbed', NEW e, e = users'[u].email, NEW b \in Disallowing(e)'
               PROVE  Request(b)' = Request(b) /\ Request(b).doc = User(u)
    BY <1>1 DEF DisallowedByOwn, Disallowing
  <2>1. b \in Disallowing(e) /\ b \in Calls
    BY <1>5 DEF Disallowing
  <2>2. Request(b)' = Request(b)
    <3>1. CASE b # c
      BY <1>2, <2>1, <3>1 DEF Continues
    <3>2. CASE b = c
      <4>1. Sent(c)' # {}
        BY <3>2 DEF Disallowing
      <4> QED
        BY <1>8, <3>2, <4>1 DEF Does
    <3> QED
      BY <3>1, <3>2
  <2>3. CASE s.op \in {"insertUser", "updateUser"}
    <3>1. Disallowing(Request(c).email) = {}
      BY <1>8, <1>9, <1>10, <2>3 DEF CallKept
    <3> QED
      BY <2>1, <2>3, <3>1 DEF Does
  <2>4. CASE s.op \notin {"insertUser", "updateUser"}
    <3>1. u \in DOMAIN users /\ users'[u].email = users[u].email /\ User(u) \notin disturbed
      BY <1>8, <2>4 DEF Does
    <3> QED
      BY <2>1, <2>2, <3>1 DEF AllowedInv, UsersKept, DisallowedByOwn
  <2> QED
    BY <2>3, <2>4
<1>12. u \in DOMAIN users' /\ User(u) \notin disturbed' => AllowedOrChanging(u)'
  <2> SUFFICES ASSUME u \in DOMAIN users', User(u) \notin disturbed' PROVE AllowedOrChanging(u)'
    OBVIOUS
  <2>1. CASE Past(c)'
    <3>1. Changing(c)' /\ Request(c)'.doc = User(u)
      BY <1>1, <1>8, <2>1 DEF Changing, Taker, Mover
    <3> QED
      BY <3>1 DEF AllowedOrChanging
  <2>2. CASE ~ Past(c)'
    <3>1. \A op \in Changes : Pending(c, op) => op = s.op
      BY <2>2 DEF Does, Pending
    <3>2. CallKept(c) /\ s.op # "deleteUser"
      BY <1>8, <1>9 DEF Does
    <3>3. Taker(c)
      BY <1>1, <1>10, <3>1, <3>2 DEF CallKept, Changing, Taker, Mover, Changes, Does
    <3>4. users'[u].email = Request(c).email
      BY <3>1, <3>2, <3>3 DEF CallKept, GivesOrGave, Row, Changes, Does
    <3>5. Request(c).email \in allowed'
      <4>1. CASE s.op = "allow"
        BY <1>10, <4>1 DEF Does
      <4>2. CASE s.op # "allow"
        <5>1. Request(c).email \in allowed
          BY <3>1, <3>2, <3>3, <4>2 DEF CallKept, AllowsOrAllowed, Changes
        <5> QED
          BY <1>10, <3>3, <5>1 DEF Does
      <4> QED
        BY <4>1, <4>2
    <3> QED
      BY <3>4, <3>5 DEF AllowedOrChanging
  <2> QED
    BY <2>1, <2>2
<1>13. u \in DOMAIN users' /\ User(u) \notin disturbed' => PictureOrUpload(u)'
  <2> SUFFICES ASSUME u \in DOMAIN users', User(u) \notin disturbed', users'[u].picture, u \notin pictures'
               PROVE  \E b \in Calls : Pending(b, "upload")' /\ Request(b)'.doc = User(u)
    BY DEF PictureOrUpload
  <2>1. u \in DOMAIN users /\ (users[u].picture \/ s.op = "setKey") /\ s.op # "upload" /\ u \notin pictures
    BY DEF Does, Spares
  <2>2. PICK b \in Calls : Pending(b, "upload") /\ Request(b).doc = User(u)
    <3>1. CASE users[u].picture
      BY <1>8, <2>1, <3>1 DEF AllowedInv, UsersKept, PictureOrUpload
    <3>2. CASE s.op = "setKey"
      <4>1. Pending(c, "upload")
        BY <1>8, <1>9, <2>1, <3>2 DEF CallKept, Pending
      <4> QED
        BY <1>1, <4>1
    <3> QED
      BY <2>1, <3>1, <3>2
  <2>3. CASE b # c
    BY <1>2, <2>2, <2>3 DEF Continues, Pending
  <2>4. CASE b = c
    <3>1. Pending(c, "upload")' /\ Sent(c)' # {}
      BY <1>6, <2>1, <2>2, <2>4 DEF Pending, Changes
    <3> QED
      BY <1>1, <1>8, <3>1 DEF Does
  <2> QED
    BY <2>3, <2>4
<1>14. Keeps(c)'
  <2> SUFFICES ASSUME Past(c)', Calm(c)' PROVE CallKept(c)'
    BY DEF Keeps
  <2>1. CallKept(c) /\ Request(c)' = Request(c)
    BY <1>8, <1>9
  <2>2. Its(c)' = u /\ (Taker(c)' <=> Taker(c)) /\ (Row(c)' => Row(c))
    BY <1>1, <1>7, <2>1 DEF Its, Taker, Row, Changes
  <2>3. Row(c) => Disallowing(Request(c).email)' = {}
    BY <1>5, <2>1 DEF CallKept
  <2>4. Taker(c) => Row(c)' \/ (u \in DOMAIN users' /\ users'[u].email = Request(c).email)
    <3>1. CASE s.op \in {"insertUser", "updateUser"}
      BY <3>1 DEF Does
    <3>2. CASE s.op \notin {"insertUser", "updateUser"} /\ Row(c)
      BY <1>6, <3>2 DEF Row, Changes
    <3>3. CASE s.op \notin {"insertUser", "updateUser"} /\ ~ Row(c)
      BY <1>10, <2>1, <3>3 DEF Does, CallKept, GivesOrGave
    <3> QED
      BY <3>1, <3>2, <3>3
  <2>5. Taker(c) => Pending(c, "allow")' \/ Request(c).email \in allowed'
    <3>1. CASE s.op = "allow"
      BY <1>10, <3>1 DEF Does
    <3>2. CASE s.op # "allow"
      BY <1>6, <1>10, <2>1, <3>2 DEF Does, CallKept, AllowsOrAllowed, Changes
    <3> QED
      BY <3>1, <3>2
  <2>6. Request(c).op = "removeEmployee" => Pending(c, "deleteUser")' \/ u \notin DOMAIN users'
    <3>1. CASE s.op = "deleteUser"
      BY <3>1 DEF Does
    <3>2. CASE s.op # "deleteUser"
      BY <1>6, <1>10, <2>1, <3>2 DEF Does, CallKept, Changes
    <3> QED
      BY <3>1, <3>2
  <2>7. Pending(c, "setKey")' => Pending(c, "upload")' \/ u \in pictures'
    <3>1. CASE s.op = "upload"
      BY <3>1 DEF Does
    <3>2. CASE s.op # "upload"
      BY <1>2, <1>6, <1>7, <2>1, <3>2 DEF Spares, CallKept, Changes
    <3> QED
      BY <3>1, <3>2
  <2> QED
    BY <2>1, <2>2, <2>3, <2>4, <2>5, <2>6, <2>7 DEF CallKept, GivesOrGave, AllowsOrAllowed
<1>15. UsersKept'
  BY <1>4, <1>11, <1>12, <1>13 DEF UsersKept, Kept
<1>16. CallsKeep'
  BY <1>4, <1>14 DEF CallsKeep, Keeps
<1> QED
  BY <1>3, <1>15, <1>16 DEF AllowedInv

(* A statement that succeeds leaves the others of its call where they are. *)
LEMMA ExecutedLeaves ==
  ASSUME Inv, NEW c \in Calls, NEW s \in Sent(c), Acts(c, s), s.op \in Changes, Executed(c, s)
  PROVE  /\ Continues(c)
         /\ s \notin Sent(c)' /\ \A t \in Sent(c) \ {s} : t \in Sent(c)'
         /\ Past(c)' <=> Sent(c)' # {}
<1>1. s.op # "read"
  BY DEF Changes
<1>2. Sent(c)' = Leaves(c, s)
  BY ExecutedSends DEF Inv, Sends
<1>3. CASE s.op = "insertUser" /\ Request(c).op = "signUp"
  <2>1. \A x, y : Head(<<x, y>>) = x
    OBVIOUS
  <2>2. Sent(c) = {s}
    BY <1>3, <2>1, Sending DEF Inv, Sent
  <2>3. s \notin Sent(c)'
    BY <1>2, <1>3 DEF Leaves, Sign
  <2> QED
    BY <1>1, <2>2, <2>3, Continuing, After
<1>4. CASE ~ (s.op = "insertUser" /\ Request(c).op = "signUp")
  <2>1. Sent(c)' = Sent(c) \ {s}
    BY <1>2, <1>4 DEF Leaves, Changes
  <2> QED
    BY <1>1, <2>1, Continuing, After
<1> QED
  BY <1>3, <1>4

(* What each of the statements does.                                       *)
LEMMA InsertUserDoes ==
  ASSUME Inv, NEW c \in Calls, NEW s \in Sent(c), InsertUser(c, s), NEW u, u = Its(c)
  PROVE  Does(c, s, u)
<1>1. s.op = "insertUser" /\ Executed(c, s) /\ Acts(c, s) /\ UNCHANGED <<allowed, pictures>>
  BY DEF InsertUser, Acts, StaffStep
<1>2. s.op \in Changes /\ u = c
  BY <1>1, ChangesOf DEF Changes
<1>3. /\ DOMAIN users' = DOMAIN users \cup {c} /\ c \notin DOMAIN users
      /\ \A v \in DOMAIN users : users'[v] = users[v]
      /\ users'[c] = [email |-> Request(c).email, password |-> Request(c).password, picture |-> FALSE]
  BY InsertUserOK
<1>4. Spares(c)
  <2>1. DOMAIN users' = DOMAIN users \cup {c} /\ c \notin DOMAIN users /\ Its(c) = c
    BY <1>2, <1>3
  <2>2. \A v \in DOMAIN users \cup DOMAIN users' :
          v # Its(c) => v \in DOMAIN users /\ v \in DOMAIN users' /\ users'[v] = users[v]
    BY <1>3, <2>1
  <2>3. pictures \subseteq pictures' /\ allowed \ allowed' = {}
    BY <1>1
  <2> QED
    BY <2>2, <2>3 DEF Spares
<1>5. users'[c].email = Request(c).email /\ ~ users'[c].picture
  BY <1>3
<1>6. allowed \ allowed' = {} /\ allowed' \ allowed = {}
  BY <1>1
<1>7. s \notin Sent(c)' /\ \A t \in Sent(c) \ {s} : t \in Sent(c)'
  BY <1>1, <1>2, ExecutedLeaves
<1>8. Continues(c) /\ (Past(c)' <=> Sent(c)' # {})
  BY <1>1, <1>2, ExecutedLeaves
<1> QED
  BY <1>1, <1>2, <1>3, <1>4, <1>5, <1>6, <1>7, <1>8 DEF Does

(* An e-mail is allowed, or is not any more.                               *)
LEMMA EmailsDo ==
  ASSUME Inv, NEW c \in Calls, NEW s \in Sent(c), Allow(c, s) \/ Disallow(c, s), NEW u, u = Its(c)
  PROVE  Does(c, s, u)
<1>1. s.op \in {"allow", "disallow"} /\ Executed(c, s) /\ Acts(c, s) /\ UNCHANGED <<users, pictures>>
  BY DEF Allow, Disallow, Acts, StaffStep
<1>2. s.op \in Changes
  BY <1>1 DEF Changes
<1>3. /\ \A e \in allowed \ allowed' : s.op = "disallow" /\ e = s.email
      /\ \A e \in allowed' \ allowed : s.op = "allow" /\ e = s.email
      /\ s.op = "allow" => s.email \in allowed'
      /\ s.op = "disallow" => s.email \notin allowed'
  BY DEF Allow, Disallow
<1>4. Spares(c)
  BY <1>1, <1>3 DEF Spares, Disallowing
<1> QED
  BY <1>1, <1>2, <1>3, <1>4, ExecutedLeaves DEF Does

(* A user gets its new e-mail.                                             *)
LEMMA UpdateUserDoes ==
  ASSUME Inv, NEW c \in Calls, NEW s \in Sent(c), UpdateUser(c, s), NEW u, u = Its(c)
  PROVE  Does(c, s, u)
<1>1. s.op = "updateUser" /\ Executed(c, s) /\ Acts(c, s) /\ UNCHANGED <<allowed, pictures>>
  BY DEF UpdateUser, Acts, StaffStep
<1>2. s.op \in Changes
  BY <1>1 DEF Changes
<1>3. /\ DOMAIN users' = DOMAIN users /\ u \in DOMAIN users
      /\ \A v \in DOMAIN users \ {u} : users'[v] = users[v]
      /\ users'[u].email = Request(c).email /\ users'[u].picture = users[u].picture
  BY UpdateUserOK DEF Its
<1>4. Spares(c)
  BY <1>1, <1>3 DEF Spares
<1> QED
  BY <1>1, <1>2, <1>3, <1>4, ExecutedLeaves DEF Does

(* A user gets the key of a picture.                                       *)
LEMMA SetKeyDoes ==
  ASSUME Inv, NEW c \in Calls, NEW s \in Sent(c), SetKey(c, s), NEW u, u = Its(c)
  PROVE  Does(c, s, u)
<1>1. s.op = "setKey" /\ Executed(c, s) /\ Acts(c, s) /\ UNCHANGED <<allowed, pictures>>
  BY DEF SetKey, Acts, StaffStep
<1>2. s.op \in Changes
  BY <1>1 DEF Changes
<1>3. /\ DOMAIN users' = DOMAIN users /\ u \in DOMAIN users
      /\ \A v \in DOMAIN users \ {u} : users'[v] = users[v]
      /\ users'[u].email = users[u].email
  BY SetFieldOK DEF Its
<1>4. Spares(c)
  BY <1>1, <1>3 DEF Spares
<1> QED
  BY <1>1, <1>2, <1>3, <1>4, ExecutedLeaves DEF Does

(* The picture of a user is stored.                                        *)
LEMMA UploadDoes ==
  ASSUME Inv, NEW c \in Calls, NEW s \in Sent(c), UploadPicture(c, s), NEW u, u = Its(c)
  PROVE  Does(c, s, u)
<1>1. s.op = "upload" /\ Executed(c, s) /\ Acts(c, s) /\ UNCHANGED <<users, allowed>> /\ pictures' = pictures \cup {u}
  BY DEF UploadPicture, Acts, StaffStep, Its
<1>2. s.op \in Changes
  BY <1>1 DEF Changes
<1>3. Spares(c)
  BY <1>1 DEF Spares
<1> QED
  BY <1>1, <1>2, <1>3, ExecutedLeaves DEF Does

(* A user is deleted.                                                      *)
LEMMA DeleteUserDoes ==
  ASSUME Inv, NEW c \in Calls, NEW s \in Sent(c), DeleteUser(c, s), NEW u, u = Its(c)
  PROVE  Does(c, s, u)
<1>1. s.op = "deleteUser" /\ Executed(c, s) /\ Acts(c, s) /\ UNCHANGED <<allowed, pictures>>
  BY DEF DeleteUser, Acts, StaffStep
<1>2. s.op \in Changes
  BY <1>1 DEF Changes
<1>3. /\ DOMAIN users' = DOMAIN users \ {u} /\ u \in DOMAIN users
      /\ \A v \in DOMAIN users' : users'[v] = users[v]
  BY DeleteUserOK DEF Its
<1>4. Spares(c)
  BY <1>1, <1>3 DEF Spares
<1> QED
  BY <1>1, <1>2, <1>3, <1>4, ExecutedLeaves DEF Does

(* A statement that fails disturbs the user that it was for.               *)
LEMMA LoseKeeps ==
  ASSUME Inv, AllowedInv, NEW c \in Calls, NEW s \in Sent(c), s.op \in Changes, Lose(c, s), UNCHANGED staff
  PROVE  AllowedInv'
<1>1. Changing(c) /\ Past(c) /\ Acts(c, s) /\ s.op # "read"
  BY ChangesOf DEF Acts, Changes
<1>2. Continues(c) /\ Request(c).doc \in disturbed'
  BY <1>1, Continuing DEF Lose, DisturbIf
<1>3. OneChanging' /\ BornFirst'
  BY <1>2, AloneContinues DEF AllowedInv
<1>4. Spares(c)
  BY DEF Spares, staff
<1>5. /\ \A v \in DOMAIN users' : v # Its(c) => Kept(v)'
      /\ \A b \in Calls \ {c} : Keeps(b)'
  BY <1>1, <1>2, <1>4, Elsewhere
<1>6. Request(c).doc = User(Its(c))
  BY <1>1, Changers
<1>7. UsersKept'
  BY <1>2, <1>5, <1>6 DEF UsersKept, Kept
<1>8. Past(c)' => Request(c)' = Request(c)
  BY <1>2 DEF Continues
<1>9. CallsKeep'
  BY <1>2, <1>5, <1>8 DEF CallsKeep, Keeps, Calm
<1> QED
  BY <1>3, <1>7, <1>9 DEF AllowedInv

(* A read answers and its call begins to change a user, or does not.  Who  *)
(* is at work on the user, or about to give the e-mail that this call      *)
(* takes, is disturbed.                                                    *)
LEMMA Begins ==
  ASSUME Inv, AllowedInv, NEW c \in Calls, NEW s \in Sent(c), Acts(c, s), s.op = "read", UNCHANGED staff,
         Changing(c)' => \A b \in Calls \ {c} : Changing(b) /\ Request(b).doc = Request(c).doc => Request(c).doc \in disturbed',
         Mover(c)' => Its(c) \in DOMAIN users,
         \A t \in Sent(c)' : t.op = "disallow" =>
           \E u \in DOMAIN users : /\ t.email = users[u].email /\ Request(c).doc = User(u)
                                   /\ \A b \in Giving(t.email) : Request(b).doc \in disturbed',
         Keeps(c)'
  PROVE  AllowedInv'
<1>1. /\ \A b \in Calls \ {c} : (Past(b)' <=> Past(b)) /\ Request(b)' = Request(b) /\ Sent(b)' = Sent(b)
      /\ Past(c)' <=> Sent(c)' # {}
      /\ Sent(c)' # {} => Request(c)' = Request(c)
      /\ ~ Past(c)
      /\ disturbed \subseteq disturbed'
  BY After
<1>2. users' = users /\ allowed' = allowed /\ pictures' = pictures
  BY DEF staff
<1>3. \A b \in Calls \ {c} : /\ Taker(b)' <=> Taker(b)
                             /\ Mover(b)' <=> Mover(b)
                             /\ Changing(b)' <=> Changing(b)
                             /\ Row(b)' <=> Row(b)
                             /\ Calm(b)' => Calm(b)
                             /\ Its(b)' = Its(b)
                             /\ \A op : Pending(b, op)' <=> Pending(b, op)
  BY <1>1 DEF Taker, Mover, Changing, Row, Pending, Its, Calm
<1>4. ~ Changing(c) /\ (Changing(c)' => Request(c)' = Request(c) /\ Its(c)' = Its(c))
  BY <1>1 DEF Changing, Taker, Mover, Its
<1>5. Unborn(c) /\ (\A b \in Calls \ {c} : Unborn(b)' => Unborn(b))
  <2>1. Unborn(c)
    BY DEF Unborn
  <2>2. Alone(c)
    BY Moves DEF Inv, Moved
  <2> QED
    BY <1>1, <2>1, <2>2 DEF Unborn, Alone
<1>6. OneChanging'
  <2> SUFFICES ASSUME NEW a \in Calls, NEW b \in Calls, a # b, Changing(a)', Changing(b)', Request(a)'.doc = Request(b)'.doc
               PROVE  Request(a)'.doc \in disturbed'
    BY DEF OneChanging, Calm
  <2>1. CASE a # c /\ b # c
    BY <1>1, <1>3, <2>1 DEF AllowedInv, OneChanging, Calm
  <2>2. CASE a = c
    BY <1>1, <1>3, <1>4, <2>2
  <2>3. CASE b = c
    BY <1>1, <1>3, <1>4, <2>3
  <2> QED
    BY <2>1, <2>2, <2>3
<1>7. BornFirst'
  <2> SUFFICES ASSUME NEW b \in Calls, Mover(b)', NEW u \in Calls, u = Its(b)', Unborn(u)' PROVE FALSE
    BY DEF BornFirst, Its
  <2>1. Unborn(u)
    BY <1>5
  <2>2. CASE b # c
    BY <1>3, <2>1, <2>2 DEF AllowedInv, BornFirst
  <2>3. CASE b = c
    <3>1. u \in DOMAIN users
      BY <1>4, <2>3 DEF Changing
    <3> QED
      BY <2>1, <3>1 DEF Inv, Fresh
  <2> QED
    BY <2>2, <2>3
<1>8. UsersKept'
  <2> SUFFICES ASSUME NEW u \in DOMAIN users, User(u) \notin disturbed'
               PROVE  DisallowedByOwn(u)' /\ AllowedOrChanging(u)' /\ PictureOrUpload(u)'
    BY <1>2 DEF UsersKept
  <2>1. DisallowedByOwn(u) /\ AllowedOrChanging(u) /\ PictureOrUpload(u)
    BY <1>1 DEF AllowedInv, UsersKept
  <2>2. ASSUME NEW b \in Calls, NEW t \in Sent(b)', t.op = "disallow", t.email = users[u].email
        PROVE  Request(b)'.doc = User(u)
    <3>1. CASE b # c
      BY <1>1, <2>1, <2>2, <3>1 DEF DisallowedByOwn, Disallowing
    <3>2. CASE b = c
      <4>1. PICK v \in DOMAIN users : t.email = users[v].email /\ Request(c).doc = User(v)
        BY <2>2, <3>2
      <4>2. v = u
        BY <2>2, <4>1 DEF Inv, TypeOK, InUse
      <4> QED
        BY <1>1, <2>2, <3>2, <4>1, <4>2
    <3> QED
      BY <3>1, <3>2
  <2>3. DisallowedByOwn(u)'
    BY <1>2, <2>2 DEF DisallowedByOwn, Disallowing
  <2>4. AllowedOrChanging(u)'
    BY <1>1, <1>2, <1>3, <1>4, <2>1 DEF AllowedOrChanging
  <2>5. PictureOrUpload(u)'
    <3>1. \A b \in Calls : Pending(b, "upload") => b # c
      BY <1>4, ChangesOf DEF Pending, Changes
    <3> QED
      BY <1>1, <1>2, <1>3, <2>1, <3>1 DEF PictureOrUpload
  <2> QED
    BY <2>3, <2>4, <2>5
<1>9. ASSUME NEW b \in Calls \ {c}, Past(b)', Calm(b)' PROVE CallKept(b)'
  <2>1. CallKept(b) /\ Request(b)' = Request(b) /\ Sent(b)' = Sent(b)
    BY <1>1, <1>3, <1>9 DEF AllowedInv, CallsKeep
  <2>2. ASSUME Row(b), NEW d \in Calls, NEW t \in Sent(d)', t.op = "disallow", t.email = Request(b).email
        PROVE  FALSE
    <3>1. CASE d # c
      BY <1>1, <2>1, <2>2, <3>1 DEF CallKept, Disallowing
    <3>2. CASE d = c
      <4>1. b \in Giving(t.email)
        BY <2>2 DEF Giving, Row, Pending
      <4> QED
        BY <1>9, <2>1, <2>2, <3>2, <4>1 DEF Calm
    <3> QED
      BY <3>1, <3>2
  <2>3. Row(b) => Disallowing(Request(b).email)' = {}
    BY <2>1, <2>2 DEF Disallowing
  <2>4. (GivesOrGave(b)' <=> GivesOrGave(b)) /\ (AllowsOrAllowed(b)' <=> AllowsOrAllowed(b))
    BY <1>2, <1>3, <2>1 DEF GivesOrGave, AllowsOrAllowed
  <2>5. /\ Taker(b)' <=> Taker(b)
        /\ Row(b)' <=> Row(b)
        /\ Its(b)' = Its(b)
        /\ \A op : Pending(b, op)' <=> Pending(b, op)
    BY <1>3
  <2> QED
    BY <1>2, <2>1, <2>3, <2>4, <2>5 DEF CallKept
<1>10. CallsKeep'
  BY <1>9 DEF CallsKeep, Keeps
<1> QED
  BY <1>6, <1>7, <1>8, <1>10 DEF AllowedInv

(* A read after which the call changes no user.                            *)
LEMMA BeginsNothing ==
  ASSUME Inv, AllowedInv, NEW c \in Calls, NEW s \in Sent(c), Acts(c, s), s.op = "read", UNCHANGED staff,
         \A t \in Sent(c)' : t.op \notin Changes,
         \/ Sent(c)' = {}
         \/ Request(c).op \notin {"signUp", "createEmployee", "updateEmployee", "updateMe", "removeEmployee"}
  PROVE  AllowedInv'
<1>1. Past(c)' => /\ Request(c)' = Request(c)
                  /\ Request(c).op \notin {"signUp", "createEmployee", "updateEmployee", "updateMe", "removeEmployee"}
  BY After
<1>2. ~ Taker(c)' /\ ~ Mover(c)' /\ ~ Changing(c)'
  BY <1>1 DEF Changing, Taker, Mover
<1>3. \A op \in Changes : ~ Pending(c, op)'
  BY DEF Pending
<1>4. Keeps(c)'
  BY <1>1, <1>2, <1>3 DEF Keeps, CallKept, Row, Changes
<1>5. \A t \in Sent(c)' : t.op # "disallow"
  BY DEF Changes
<1> QED
  BY <1>2, <1>4, <1>5, Begins

(* Nobody is at work on a user that is not there.                          *)
LEMMA NobodyThere ==
  ASSUME Inv, AllowedInv, NEW c \in Calls, NEW s \in Sent(c), s.op = "read", Request(c).op \in {"signUp", "createEmployee"}
  PROVE  /\ Request(c).doc = User(c)
         /\ \A b \in Calls \ {c} : ~ (Changing(b) /\ Request(b).doc = Request(c).doc)
<1>1. Understood(c, Request(c))
  BY ReadAlone DEF Inv
<1>2. Request(c).doc = User(c) /\ Unborn(c)
  BY <1>1 DEF Understood, Unborn
<1> SUFFICES ASSUME NEW b \in Calls \ {c}, Changing(b), Request(b).doc = Request(c).doc PROVE FALSE
  BY <1>2
<1>3. Its(b) = c
  BY <1>2, SameUser DEF Its
<1>4. Mover(b)
  BY <1>3, Changers DEF Changing, Taker, Mover
<1> QED
  BY <1>2, <1>3, <1>4 DEF AllowedInv, BornFirst

(* Who signs up, or is created, sets out to be inserted.                   *)
LEMMA InsertionBegins ==
  ASSUME Inv, AllowedInv, NEW c \in Calls, NEW s \in Sent(c), Acts(c, s), s.op = "read", UNCHANGED staff,
         Request(c).op \in {"signUp", "createEmployee"}, NEW e, e = Request(c).email,
         \/ Sends(c, {Insert(c)}) /\ e \in allowed
         \/ Sends(c, {Insert(c), Allows(e)}),
         DisturbRivals(c, e, None, FALSE)
  PROVE  AllowedInv'
<1>1. Understood(c, Request(c))
  BY ReadAlone DEF Inv
<1>2. Request(c).doc = User(c) /\ Its(c) = c
  BY <1>1, SameUser DEF Understood, Its
<1>3. Insert(c).op = "insertUser" /\ Allows(e).op = "allow"
  BY DEF Insert, Allows
<1>4. /\ Sent(c)' # {} /\ Past(c)' /\ Request(c)' = Request(c)
      /\ \A t \in Sent(c)' : t.op \in {"insertUser", "allow"}
      /\ Row(c)' /\ ~ Pending(c, "setKey")'
  <2>1. Sent(c)' = {Insert(c)} \/ Sent(c)' = {Insert(c), Allows(e)}
    BY DEF Sends
  <2>2. Past(c)' /\ Request(c)' = Request(c)
    BY <2>1, After
  <2> QED
    BY <1>3, <2>1, <2>2 DEF Row, Pending
<1>5. \A b \in Calls \ {c} : ~ (Changing(b) /\ Request(b).doc = Request(c).doc)
  BY NobodyThere
<1>6. ~ Mover(c)'
  BY <1>4 DEF Mover
<1>7. Pending(c, "allow")' \/ e \in allowed'
  BY <1>3 DEF Sends, Pending, staff
<1>8. Request(c).doc \notin disturbed' => Disallowing(e)' = {}
  <2>1. Request(c).doc \notin disturbed' => Disallowing(e) = {}
    BY DEF DisturbRivals
  <2>2. \A b \in Calls \ {c} : Sent(b)' = Sent(b)
    BY After
  <2> QED
    BY <1>4, <2>1, <2>2 DEF Disallowing
<1>9. Keeps(c)'
  BY <1>4, <1>7, <1>8 DEF Keeps, Calm, CallKept, GivesOrGave, AllowsOrAllowed
<1> QED
  BY <1>4, <1>5, <1>6, <1>9, Begins

(* Who is at work on a user is in the way of a call that begins with it.   *)
LEMMA InTheWay ==
  ASSUME Inv, NEW c \in Calls, NEW b \in Calls \ {c}, Changing(b), Request(b).doc = Request(c).doc
  PROVE  Busy(c)
<1>1. Running(b) /\ call[b].stages # Reading
  BY DEF Changing, Taker, Mover, Past
<1> QED
  BY <1>1 DEF Busy, Reading

(* The update of an account begins.                                        *)
LEMMA UpdateBegins ==
  ASSUME Inv, AllowedInv, NEW c \in Calls, NEW s \in Sent(c), UpdateAccount(c, s), UNCHANGED staff,
         NEW u, u = Request(c).doc[2], NEW e, e = Request(c).email, NEW old, old = users[u].email, u \in DOMAIN users,
         Sends(c, {Bare("updateUser")} \cup EmailsFollow(old, e)
                  \cup (IF Request(c).op = "updateMe" THEN {Bare("setKey"), Bare("upload")} ELSE {})),
         DisturbRivals(c, e, old, Busy(c))
  PROVE  AllowedInv'
<1>1. s.op = "read" /\ Acts(c, s) /\ Request(c).op \in {"updateEmployee", "updateMe"}
  BY DEF UpdateAccount, Acts, StaffStep
<1>2. Request(c).doc = User(u) /\ Its(c) = u
  <2>1. Understood(c, Request(c))
    BY <1>1, ReadAlone DEF Inv
  <2> QED
    BY <1>1, <2>1, SameUser DEF Understood, Its
<1>3. /\ \A b \in Giving(old) : Request(b).doc \in disturbed'
      /\ Busy(c) \/ Disallowing(e) # {} => Request(c).doc \in disturbed'
      /\ disturbed \subseteq disturbed'
  BY DEF DisturbRivals
<1>4. /\ \A op : Bare(op).op = op
      /\ Bare("updateUser") \in Sent(c)'
      /\ \A t \in Sent(c)' : t.op \in {"disallow", "allow"} => t \in EmailsFollow(old, e)
      /\ \A t \in EmailsFollow(old, e) : t \in Sent(c)'
      /\ \A t \in Sent(c)' : t.op = "setKey" => Bare("upload") \in Sent(c)'
  <2>1. \A op : Bare(op).op = op
    BY DEF Bare
  <2>2. \A t \in EmailsFollow(old, e) : t.op # "setKey"
    BY DEF EmailsFollow
  <2> QED
    BY <2>1, <2>2 DEF Sends
<1>5. /\ old # e => Allows(e) \in Sent(c)'
      /\ \A t \in Sent(c)' : t.op = "disallow" => t.email = old /\ old # e
      /\ Allows(e).op = "allow"
  BY <1>4 DEF EmailsFollow, Allows
<1>6. Past(c)' /\ Request(c)' = Request(c) /\ (\A b \in Calls \ {c} : Sent(b)' = Sent(b))
  BY <1>1, <1>4, After
<1>7. /\ Pending(c, "updateUser")' /\ Row(c)'
      /\ old # e => Pending(c, "allow")'
      /\ Pending(c, "setKey")' => Pending(c, "upload")'
  BY <1>4, <1>5 DEF Pending, Row
<1>8. \A b \in Calls \ {c} : Changing(b) /\ Request(b).doc = Request(c).doc => Request(c).doc \in disturbed'
  BY <1>3, InTheWay
<1>9. ASSUME Request(c).doc \notin disturbed' PROVE CallKept(c)'
  <2>1. Disallowing(e)' = {}
    <3>1. Disallowing(e) = {}
      BY <1>3, <1>9
    <3>2. \A t \in Sent(c)' : ~ (t.op = "disallow" /\ t.email = e)
      BY <1>5
    <3> QED
      BY <1>6, <3>1, <3>2 DEF Disallowing
  <2>2. old = e => e \in allowed'
    <3>1. User(u) \notin disturbed /\ ~ Busy(c)
      BY <1>2, <1>3, <1>9
    <3>2. AllowedOrChanging(u)
      BY <3>1 DEF AllowedInv, UsersKept
    <3>3. ~ Changing(c)
      BY <1>1, After DEF Changing, Taker, Mover
    <3>4. users[u].email \in allowed
      BY <1>2, <3>1, <3>2, <3>3, InTheWay DEF AllowedOrChanging
    <3> QED
      BY <3>4 DEF staff
  <2>3. Request(c).op # "removeEmployee"
    BY <1>1
  <2> QED
    BY <1>6, <1>7, <2>1, <2>2, <2>3 DEF CallKept, GivesOrGave, AllowsOrAllowed
<1>10. Keeps(c)'
  BY <1>6, <1>9 DEF Keeps, Calm
<1>11. \A t \in Sent(c)' : t.op = "disallow" =>
         \E v \in DOMAIN users : /\ t.email = users[v].email /\ Request(c).doc = User(v)
                                 /\ \A b \in Giving(t.email) : Request(b).doc \in disturbed'
  BY <1>2, <1>3, <1>5
<1> QED
  BY <1>1, <1>2, <1>8, <1>10, <1>11, Begins

(* The removal of an employee begins.                                      *)
LEMMA RemovalBegins ==
  ASSUME Inv, AllowedInv, NEW c \in Calls, NEW s \in Sent(c), RemoveEmployee(c, s), UNCHANGED staff,
         NEW u, u = Request(c).doc[2], NEW old, old = users[u].email, u \in DOMAIN users,
         Sends(c, {Bare("deleteUser"), Disallows(old)}), DisturbRivals(c, None, old, Busy(c))
  PROVE  AllowedInv'
<1>1. s.op = "read" /\ Acts(c, s) /\ Request(c).op = "removeEmployee"
  BY DEF RemoveEmployee, Acts, StaffStep
<1>2. Request(c).doc = User(u) /\ Its(c) = u
  <2>1. Understood(c, Request(c))
    BY <1>1, ReadAlone DEF Inv
  <2> QED
    BY <1>1, <2>1, SameUser DEF Understood, Its
<1>3. /\ \A b \in Giving(old) : Request(b).doc \in disturbed'
      /\ Busy(c) => Request(c).doc \in disturbed'
  BY DEF DisturbRivals
<1>4. /\ Bare("deleteUser").op = "deleteUser" /\ Disallows(old).op = "disallow" /\ Disallows(old).email = old
      /\ Sent(c)' = {Bare("deleteUser"), Disallows(old)}
  BY DEF Bare, Disallows, Sends
<1>5. Past(c)' /\ Request(c)' = Request(c)
  BY <1>1, <1>4, After
<1>6. Pending(c, "deleteUser")' /\ ~ Row(c)' /\ ~ Pending(c, "setKey")' /\ ~ Taker(c)'
  BY <1>1, <1>4, <1>5 DEF Pending, Row, Taker
<1>7. Keeps(c)'
  BY <1>6 DEF Keeps, CallKept
<1>8. \A b \in Calls \ {c} : Changing(b) /\ Request(b).doc = Request(c).doc => Request(c).doc \in disturbed'
  BY <1>3, InTheWay
<1>9. \A t \in Sent(c)' : t.op = "disallow" =>
        \E v \in DOMAIN users : /\ t.email = users[v].email /\ Request(c).doc = User(v)
                                /\ \A b \in Giving(t.email) : Request(b).doc \in disturbed'
  BY <1>2, <1>3, <1>4
<1> QED
  BY <1>1, <1>2, <1>7, <1>8, <1>9, Begins

(* The other reads send nothing that changes users.                        *)
LEMMA OtherReads ==
  ASSUME Inv, NEW c \in Calls, NEW s \in Sent(c), Acts(c, s), s.op = "read",
         Request(c).op \notin {"signUp", "createEmployee", "updateEmployee", "updateMe", "removeEmployee"}
  PROVE  \A t \in Sent(c)' : t.op \notin Changes
<1> SUFFICES ASSUME NEW t \in Sent(c)', t.op \in Changes PROVE FALSE
  OBVIOUS
<1>1. t \notin Sent(c) \ {s}
  BY ReadAlone DEF Inv, Bare
<1>2. Sender(c, s, t)
  BY <1>1, Senders DEF Inv
<1> QED
  BY <1>2 DEF Sender, Changes, SignUp, CreateEmployee, UpdateAccount, RemoveEmployee

(* The steps of the staff's services keep AllowedInv.                      *)
LEMMA StaffAllowed ==
  ASSUME Inv, AllowedInv, NEW c \in Calls, NEW s \in Sent(c), StaffStep(c, s)
  PROVE  AllowedInv'
<1>1. Acts(c, s) /\ Running(c)
  BY DEF Acts, Sent
<1>2. CASE InsertUser(c, s)
  <2>1. s.op \in Changes
    BY <1>2 DEF InsertUser, Changes
  <2> QED
    BY <1>2, <2>1, InsertUserDoes, DoesKeeps
<1>3. CASE Allow(c, s) \/ Disallow(c, s)
  <2>1. s.op \in Changes
    BY <1>3 DEF Allow, Disallow, Changes
  <2> QED
    BY <1>3, <2>1, EmailsDo, DoesKeeps
<1>4. CASE UpdateUser(c, s)
  <2>1. s.op \in Changes
    BY <1>4 DEF UpdateUser, Changes
  <2> QED
    BY <1>4, <2>1, UpdateUserDoes, DoesKeeps
<1>5. CASE SetKey(c, s)
  <2>1. s.op \in Changes
    BY <1>5 DEF SetKey, Changes
  <2> QED
    BY <1>5, <2>1, SetKeyDoes, DoesKeeps
<1>6. CASE UploadPicture(c, s)
  <2>1. s.op \in Changes
    BY <1>6 DEF UploadPicture, Changes
  <2> QED
    BY <1>6, <2>1, UploadDoes, DoesKeeps
<1>7. CASE DeleteUser(c, s)
  <2>1. s.op \in Changes
    BY <1>7 DEF DeleteUser, Changes
  <2> QED
    BY <1>7, <2>1, DeleteUserDoes, DoesKeeps
<1>8. CASE SetPassword(c, s)
  <2>1. s.op \notin Changes \cup {"read"} /\ UNCHANGED <<allowed, pictures>>
    BY <1>8 DEF SetPassword, Changes
  <2>2. /\ DOMAIN users' = DOMAIN users
        /\ \A v \in DOMAIN users : users'[v].email = users[v].email /\ users'[v].picture = users[v].picture
    BY <1>8, SetFieldOK
  <2> QED
    BY <1>1, <2>1, <2>2, Aside
<1>9. CASE LogIn(c, s) \/ ReadUserForPassword(c, s)
  <2>1. s.op = "read" /\ Request(c).op \in {"logIn", "updatePassword"} /\ UNCHANGED staff
    BY <1>9 DEF LogIn, ReadUserForPassword
  <2> QED
    BY <1>1, <2>1, OtherReads, BeginsNothing
<1>10. CASE SignUp(c, s)
  <2>1. s.op = "read" /\ Request(c).op = "signUp" /\ UNCHANGED staff
    BY <1>10 DEF SignUp
  <2>2. CASE Sends(c, {})
    BY <1>1, <2>1, <2>2, BeginsNothing DEF Sends
  <2>3. CASE Sends(c, {Insert(c)})
    <3>1. ~ Refuse(c)
      BY <1>1, <2>3, Refuses DEF Inv, Sends
    <3>2. Request(c).email \in allowed /\ DisturbRivals(c, Request(c).email, None, FALSE)
      BY <1>10, <3>1 DEF SignUp
    <3> QED
      BY <1>1, <2>1, <2>3, <3>2, InsertionBegins
  <2> QED
    BY <1>10, <2>2, <2>3, StaffReads DEF Inv
<1>11. CASE CreateEmployee(c, s)
  <2>1. s.op = "read" /\ Request(c).op = "createEmployee" /\ UNCHANGED staff
    BY <1>11 DEF CreateEmployee
  <2>2. CASE Sends(c, {})
    BY <1>1, <2>1, <2>2, BeginsNothing DEF Sends
  <2>3. CASE Sends(c, {Insert(c), Allows(Request(c).email)})
    <3>1. ~ Refuse(c)
      BY <1>1, <2>3, Refuses DEF Inv, Sends
    <3>2. DisturbRivals(c, Request(c).email, None, FALSE)
      BY <1>11, <3>1 DEF CreateEmployee
    <3> QED
      BY <1>1, <2>1, <2>3, <3>2, InsertionBegins
  <2> QED
    BY <1>11, <2>2, <2>3, StaffReads DEF Inv
<1>12. CASE UpdateAccount(c, s)
  <2>1. s.op = "read" /\ UNCHANGED staff
    BY <1>12 DEF UpdateAccount
  <2> DEFINE u == Request(c).doc[2]
             S == {Bare("updateUser")} \cup EmailsFollow(users[u].email, Request(c).email)
                  \cup (IF Request(c).op = "updateMe" THEN {Bare("setKey"), Bare("upload")} ELSE {})
  <2>2. CASE Sends(c, {})
    BY <1>1, <2>1, <2>2, BeginsNothing DEF Sends
  <2>3. CASE u \in DOMAIN users /\ Sends(c, S)
    <3>1. ~ Refuse(c)
      BY <1>1, <2>3, Refuses DEF Inv, Sends
    <3>2. DisturbRivals(c, Request(c).email, users[u].email, Busy(c))
      BY <1>12, <3>1 DEF UpdateAccount
    <3> QED
      BY <1>12, <2>1, <2>3, <3>2, UpdateBegins
  <2> QED
    BY <1>12, <2>2, <2>3, StaffReads DEF Inv
<1>13. CASE RemoveEmployee(c, s)
  <2>1. s.op = "read" /\ UNCHANGED staff
    BY <1>13 DEF RemoveEmployee
  <2> DEFINE u == Request(c).doc[2]
  <2>2. CASE Sends(c, {})
    BY <1>1, <2>1, <2>2, BeginsNothing DEF Sends
  <2>3. CASE u \in DOMAIN users /\ Sends(c, {Bare("deleteUser"), Disallows(users[u].email)})
    <3>1. ~ Refuse(c)
      BY <1>1, <2>3, Refuses DEF Inv, Sends
    <3>2. DisturbRivals(c, None, users[u].email, Busy(c))
      BY <1>13, <3>1 DEF RemoveEmployee
    <3> QED
      BY <1>13, <2>1, <2>3, <3>2, RemovalBegins
  <2> QED
    BY <1>13, <2>2, <2>3, StaffReads DEF Inv
<1> QED
  BY <1>2, <1>3, <1>4, <1>5, <1>6, <1>7, <1>8, <1>9, <1>10, <1>11, <1>12, <1>13 DEF StaffStep

(* Any step of a call keeps AllowedInv; one that fails disturbs its user.  *)
LEMMA ServeAllowed ==
  ASSUME Inv, AllowedInv, NEW c \in Calls, Serve(c)
  PROVE  AllowedInv'
<1>1. PICK s \in Sent(c) :
        \/ SessionStep(c, s) /\ UNCHANGED staff
        \/ StaffStep(c, s)
        \/ StorefrontStep(c, s) /\ UNCHANGED staff
        \/ Lose(c, s) /\ UNCHANGED staff
  BY DEF Serve
<1>2. Acts(c, s)
  BY <1>1 DEF Acts
<1>3. CASE StaffStep(c, s)
  BY <1>3, StaffAllowed
<1>4. CASE Lose(c, s) /\ s.op \in Changes /\ UNCHANGED staff
  BY <1>4, LoseKeeps
<1>5. CASE s.op \notin Changes \cup {"read"} /\ UNCHANGED staff
  BY <1>2, <1>5, Aside DEF staff
<1>6. CASE Lose(c, s) /\ s.op = "read" /\ UNCHANGED staff
  <2>1. Sent(c)' = {}
    BY <1>6, Lost, ReadAlone DEF Inv, Sends
  <2> QED
    BY <1>2, <1>6, <2>1, BeginsNothing
<1>7. CASE s.op = "read" /\ (SessionStep(c, s) \/ StorefrontStep(c, s)) /\ UNCHANGED staff
  <2>1. Request(c).op \notin {"signUp", "createEmployee", "updateEmployee", "updateMe", "removeEmployee"}
    BY <1>7 DEF SessionStep, SignTokens, StoreHash, LogOut, RefreshToken, StorefrontStep, InsertCustomer, WriteCustomer,
      SendOtp, ValidateOtp, FindCustomer, ForgetCode, GetCustomer, SignUpCustomer, SendChangeOtp, AcceptCode,
      CreateCustomer, UpdateCustomer, ReadCustomer, DeleteCustomer
  <2> QED
    BY <1>2, <1>7, <2>1, OtherReads, BeginsNothing
<1>8. SessionStep(c, s) \/ StorefrontStep(c, s) => s.op \notin Changes
  BY DEF Changes, SessionStep, SignTokens, StoreHash, LogOut, RefreshToken, StorefrontStep, InsertCustomer, WriteCustomer,
    SendOtp, ValidateOtp, FindCustomer, ForgetCode, GetCustomer, SignUpCustomer, SendChangeOtp, AcceptCode,
    CreateCustomer, UpdateCustomer, ReadCustomer, DeleteCustomer
<1> QED
  BY <1>1, <1>3, <1>4, <1>5, <1>6, <1>7, <1>8

(* A call that arrives keeps AllowedInv: it has changed nothing yet.       *)
LEMMA ReceiveAllowed ==
  ASSUME Inv, AllowedInv, NEW c \in Calls, ReceiveRequest(c)
  PROVE  AllowedInv'
<1>1. /\ Alone(c) /\ call[c].at = "idle" /\ ~ Running(c) /\ Sent(c) = {}
      /\ Running(c)' /\ call'[c].stages = Reading /\ Sent(c)' = {Bare("read")}
      /\ UNCHANGED <<staff, disturbed>>
  BY ReceiveMoves
<1>2. \A b \in Calls \ {c} : /\ Running(b)' <=> Running(b)
                             /\ Past(b)' <=> Past(b)
                             /\ Request(b)' = Request(b) /\ Sent(b)' = Sent(b)
                             /\ Unborn(b)' => Unborn(b)
  BY <1>1 DEF Alone, Running, Past, Request, Sent, Unborn
<1>3. ~ Past(c) /\ ~ Past(c)' /\ Unborn(c)
  BY <1>1 DEF Past, Unborn
<1>4. \A b \in Calls : /\ Taker(b)' <=> Taker(b)
                       /\ Mover(b)' <=> Mover(b)
                       /\ Changing(b)' <=> Changing(b)
                       /\ Past(b)' <=> Past(b)
                       /\ Past(b) => Request(b)' = Request(b) /\ Its(b)' = Its(b) /\ (Calm(b)' <=> Calm(b))
  BY <1>1, <1>2, <1>3 DEF Taker, Mover, Changing, Its, Calm
<1>5. \A b \in Calls, op \in Changes : Pending(b, op)' <=> Pending(b, op)
  BY <1>1, <1>2 DEF Pending, Bare, Changes
<1>6. \A e : Disallowing(e)' = Disallowing(e) /\ \A b \in Disallowing(e) : Request(b)' = Request(b)
  BY <1>1, <1>2 DEF Disallowing, Bare
<1>7. users' = users /\ allowed' = allowed /\ pictures' = pictures /\ disturbed' = disturbed
  BY <1>1 DEF staff
<1>8. OneChanging'
  BY <1>4 DEF AllowedInv, OneChanging, Changing, Taker, Mover
<1>9. BornFirst'
  BY <1>2, <1>3, <1>4 DEF AllowedInv, BornFirst, Mover
<1>10. UsersKept'
  <2> SUFFICES ASSUME NEW u \in DOMAIN users, User(u) \notin disturbed
               PROVE  DisallowedByOwn(u)' /\ AllowedOrChanging(u)' /\ PictureOrUpload(u)'
    BY <1>7 DEF UsersKept
  <2>1. DisallowedByOwn(u) /\ AllowedOrChanging(u) /\ PictureOrUpload(u)
    BY DEF AllowedInv, UsersKept
  <2>2. DisallowedByOwn(u)'
    BY <1>6, <1>7, <2>1 DEF DisallowedByOwn
  <2>3. AllowedOrChanging(u)'
    BY <1>4, <1>7, <2>1 DEF AllowedOrChanging, Changing, Taker, Mover
  <2>4. \A b \in Calls : Pending(b, "upload") => b # c
    BY <1>1 DEF Pending
  <2>5. PictureOrUpload(u)'
    BY <1>2, <1>5, <1>7, <2>1, <2>4 DEF PictureOrUpload, Changes
  <2> QED
    BY <2>2, <2>3, <2>5
<1>11. CallsKeep'
  <2> SUFFICES ASSUME NEW b \in Calls, Past(b)', Calm(b)' PROVE CallKept(b)'
    BY DEF CallsKeep
  <2>1. /\ CallKept(b) /\ Request(b)' = Request(b) /\ Its(b)' = Its(b)
        /\ Taker(b)' <=> Taker(b)
    BY <1>4 DEF AllowedInv, CallsKeep
  <2>2. Row(b)' <=> Row(b)
    BY <1>5 DEF Row, Changes
  <2>3. (GivesOrGave(b)' <=> GivesOrGave(b)) /\ (AllowsOrAllowed(b)' <=> AllowsOrAllowed(b))
    BY <1>5, <1>7, <2>1, <2>2 DEF GivesOrGave, AllowsOrAllowed, Changes
  <2> QED
    BY <1>5, <1>6, <1>7, <2>1, <2>2, <2>3 DEF CallKept, Changes
<1> QED
  BY <1>8, <1>9, <1>10, <1>11 DEF AllowedInv

(* The server stops: the users that a call was at work on are disturbed.   *)
LEMMA CrashAllowed ==
  ASSUME Inv, AllowedInv, Crash
  PROVE  AllowedInv'
<1>1. /\ \A c \in Calls : ~ Running(c)' /\ Sent(c)' = {} /\ (Past(c) => Request(c).doc \in disturbed')
      /\ disturbed \subseteq disturbed'
  BY CrashMoves
<1>2. users' = users /\ allowed' = allowed /\ pictures' = pictures
  BY DEF Crash, staff
<1>3. \A c \in Calls : ~ Past(c)' /\ ~ Taker(c)' /\ ~ Mover(c)' /\ ~ Changing(c)'
  BY <1>1 DEF Past, Taker, Mover, Changing
<1>4. OneChanging' /\ BornFirst' /\ CallsKeep'
  BY <1>3 DEF OneChanging, BornFirst, CallsKeep
<1>5. \A e : Disallowing(e)' = {}
  BY <1>1 DEF Disallowing
<1>6. UsersKept'
  <2> SUFFICES ASSUME NEW u \in DOMAIN users, User(u) \notin disturbed'
               PROVE  DisallowedByOwn(u)' /\ AllowedOrChanging(u)' /\ PictureOrUpload(u)'
    BY <1>2 DEF UsersKept
  <2>1. AllowedOrChanging(u) /\ PictureOrUpload(u)
    BY <1>1 DEF AllowedInv, UsersKept
  <2>2. \A b \in Calls : Changing(b) \/ Pending(b, "upload") => Past(b)
    BY ChangesOf DEF Pending, Changing, Taker, Mover, Changes
  <2>3. users[u].email \in allowed /\ (users[u].picture => u \in pictures)
    BY <1>1, <2>1, <2>2 DEF AllowedOrChanging, PictureOrUpload
  <2> QED
    BY <1>2, <1>5, <2>3 DEF DisallowedByOwn, AllowedOrChanging, PictureOrUpload
<1> QED
  BY <1>4, <1>6 DEF AllowedInv

(* The invariant of the users, their e-mails and the calls on them.        *)
THEOREM AllowedAlways == Spec => []AllowedInv
<1>1. Init => AllowedInv
  <2> SUFFICES ASSUME Init PROVE AllowedInv
    OBVIOUS
  <2>1. \A c \in Calls : ~ Running(c) /\ ~ Past(c) /\ ~ Taker(c) /\ ~ Mover(c) /\ ~ Changing(c) /\ Sent(c) = {}
    BY DEF Init, HandlersInit, Running, Past, Taker, Mover, Changing, Sent, Blank
  <2>2. \A u \in DOMAIN users : users[u].email \in allowed /\ users[u].picture = FALSE
    BY OpeningAssumption DEF Init
  <2> QED
    BY <2>1, <2>2 DEF AllowedInv, OneChanging, BornFirst, UsersKept, CallsKeep, DisallowedByOwn, AllowedOrChanging,
                      PictureOrUpload, Disallowing
<1>2. Inv /\ AllowedInv /\ [Next]_vars => AllowedInv'
  <2> SUFFICES ASSUME Inv, AllowedInv, [Next]_vars PROVE AllowedInv'
    OBVIOUS
  <2>1. CASE PassSecond \/ UNCHANGED vars
    <3>1. UNCHANGED <<staff, call, disturbed>>
      BY <2>1 DEF PassSecond, vars
    <3>2. \A b \in Calls : /\ Past(b)' <=> Past(b)
                           /\ Request(b)' = Request(b) /\ Sent(b)' = Sent(b)
                           /\ Unborn(b)' => Unborn(b)
      BY <3>1 DEF Past, Running, Request, Sent, Unborn
    <3> QED
      BY <3>1, <3>2, Unaffected
  <2>2. CASE Crash
    BY <2>2, CrashAllowed
  <2>3. CASE \E c \in Calls : ReceiveRequest(c)
    BY <2>3, ReceiveAllowed
  <2>4. CASE \E c \in Calls : Serve(c)
    BY <2>4, ServeAllowed
  <2> QED
    BY <2>1, <2>2, <2>3, <2>4 DEF Next
<1> QED
  BY <1>1, <1>2, Invariant, PTL DEF Spec

(* The e-mail of a user that is at rest is allowed and its picture has a   *)
(* file, unless something has disturbed the user: the statements of        *)
(* EmployeesService.update and UsersService.updateMe may end in any order. *)
THEOREM EmailsStayAllowed == Spec => []EmailsAllowed
<1>1. Inv /\ AllowedInv => EmailsAllowed
  <2> SUFFICES ASSUME Inv, AllowedInv, NEW u \in DOMAIN users, AtRest(User(u)), User(u) \notin disturbed
               PROVE  users[u].email \in allowed /\ (users[u].picture => u \in pictures)
    BY DEF EmailsAllowed
  <2>1. AllowedOrChanging(u) /\ PictureOrUpload(u)
    BY DEF AllowedInv, UsersKept
  <2>2. \A b \in Calls : Changing(b) \/ Pending(b, "upload") => Running(b)
    BY ChangesOf DEF Pending, Changing, Taker, Mover, Changes, Past
  <2> QED
    BY <2>1, <2>2 DEF AtRest, AllowedOrChanging, PictureOrUpload
<1> QED
  BY <1>1, AllowedAlways, Invariant, PTL
-----------------------------------------------------------------------------
(* While nothing is disturbed, an allowed e-mail is there to sign up, has  *)
(* a user, is about to get one, or is about to be disallowed.              *)
Spare == OpeningEmails \ {OpeningUsers[u].email : u \in DOMAIN OpeningUsers}
Owned(e) == \E u \in DOMAIN users : users[u].email = e
NoneLeft == \A e \in allowed : e \in Spare \/ Owned(e) \/ Giving(e) # {} \/ Disallowing(e) # {}

(* Who is about to take the e-mail from a user disallows it, if it is      *)
(* allowed, and nobody else is about to give it to a user.                 *)
Leaving(c) == Pending(c, "updateUser") \/ Pending(c, "deleteUser")
TakesAlong(c, e) ==
  /\ \/ Pending(c, "updateUser") /\ e = Request(c).email
     \/ c \in Disallowing(e)
     \/ e \notin allowed
  /\ Giving(e) \subseteq {c}
LeaversTakeAlong ==
  \A c \in Calls : Leaving(c) => \A u \in DOMAIN users : u = Its(c) => TakesAlong(c, users[u].email)
LeftInv == disturbed = {} => NoneLeft /\ LeaversTakeAlong

(* A statement that changes a user, and the e-mail of the user with it.    *)
LEMMA DoesLeaveNone ==
  ASSUME Inv, AllowedInv, LeftInv, NEW c \in Calls, NEW s \in Sent(c), s.op \in Changes, NEW u, u = Its(c), Does(c, s, u)
  PROVE  LeftInv'
<1> SUFFICES ASSUME disturbed' = {} PROVE NoneLeft' /\ LeaversTakeAlong'
  BY DEF LeftInv
<1>1. Continues(c) /\ Spares(c) /\ disturbed = {} /\ Changing(c) /\ Past(c)
  BY ChangesOf DEF Does, Continues
<1>2. NoneLeft /\ LeaversTakeAlong /\ CallKept(c)
  BY <1>1 DEF LeftInv, AllowedInv, CallsKeep, Calm
<1>3. /\ \A b \in Calls \ {c} : Sent(b)' = Sent(b) /\ Request(b)' = Request(b)
      /\ Sent(c)' # {} => Request(c)' = Request(c)
      /\ \A b \in Calls : Past(b)' => Request(b)' = Request(b)
  BY <1>1 DEF Continues, Does
<1>4. \A b \in Calls : \A t \in Sent(b) : t # s \/ b # c => t \in Sent(b)' /\ Request(b)' = Request(b)
  BY <1>3 DEF Does
<1>5. \A e : \A b \in Calls : /\ b \in Disallowing(e) <=> \E t \in Sent(b) : t.op = "disallow" /\ t.email = e
                              /\ b \in Giving(e) <=> \E t \in Sent(b) : t.op \in {"insertUser", "updateUser"} /\ Request(b).email = e
  BY DEF Disallowing, Giving
<1>6. ASSUME NEW e, NEW b \in Calls, NEW t \in Sent(b), t # s \/ b # c
      PROVE  /\ t.op = "disallow" /\ t.email = e => b \in Disallowing(e)'
             /\ t.op \in {"insertUser", "updateUser"} /\ Request(b).email = e => b \in Giving(e)'
  BY <1>4, <1>6 DEF Disallowing, Giving
<1>7. /\ s.op = "allow" => Taker(c) /\ s.email = Request(c).email
      /\ s.op \in {"insertUser", "updateUser"} => Taker(c)
      /\ s.op = "insertUser" => Its(c) = c
      /\ \A t \in Sent(c) : t.op = "updateUser" => Taker(c) /\ Mover(c)
      /\ \A t \in Sent(c) : t.op = "deleteUser" => ~ Taker(c)
      /\ s.op = "insertUser" => ~ Mover(c)
  BY ChangesOf DEF Mover
<1>8. s.op = "insertUser" => u \notin DOMAIN users
  BY <1>7 DEF Inv, Fresh, Unborn
<1>9. ASSUME NEW b \in Calls, Leaving(b)
      PROVE  \A v \in DOMAIN users : v = Its(b) => TakesAlong(b, users[v].email)
  BY <1>2, <1>9 DEF LeaversTakeAlong
<1>10. ASSUME NEW e \in allowed'
       PROVE  e \in Spare \/ Owned(e)' \/ Giving(e)' # {} \/ Disallowing(e)' # {}
  <2>1. CASE e \notin allowed
    <3>1. Taker(c) /\ e = Request(c).email /\ s.op = "allow"
      BY <1>7, <1>10, <2>1 DEF Does
    <3>2. CASE Row(c)
      BY <1>6, <3>1, <3>2 DEF Row, Pending
    <3>3. CASE ~ Row(c)
      BY <1>2, <3>1, <3>3 DEF CallKept, GivesOrGave, Owned, Does
    <3> QED
      BY <3>2, <3>3
  <2>2. CASE e \in allowed /\ Owned(e)
    <3>1. PICK v \in DOMAIN users : users[v].email = e
      BY <2>2 DEF Owned
    <3>2. CASE v # u
      BY <1>1, <3>1, <3>2 DEF Spares, Owned
    <3>3. CASE v = u /\ s.op \notin {"updateUser", "deleteUser"}
      BY <1>8, <3>1, <3>3 DEF Does, Owned
    <3>4. CASE v = u /\ s.op \in {"updateUser", "deleteUser"}
      <4>1. TakesAlong(c, e)
        BY <1>9, <3>1, <3>4 DEF Leaving, Pending
      <4>2. CASE c \in Disallowing(e)
        BY SMTT(30), <1>5, <1>6, <3>4, <4>2
      <4>3. CASE Pending(c, "updateUser") /\ e = Request(c).email
        <5>1. s.op = "updateUser"
          BY <1>7, <3>4, <4>3 DEF Pending
        <5> QED
          BY <4>3, <5>1 DEF Does, Owned
      <4> QED
        BY <2>2, <4>1, <4>2, <4>3 DEF TakesAlong
    <3> QED
      BY <3>2, <3>3, <3>4
  <2>3. CASE Giving(e) # {}
    <3>1. PICK b \in Calls : \E t \in Sent(b) : t.op \in {"insertUser", "updateUser"} /\ Request(b).email = e
      BY <2>3 DEF Giving
    <3>2. PICK t \in Sent(b) : t.op \in {"insertUser", "updateUser"} /\ Request(b).email = e
      BY <3>1
    <3>3. CASE t # s \/ b # c
      BY <1>6, <3>2, <3>3
    <3>4. CASE t = s /\ b = c
      BY <3>2, <3>4 DEF Does, Owned
    <3> QED
      BY <3>3, <3>4
  <2>4. CASE Disallowing(e) # {}
    <3>1. PICK b \in Calls : \E t \in Sent(b) : t.op = "disallow" /\ t.email = e
      BY <2>4 DEF Disallowing
    <3>2. PICK t \in Sent(b) : t.op = "disallow" /\ t.email = e
      BY <3>1
    <3>3. t # s \/ b # c
      BY <1>10, <3>2 DEF Does
    <3> QED
      BY <1>6, <3>2, <3>3
  <2> QED
    BY <1>2, <2>1, <2>2, <2>3, <2>4 DEF NoneLeft
<1>11. NoneLeft'
  BY <1>10 DEF NoneLeft
<1>12. ASSUME NEW b \in Calls, Leaving(b)', NEW v \in DOMAIN users', v = Its(b)', NEW e, e = users'[v].email
       PROVE  TakesAlong(b, e)'
  <2>1. Leaving(b) /\ Request(b)' = Request(b) /\ v = Its(b) /\ Past(b) /\ Changing(b)
    <3>1. PICK t \in Sent(b)' : t.op \in {"updateUser", "deleteUser"}
      BY <1>12 DEF Leaving, Pending
    <3>2. t \in Sent(b)
      BY <1>1, <3>1 DEF Continues, Changes
    <3>3. Request(b)' = Request(b)
      BY <1>3, <3>1
    <3>4. Past(b) /\ Changing(b)
      BY <3>1, <3>2, ChangesOf DEF Changes
    <3> QED
      BY <1>12, <3>1, <3>2, <3>3, <3>4 DEF Leaving, Pending, Its
  <2>2. \A d : d \in Giving(e)' => d \in Giving(e)
    <3>1. \A d \in Calls : \A t \in Sent(d)' : t.op \in Changes => t \in Sent(d) /\ Request(d)' = Request(d)
      BY <1>1, <1>3 DEF Continues
    <3> QED
      BY <3>1 DEF Giving, Changes
  <2>3. CASE b # c
    <3>1. v # u
      BY <1>1, <2>1, <2>3, Changers DEF AllowedInv, OneChanging, Calm
    <3>2. v \in DOMAIN users /\ users[v].email = e
      BY <1>1, <1>12, <3>1 DEF Spares
    <3>3. TakesAlong(b, e)
      BY <1>9, <2>1, <3>2
    <3>4. Pending(b, "updateUser") => Pending(b, "updateUser")'
      BY <1>3, <2>3 DEF Pending
    <3>5. b \in Disallowing(e) => b \in Disallowing(e)'
      BY <1>5, <1>6, <2>3
    <3>6. e \notin allowed => e \notin allowed'
      <4> SUFFICES ASSUME e \notin allowed, e \in allowed' PROVE FALSE
        OBVIOUS
      <4>1. Taker(c) /\ e = Request(c).email
        BY <1>7 DEF Does
      <4>2. ~ Row(c)
        <5>1. Row(c) => c \in Giving(e)
          BY <4>1 DEF Row, Pending, Giving
        <5> QED
          BY <2>3, <3>3, <5>1 DEF TakesAlong
      <4>3. u \in DOMAIN users /\ users[u].email = e
        BY <1>2, <4>1, <4>2 DEF CallKept, GivesOrGave
      <4> QED
        BY <3>1, <3>2, <4>3 DEF Inv, TypeOK, InUse
    <3> QED
      BY <2>1, <2>2, <3>3, <3>4, <3>5, <3>6 DEF TakesAlong
  <2>4. CASE b = c
    <3>1. v = u /\ s.op # "insertUser" /\ s.op # "deleteUser"
      BY <1>7, <1>12, <2>1, <2>4, ChangesOf DEF Does, Leaving, Pending, Changing, Mover, Taker
    <3>2. s.op # "updateUser"
      <4> SUFFICES ASSUME s.op = "updateUser" PROVE FALSE
        OBVIOUS
      <4>1. PICK t \in Sent(c)' : t.op \in {"updateUser", "deleteUser"}
        BY <1>12, <2>4 DEF Leaving, Pending
      <4>2. t \in Sent(c) /\ t # s
        BY <1>1, <4>1 DEF Continues, Changes, Does
      <4>3. t.op = "updateUser"
        BY <1>7, <4>1, <4>2
      <4> QED
        BY <4>2, <4>3, Sending DEF Inv
    <3>3. v \in DOMAIN users /\ users[v].email = e
      BY <1>12, <3>1, <3>2 DEF Does
    <3>4. TakesAlong(c, e)
      BY <1>9, <2>1, <2>4, <3>3
    <3>5. Pending(c, "updateUser") => Pending(c, "updateUser")'
      BY <3>2 DEF Pending, Does
    <3>6. c \in Disallowing(e) => c \in Disallowing(e)' \/ e \notin allowed'
      <4>1. ASSUME c \in Disallowing(e), e \in allowed' PROVE c \in Disallowing(e)'
        <5>1. PICK t \in Sent(c) : t.op = "disallow" /\ t.email = e
          BY <1>5, <4>1
        <5>2. t # s
          BY <4>1, <5>1 DEF Does
        <5> QED
          BY <1>6, <5>1, <5>2
      <4> QED
        BY <4>1
    <3>7. e \notin allowed /\ e \in allowed' => Pending(c, "updateUser") /\ e = Request(c).email
      BY <1>7, <2>1, <2>4 DEF Does, Leaving, Pending
    <3> QED
      BY <2>1, <2>2, <2>4, <3>4, <3>5, <3>6, <3>7 DEF TakesAlong
  <2> QED
    BY <2>3, <2>4
<1>13. LeaversTakeAlong'
  <2> SUFFICES ASSUME NEW b \in Calls, Leaving(b)', NEW v \in DOMAIN users', v = Its(b)', NEW e, e = users'[v].email
               PROVE  /\ \/ Pending(b, "updateUser")' /\ e = Request(b)'.email
                         \/ b \in Disallowing(e)'
                         \/ e \notin allowed'
                      /\ Giving(e)' \subseteq {b}
    BY DEF LeaversTakeAlong, TakesAlong, Disallowing, Giving
  <2> QED
    BY <1>12 DEF TakesAlong
<1> QED
  BY <1>11, <1>13

(* What has to do with no user's e-mail.                                   *)
LEMMA LeftUnaffected ==
  ASSUME LeftInv, NEW c \in Calls, UNCHANGED allowed, DOMAIN users' = DOMAIN users, disturbed \subseteq disturbed',
         \A v \in DOMAIN users : users'[v].email = users[v].email,
         \A b \in Calls \ {c} : Request(b)' = Request(b) /\ Sent(b)' = Sent(b),
         \A t \in Sent(c) \cup Sent(c)' : t.op \notin Changes
  PROVE  LeftInv'
<1> SUFFICES ASSUME disturbed' = {} PROVE NoneLeft' /\ LeaversTakeAlong'
  BY DEF LeftInv
<1>1. NoneLeft /\ LeaversTakeAlong
  BY DEF LeftInv
<1>2. \A e : Giving(e)' = Giving(e) /\ Disallowing(e)' = Disallowing(e)
  BY DEF Giving, Disallowing, Changes
<1>3. \A b \in Calls : /\ Leaving(b)' <=> Leaving(b)
                       /\ Pending(b, "updateUser")' <=> Pending(b, "updateUser")
                       /\ Leaving(b) => Request(b)' = Request(b) /\ Its(b)' = Its(b)
  BY DEF Leaving, Pending, Its, Changes
<1>4. NoneLeft'
  BY <1>1, <1>2 DEF NoneLeft, Owned
<1>5. LeaversTakeAlong'
  <2> SUFFICES ASSUME NEW b \in Calls, Leaving(b)', NEW v \in DOMAIN users', v = Its(b)', NEW e, e = users'[v].email
               PROVE  /\ \/ Pending(b, "updateUser")' /\ e = Request(b)'.email
                         \/ b \in Disallowing(e)'
                         \/ e \notin allowed'
                      /\ Giving(e)' \subseteq {b}
    BY DEF LeaversTakeAlong, TakesAlong, Disallowing, Giving
  <2>1. TakesAlong(b, e) /\ Request(b)' = Request(b)
    BY <1>1, <1>3 DEF LeaversTakeAlong
  <2> QED
    BY <1>2, <1>3, <2>1 DEF TakesAlong
<1> QED
  BY <1>4, <1>5

(* A call begins to change a user.                                         *)
LEMMA BeginsLeavingNone ==
  ASSUME Inv, LeftInv, NEW c \in Calls, NEW s \in Sent(c), Acts(c, s), s.op = "read", UNCHANGED staff,
         Changing(c)' => \A b \in Calls \ {c} : Changing(b) /\ Request(b).doc = Request(c).doc => Request(c).doc \in disturbed',
         \A t \in Sent(c)' : t.op \in {"insertUser", "updateUser"} =>
           /\ Changing(c)'
           /\ \A v \in DOMAIN users : users[v].email = Request(c).email => Request(c).doc = User(v),
         \A v \in DOMAIN users, e \in Emails :
           disturbed' = {} /\ v = Its(c) /\ e = users[v].email /\ Leaving(c)' => TakesAlong(c, e)'
  PROVE  LeftInv'
<1> SUFFICES ASSUME disturbed' = {} PROVE NoneLeft' /\ LeaversTakeAlong'
  BY DEF LeftInv
<1>1. /\ \A b \in Calls \ {c} : Request(b)' = Request(b) /\ Sent(b)' = Sent(b)
      /\ Sent(c)' # {} => Request(c)' = Request(c)
      /\ disturbed = {}
  BY After
<1>2. NoneLeft /\ LeaversTakeAlong
  BY <1>1 DEF LeftInv
<1>3. Sent(c) = {Bare("read")} /\ Bare("read").op = "read"
  BY ReadAlone DEF Inv, Bare
<1>4. users' = users /\ allowed' = allowed
  BY DEF staff
<1>5. \A e : Giving(e) \subseteq Giving(e)' /\ Disallowing(e) \subseteq Disallowing(e)' /\ (Giving(e)' \ {c} \subseteq Giving(e))
  BY <1>1, <1>3 DEF Giving, Disallowing
<1>6. NoneLeft'
  BY <1>2, <1>4, <1>5 DEF NoneLeft, Owned
<1>7. LeaversTakeAlong'
  <2> SUFFICES ASSUME NEW b \in Calls, Leaving(b)', NEW v \in DOMAIN users', v = Its(b)', NEW e, e = users'[v].email
               PROVE  /\ \/ Pending(b, "updateUser")' /\ e = Request(b)'.email
                         \/ b \in Disallowing(e)'
                         \/ e \notin allowed'
                      /\ Giving(e)' \subseteq {b}
    BY DEF LeaversTakeAlong, TakesAlong, Disallowing, Giving
  <2>1. v \in DOMAIN users /\ e = users[v].email /\ e \in Emails
    BY <1>4 DEF Inv, TypeOK
  <2>2. CASE b = c
    <3>1. v = Its(c)
      BY <1>1, <2>2 DEF Leaving, Pending, Its
    <3>2. TakesAlong(c, e)'
      BY <2>1, <2>2, <3>1
    <3> QED
      BY <2>2, <3>2 DEF TakesAlong
  <2>3. CASE b # c
    <3>1. Leaving(b) /\ Pending(b, "updateUser")' = Pending(b, "updateUser") /\ v = Its(b)
      BY <1>1, <2>3 DEF Leaving, Pending, Its
    <3>2. TakesAlong(b, e)
      BY <1>2, <2>1, <3>1 DEF LeaversTakeAlong
    <3>3. c \notin Giving(e)'
      <4> SUFFICES ASSUME c \in Giving(e)' PROVE FALSE
        OBVIOUS
      <4>1. PICK t \in Sent(c)' : t.op \in {"insertUser", "updateUser"} /\ Request(c)'.email = e
        BY DEF Giving
      <4>2. Changing(c)' /\ Request(c).doc = User(v)
        BY <1>1, <2>1, <4>1
      <4>3. Changing(b)
        BY <3>1, ChangesOf DEF Leaving, Pending, Changes
      <4>4. Request(b).doc = User(v)
        BY <3>1, <4>3, Changers
      <4> QED
        BY <2>3, <4>2, <4>3, <4>4
    <3> QED
      BY <1>1, <1>4, <1>5, <2>3, <3>1, <3>2, <3>3 DEF TakesAlong
  <2> QED
    BY <2>2, <2>3
<1> QED
  BY <1>6, <1>7

(* The four reads that begin to change a user.                             *)
LEMMA InsertionLeavesNone ==
  ASSUME Inv, AllowedInv, LeftInv, NEW c \in Calls, NEW s \in Sent(c), SignUp(c, s) \/ CreateEmployee(c, s),
         NEW e, e = Request(c).email, Sends(c, {Insert(c)}) \/ Sends(c, {Insert(c), Allows(e)})
  PROVE  LeftInv'
<1>1. s.op = "read" /\ Acts(c, s) /\ UNCHANGED staff /\ Request(c).op \in {"signUp", "createEmployee"} /\ Running(c)
  BY DEF SignUp, CreateEmployee, Acts, StaffStep, Sent
<1>2. \A t \in Sent(c)' : t.op \in {"insertUser", "allow"}
  <2>1. Insert(c).op = "insertUser" /\ Allows(e).op = "allow"
    BY DEF Insert, Allows
  <2> QED
    BY <2>1 DEF Sends
<1>3. ~ Refuse(c)
  BY <1>1, Refuses DEF Inv, Sends
<1>4. \A v \in DOMAIN users : users[v].email # e
  <2>1. ~ InUse(e, None) /\ None \notin DOMAIN users
    BY <1>3, OpeningAssumption DEF SignUp, CreateEmployee, Inv, Tables
  <2> QED
    BY <2>1 DEF InUse
<1>5. Changing(c)'
  <2>1. Sent(c)' # {}
    BY DEF Sends
  <2>2. Past(c)' /\ Request(c)' = Request(c)
    BY <1>1, <2>1, After
  <2> QED
    BY <1>1, <2>2 DEF Changing, Taker
<1>6. ~ Leaving(c)'
  BY <1>2 DEF Leaving, Pending
<1> QED
  BY <1>1, <1>2, <1>4, <1>5, <1>6, NobodyThere, BeginsLeavingNone

(* Who gives a user another e-mail disallows the old one, or disturbs who  *)
(* is about to give it to another user.                                    *)
LEMMA UpdateLeavesNone ==
  ASSUME Inv, AllowedInv, LeftInv, NEW c \in Calls, NEW s \in Sent(c), UpdateAccount(c, s),
         NEW u, u = Request(c).doc[2], NEW e, e = Request(c).email, NEW old, old = users[u].email,
         u \in DOMAIN users, ~ InUse(e, u),
         Sends(c, {Bare("updateUser")} \cup EmailsFollow(old, e)
                  \cup (IF Request(c).op = "updateMe" THEN {Bare("setKey"), Bare("upload")} ELSE {})),
         DisturbRivals(c, e, old, Busy(c))
  PROVE  LeftInv'
<1>1. s.op = "read" /\ Acts(c, s) /\ UNCHANGED staff /\ Request(c).op \in {"updateEmployee", "updateMe"}
  BY DEF UpdateAccount, Acts, StaffStep
<1>2. Request(c).doc = User(u) /\ Its(c) = u
  <2>1. Understood(c, Request(c))
    BY <1>1, ReadAlone DEF Inv
  <2> QED
    BY <1>1, <2>1, SameUser DEF Understood, Its
<1>3. /\ \A b \in Giving(old) : Request(b).doc \in disturbed'
      /\ Busy(c) => Request(c).doc \in disturbed'
  BY DEF DisturbRivals
<1>4. Bare("updateUser").op = "updateUser" /\ Bare("updateUser") \in Sent(c)'
  BY DEF Bare, Sends
<1>5. Past(c)' /\ Request(c)' = Request(c) /\ (\A b \in Calls \ {c} : Sent(b)' = Sent(b) /\ Request(b)' = Request(b))
  BY <1>1, <1>4, After
<1>6. Changing(c)'
  BY <1>1, <1>5 DEF Changing, Taker
<1>7. \A b \in Calls \ {c} : Changing(b) /\ Request(b).doc = Request(c).doc => Request(c).doc \in disturbed'
  BY <1>3, InTheWay
<1>8. \A v \in DOMAIN users : users[v].email = e => Request(c).doc = User(v)
  BY <1>2 DEF InUse
<1>9. ASSUME disturbed' = {} PROVE TakesAlong(c, old)'
  <2>1. Giving(old) = {}
    BY <1>3, <1>9
  <2>2. Giving(old)' \subseteq {c}
    BY <1>5, <2>1 DEF Giving
  <2>3. CASE old = e
    BY <1>4, <1>5, <2>2, <2>3 DEF TakesAlong, Pending
  <2>4. CASE old # e
    <3>1. Disallows(old) \in Sent(c)' /\ Disallows(old).op = "disallow" /\ Disallows(old).email = old
      BY <2>4 DEF Sends, EmailsFollow, Disallows
    <3>2. c \in Disallowing(old)'
      BY <3>1 DEF Disallowing
    <3> QED
      BY <2>2, <3>2 DEF TakesAlong
  <2> QED
    BY <2>3, <2>4
<1> QED
  BY <1>1, <1>2, <1>6, <1>7, <1>8, <1>9, BeginsLeavingNone

(* So does who removes a user.                                             *)
LEMMA RemovalLeavesNone ==
  ASSUME Inv, AllowedInv, LeftInv, NEW c \in Calls, NEW s \in Sent(c), RemoveEmployee(c, s),
         NEW u, u = Request(c).doc[2], NEW old, old = users[u].email, u \in DOMAIN users,
         Sends(c, {Bare("deleteUser"), Disallows(old)}), DisturbRivals(c, None, old, Busy(c))
  PROVE  LeftInv'
<1>1. s.op = "read" /\ Acts(c, s) /\ UNCHANGED staff /\ Request(c).op = "removeEmployee"
  BY DEF RemoveEmployee, Acts, StaffStep
<1>2. Its(c) = u
  BY DEF Its
<1>3. /\ \A b \in Giving(old) : Request(b).doc \in disturbed'
      /\ Busy(c) => Request(c).doc \in disturbed'
  BY DEF DisturbRivals
<1>4. /\ Bare("deleteUser").op = "deleteUser" /\ Disallows(old).op = "disallow" /\ Disallows(old).email = old
      /\ Sent(c)' = {Bare("deleteUser"), Disallows(old)}
  BY DEF Bare, Disallows, Sends
<1>5. \A b \in Calls \ {c} : Sent(b)' = Sent(b) /\ Request(b)' = Request(b)
  BY <1>1, After
<1>6. \A b \in Calls \ {c} : Changing(b) /\ Request(b).doc = Request(c).doc => Request(c).doc \in disturbed'
  BY <1>3, InTheWay
<1>7. ASSUME disturbed' = {} PROVE TakesAlong(c, old)'
  <2>1. Giving(old) = {}
    BY <1>3, <1>7
  <2>2. Giving(old)' \subseteq {c}
    BY <1>5, <2>1 DEF Giving
  <2>3. c \in Disallowing(old)'
    BY <1>4 DEF Disallowing
  <2> QED
    BY <2>2, <2>3 DEF TakesAlong
<1> QED
  BY <1>1, <1>2, <1>4, <1>6, <1>7, BeginsLeavingNone

(* A read after which its call changes no user.                            *)
LEMMA ReadLeavesNone ==
  ASSUME Inv, LeftInv, NEW c \in Calls, NEW s \in Sent(c), Acts(c, s), s.op = "read", UNCHANGED staff,
         \A t \in Sent(c)' : t.op \notin Changes
  PROVE  LeftInv'
<1>1. \A t \in Sent(c) : t.op \notin Changes
  BY ReadAlone DEF Inv, Bare, Changes
<1>2. /\ \A b \in Calls \ {c} : Request(b)' = Request(b) /\ Sent(b)' = Sent(b)
      /\ disturbed \subseteq disturbed'
  BY After
<1> QED
  BY <1>1, <1>2, LeftUnaffected DEF staff

(* A statement that has to do with no user's e-mail.                       *)
LEMMA AsideLeavesNone ==
  ASSUME Inv, LeftInv, NEW c \in Calls, NEW s \in Sent(c), Acts(c, s), s.op \notin Changes \cup {"read"},
         UNCHANGED allowed, DOMAIN users' = DOMAIN users,
         \A v \in DOMAIN users : users'[v].email = users[v].email
  PROVE  LeftInv'
<1>1. Continues(c)
  BY Continuing
<1>2. \A t \in Sent(c) : t.op \notin Changes
  BY Together
<1>3. \A t \in Sent(c) \cup Sent(c)' : t.op \notin Changes
  BY <1>1, <1>2 DEF Continues
<1> QED
  BY <1>1, <1>3, LeftUnaffected DEF Continues

(* The steps of the staff's services.                                      *)
LEMMA StaffLeavesNone ==
  ASSUME Inv, AllowedInv, LeftInv, NEW c \in Calls, NEW s \in Sent(c), StaffStep(c, s)
  PROVE  LeftInv'
<1>1. Acts(c, s) /\ Running(c)
  BY DEF Acts, Sent
<1>2. CASE InsertUser(c, s)
  <2>1. s.op \in Changes
    BY <1>2 DEF InsertUser, Changes
  <2> QED
    BY <1>2, <2>1, InsertUserDoes, DoesLeaveNone
<1>3. CASE Allow(c, s) \/ Disallow(c, s)
  <2>1. s.op \in Changes
    BY <1>3 DEF Allow, Disallow, Changes
  <2> QED
    BY <1>3, <2>1, EmailsDo, DoesLeaveNone
<1>4. CASE UpdateUser(c, s)
  <2>1. s.op \in Changes
    BY <1>4 DEF UpdateUser, Changes
  <2> QED
    BY <1>4, <2>1, UpdateUserDoes, DoesLeaveNone
<1>5. CASE SetKey(c, s)
  <2>1. s.op \in Changes
    BY <1>5 DEF SetKey, Changes
  <2> QED
    BY <1>5, <2>1, SetKeyDoes, DoesLeaveNone
<1>6. CASE UploadPicture(c, s)
  <2>1. s.op \in Changes
    BY <1>6 DEF UploadPicture, Changes
  <2> QED
    BY <1>6, <2>1, UploadDoes, DoesLeaveNone
<1>7. CASE DeleteUser(c, s)
  <2>1. s.op \in Changes
    BY <1>7 DEF DeleteUser, Changes
  <2> QED
    BY <1>7, <2>1, DeleteUserDoes, DoesLeaveNone
<1>8. CASE SetPassword(c, s)
  <2>1. s.op \notin Changes \cup {"read"} /\ UNCHANGED allowed
    BY <1>8 DEF SetPassword, Changes
  <2>2. DOMAIN users' = DOMAIN users /\ \A v \in DOMAIN users : users'[v].email = users[v].email
    BY <1>8, SetFieldOK
  <2> QED
    BY <1>1, <2>1, <2>2, AsideLeavesNone
<1>9. CASE LogIn(c, s) \/ ReadUserForPassword(c, s)
  <2>1. s.op = "read" /\ Request(c).op \in {"logIn", "updatePassword"} /\ UNCHANGED staff
    BY <1>9 DEF LogIn, ReadUserForPassword
  <2> QED
    BY <1>1, <2>1, OtherReads, ReadLeavesNone
<1>10. CASE SignUp(c, s)
  <2>1. s.op = "read" /\ UNCHANGED staff
    BY <1>10 DEF SignUp
  <2>2. CASE Sends(c, {})
    BY <1>1, <2>1, <2>2, ReadLeavesNone DEF Sends
  <2>3. CASE Sends(c, {Insert(c)})
    BY <1>10, <2>3, InsertionLeavesNone
  <2> QED
    BY <1>10, <2>2, <2>3, StaffReads DEF Inv
<1>11. CASE CreateEmployee(c, s)
  <2>1. s.op = "read" /\ UNCHANGED staff
    BY <1>11 DEF CreateEmployee
  <2>2. CASE Sends(c, {})
    BY <1>1, <2>1, <2>2, ReadLeavesNone DEF Sends
  <2>3. CASE Sends(c, {Insert(c), Allows(Request(c).email)})
    BY <1>11, <2>3, InsertionLeavesNone
  <2> QED
    BY <1>11, <2>2, <2>3, StaffReads DEF Inv
<1>12. CASE UpdateAccount(c, s)
  <2>1. s.op = "read" /\ UNCHANGED staff
    BY <1>12 DEF UpdateAccount
  <2> DEFINE u == Request(c).doc[2]
             S == {Bare("updateUser")} \cup EmailsFollow(users[u].email, Request(c).email)
                  \cup (IF Request(c).op = "updateMe" THEN {Bare("setKey"), Bare("upload")} ELSE {})
  <2>2. CASE Sends(c, {})
    BY <1>1, <2>1, <2>2, ReadLeavesNone DEF Sends
  <2>3. CASE u \in DOMAIN users /\ Sends(c, S)
    <3>1. ~ Refuse(c)
      BY <1>1, <2>3, Refuses DEF Inv, Sends
    <3>2. ~ InUse(Request(c).email, u) /\ DisturbRivals(c, Request(c).email, users[u].email, Busy(c))
      BY <1>12, <3>1 DEF UpdateAccount
    <3> QED
      BY <1>12, <2>3, <3>2, UpdateLeavesNone
  <2> QED
    BY <1>12, <2>2, <2>3, StaffReads DEF Inv
<1>13. CASE RemoveEmployee(c, s)
  <2>1. s.op = "read" /\ UNCHANGED staff
    BY <1>13 DEF RemoveEmployee
  <2> DEFINE u == Request(c).doc[2]
  <2>2. CASE Sends(c, {})
    BY <1>1, <2>1, <2>2, ReadLeavesNone DEF Sends
  <2>3. CASE u \in DOMAIN users /\ Sends(c, {Bare("deleteUser"), Disallows(users[u].email)})
    <3>1. ~ Refuse(c)
      BY <1>1, <2>3, Refuses DEF Inv, Sends
    <3>2. DisturbRivals(c, None, users[u].email, Busy(c))
      BY <1>13, <3>1 DEF RemoveEmployee
    <3> QED
      BY <1>13, <2>3, <3>2, RemovalLeavesNone
  <2> QED
    BY <1>13, <2>2, <2>3, StaffReads DEF Inv
<1> QED
  BY <1>2, <1>3, <1>4, <1>5, <1>6, <1>7, <1>8, <1>9, <1>10, <1>11, <1>12, <1>13 DEF StaffStep

(* The other steps of a call; one that fails past its read has disturbed   *)
(* its user.                                                               *)
LEMMA ServeLeavesNone ==
  ASSUME Inv, AllowedInv, LeftInv, NEW c \in Calls, Serve(c)
  PROVE  LeftInv'
<1>1. PICK s \in Sent(c) :
        \/ SessionStep(c, s) /\ UNCHANGED staff
        \/ StaffStep(c, s)
        \/ StorefrontStep(c, s) /\ UNCHANGED staff
        \/ Lose(c, s) /\ UNCHANGED staff
  BY DEF Serve
<1>2. Acts(c, s)
  BY <1>1 DEF Acts
<1>3. CASE StaffStep(c, s)
  BY <1>3, StaffLeavesNone
<1>4. CASE Lose(c, s) /\ s.op # "read"
  BY <1>4 DEF Lose, DisturbIf, LeftInv
<1>5. CASE Lose(c, s) /\ s.op = "read" /\ UNCHANGED staff
  <2>1. Sent(c)' = {}
    BY <1>5, Lost, ReadAlone DEF Inv, Sends
  <2> QED
    BY <1>2, <1>5, <2>1, ReadLeavesNone
<1>6. CASE (SessionStep(c, s) \/ StorefrontStep(c, s)) /\ UNCHANGED staff
  <2>1. /\ s.op \notin Changes
        /\ s.op = "read" =>
             Request(c).op \notin {"signUp", "createEmployee", "updateEmployee", "updateMe", "removeEmployee"}
    BY <1>6 DEF Changes, SessionStep, SignTokens, StoreHash, LogOut, RefreshToken, StorefrontStep, InsertCustomer,
      WriteCustomer, SendOtp, ValidateOtp, FindCustomer, ForgetCode, GetCustomer, SignUpCustomer, SendChangeOtp,
      AcceptCode, CreateCustomer, UpdateCustomer, ReadCustomer, DeleteCustomer
  <2>2. CASE s.op = "read"
    BY <1>2, <1>6, <2>1, <2>2, OtherReads, ReadLeavesNone
  <2>3. CASE s.op # "read"
    BY <1>2, <1>6, <2>1, <2>3, AsideLeavesNone DEF staff
  <2> QED
    BY <2>2, <2>3
<1> QED
  BY <1>1, <1>3, <1>4, <1>5, <1>6

(* A call that arrives has changed nothing yet.                            *)
LEMMA ReceiveLeavesNone ==
  ASSUME Inv, LeftInv, NEW c \in Calls, ReceiveRequest(c)
  PROVE  LeftInv'
<1>1. Alone(c) /\ Sent(c) = {} /\ Sent(c)' = {Bare("read")} /\ UNCHANGED <<staff, disturbed>>
  BY ReceiveMoves
<1>2. \A b \in Calls \ {c} : Request(b)' = Request(b) /\ Sent(b)' = Sent(b)
  BY <1>1 DEF Alone, Running, Request, Sent
<1>3. \A t \in Sent(c) \cup Sent(c)' : t.op \notin Changes
  BY <1>1 DEF Bare, Changes
<1> QED
  BY <1>1, <1>2, <1>3, LeftUnaffected DEF staff

(* The server stops while nobody was past its read, or disturbs somebody.  *)
LEMMA CrashLeavesNone ==
  ASSUME Inv, LeftInv, Crash
  PROVE  LeftInv'
<1>1. /\ \A c \in Calls : Sent(c)' = {} /\ (Past(c) => Request(c).doc \in disturbed')
      /\ disturbed \subseteq disturbed'
  BY CrashMoves
<1> SUFFICES ASSUME disturbed' = {} PROVE NoneLeft' /\ LeaversTakeAlong'
  BY DEF LeftInv
<1>2. NoneLeft
  BY <1>1 DEF LeftInv
<1>3. \A c \in Calls : \A t \in Sent(c) : t.op \notin Changes
  BY <1>1, ChangesOf
<1>4. \A e : Giving(e) = {} /\ Disallowing(e) = {}
  BY <1>3 DEF Giving, Disallowing, Changes
<1>5. users' = users /\ allowed' = allowed
  BY DEF Crash, staff
<1>6. NoneLeft'
  BY <1>2, <1>4, <1>5 DEF NoneLeft, Owned
<1>7. LeaversTakeAlong'
  BY <1>1 DEF LeaversTakeAlong, Leaving, Pending
<1> QED
  BY <1>6, <1>7

(* While nothing has been disturbed and no call is at work, an e-mail that *)
(* no user has is allowed only if it was there to sign up with: what a     *)
(* user leaves behind, updateAllowedEmails and EmployeesService.remove     *)
(* disallow.                                                               *)
THEOREM NoEmailStays == Spec => []NoEmailLeft
<1>1. Init => LeftInv
  <2> SUFFICES ASSUME Init PROVE LeftInv
    OBVIOUS
  <2>1. \A c \in Calls : Sent(c) = {}
    BY DEF Init, HandlersInit, Running, Sent, Blank
  <2>2. NoneLeft
    BY DEF Init, NoneLeft, Spare, Owned
  <2>3. LeaversTakeAlong
    BY <2>1 DEF LeaversTakeAlong, Leaving, Pending
  <2> QED
    BY <2>2, <2>3 DEF LeftInv
<1>2. Inv /\ AllowedInv /\ LeftInv /\ [Next]_vars => LeftInv'
  <2> SUFFICES ASSUME Inv, AllowedInv, LeftInv, [Next]_vars PROVE LeftInv'
    OBVIOUS
  <2>1. CASE PassSecond \/ UNCHANGED vars
    <3>1. UNCHANGED <<staff, call, disturbed>>
      BY <2>1 DEF PassSecond, vars
    <3>2. UNCHANGED <<users, allowed, call, disturbed>>
      BY <3>1 DEF staff
    <3> QED
      BY <3>2 DEF LeftInv, NoneLeft, LeaversTakeAlong, TakesAlong, Leaving, Pending, Owned, Its, Giving, Disallowing,
                  Sent, Running, Request
  <2>2. CASE Crash
    BY <2>2, CrashLeavesNone
  <2>3. CASE \E c \in Calls : ReceiveRequest(c)
    BY <2>3, ReceiveLeavesNone
  <2>4. CASE \E c \in Calls : Serve(c)
    BY <2>4, ServeLeavesNone
  <2> QED
    BY <2>1, <2>2, <2>3, <2>4 DEF Next
<1>3. Inv /\ LeftInv => NoEmailLeft
  <2> SUFFICES ASSUME Inv, LeftInv, disturbed = {}, \A a \in AllAccounts : AtRest(a), NEW e \in allowed
               PROVE  e \in Spare \/ Owned(e)
    BY DEF NoEmailLeft, Spare, Owned
  <2>1. \A c \in Calls : \A t \in Sent(c) : t.op \notin Changes
    <3> SUFFICES ASSUME NEW c \in Calls, NEW t \in Sent(c), t.op \in Changes PROVE FALSE
      OBVIOUS
    <3>1. Changing(c) /\ Running(c)
      BY ChangesOf DEF Past
    <3>2. Request(c).doc = User(Its(c)) /\ User(Its(c)) \in AllAccounts
      BY <3>1, Changers DEF AllAccounts
    <3> QED
      BY <3>1, <3>2 DEF AtRest
  <2>2. Giving(e) = {} /\ Disallowing(e) = {}
    BY <2>1 DEF Giving, Disallowing, Changes
  <2> QED
    BY <2>2 DEF LeftInv, NoneLeft
<1>4. Spec => []AllowedInv
  BY AllowedAlways
<1> QED
  BY <1>1, <1>2, <1>3, <1>4, Invariant, PTL DEF Spec
=============================================================================
