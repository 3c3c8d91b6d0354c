------------------------------- MODULE Staff -------------------------------
(***************************************************************************)
(* The accounts of the staff: AuthService, UsersService, EmployeesService. *)
(* A user may sign up with an e-mail that is allowed; the table of allowed *)
(* e-mails is kept beside the users, in statements of its own.             *)
(***************************************************************************)
EXTENDS Sessions

CONSTANT OpeningEmails  \* the allowed e-mails to begin with

VARIABLES
  users,     \* systemUser: e-mail, password, whether it has a picture
  allowed,   \* allowedSystemUserEmail
  pictures   \* the users whose picture is in the storage

staff == <<users, allowed, pictures>>

InUse(email, but) == \E u \in DOMAIN users \ {but} : users[u].email = email

Insert(c) == [op |-> "insertUser", id |-> c]
InsertUser(c, s) ==
  LET r == Request(c)
  IN  /\ s.op = "insertUser"
      /\ ~ InUse(r.email, None)
      /\ users' = Put(users, c, [email |-> r.email, password |-> r.password, picture |-> FALSE])
      /\ Open(User(c))
      /\ Executed(c, s)
      /\ UNCHANGED <<allowed, pictures, disturbed>>

Allow(c, s) ==
  /\ s.op = "allow"
  /\ s.email \notin allowed
  /\ allowed' = allowed \cup {s.email}
  /\ Executed(c, s)
  /\ UNCHANGED <<users, pictures, session, disturbed>>

Disallow(c, s) ==
  /\ s.op = "disallow"
  /\ s.email \in allowed
  /\ allowed' = allowed \ {s.email}
  /\ Executed(c, s)
  /\ UNCHANGED <<users, pictures, session, disturbed>>
-----------------------------------------------------------------------------
(* The calls that are about to give a user an e-mail, and to disallow it.  *)
Giving(email) ==
  {b \in Calls : \E t \in Sent(b) : t.op \in {"insertUser", "updateUser"} /\ Request(b).email = email}
Disallowing(email) ==
  {b \in Calls : \E t \in Sent(b) : t.op = "disallow" /\ t.email = email}

(* Call c sets out to give an e-mail to its user and to take one from it:  *)
(* where another call does the opposite, what is allowed at the end is up  *)
(* to the order of their statements.                                       *)
DisturbRivals(c, given, taken, condition) ==
  disturbed' = disturbed \cup {Request(b).doc : b \in Giving(taken)}
                 \cup (IF condition \/ Disallowing(given) # {} THEN {Request(c).doc} ELSE {})

(* signUp *)
SignUp(c, s) ==
  LET r == Request(c)
  IN  /\ s.op = "read" /\ r.op = "signUp"
      /\ IF ~ InUse(r.email, None) /\ r.email \in allowed
           THEN /\ GoOn(c, <<{Insert(c)}, {[op |-> "sign", account |-> User(c)]}>>)
                /\ DisturbRivals(c, r.email, None, FALSE)
           ELSE Refuse(c) /\ UNCHANGED disturbed
      /\ UNCHANGED <<staff, session>>

LogIn(c, s) ==
  LET r == Request(c)
      known == {u \in DOMAIN users : users[u].email = r.email /\ users[u].password = r.password}
  IN  /\ s.op = "read" /\ r.op = "logIn"
      /\ IF known # {} THEN Admit(c, User(CHOOSE u \in known : TRUE)) ELSE Refuse(c)
      /\ UNCHANGED <<staff, session, disturbed>>

ReadUserForPassword(c, s) ==
  LET r == Request(c)
  IN  /\ s.op = "read" /\ r.op = "updatePassword"
      /\ IF r.doc \in DOMAIN session THEN GoOn(c, <<{[op |-> "setPassword"]}>>) ELSE Refuse(c)
      /\ UNCHANGED <<staff, session, disturbed>>

SetPassword(c, s) ==
  LET r == Request(c)
  IN  /\ s.op = "setPassword"
      /\ r.doc \in DOMAIN session
      /\ users' = [users EXCEPT ![r.doc[2]].password = r.password]
      /\ session' = [session EXCEPT ![r.doc] = None]
      /\ Executed(c, s)
      /\ UNCHANGED <<allowed, pictures, disturbed>>
-----------------------------------------------------------------------------
(* EmployeesService.create *)
CreateEmployee(c, s) ==
  LET r == Request(c)
  IN  /\ s.op = "read" /\ r.op = "createEmployee"
      /\ IF InUse(r.email, None) THEN Refuse(c) /\ UNCHANGED disturbed
         ELSE /\ GoOn(c, <<{Insert(c), [op |-> "allow", email |-> r.email]}>>)
              /\ DisturbRivals(c, r.email, None, FALSE)
      /\ UNCHANGED <<staff, session>>

(* Mutant of EmailsFollow: the old e-mail stays allowed.                   *)
EmailsAdded(old, new) == IF old = new THEN {} ELSE {[op |-> "allow", email |-> new]}

(* Mutant of EmailsFollow: the new e-mail is not allowed.                  *)
EmailsRemoved(old, new) == IF old = new THEN {} ELSE {[op |-> "disallow", email |-> old]}

(* updateAllowedEmails *)
EmailsFollow(old, new) ==
  IF old = new THEN {} ELSE {[op |-> "disallow", email |-> old], [op |-> "allow", email |-> new]}

(* EmployeesService.update, and UsersService.updateMe, perhaps with a      *)
(* picture: the user, the e-mails, the key and the file side by side.      *)
UpdateAccount(c, s) ==
  LET r == Request(c)
      u == r.doc[2]
  IN  /\ s.op = "read" /\ r.op \in {"updateEmployee", "updateMe"}
      /\ IF u \in DOMAIN users /\ ~ InUse(r.email, u)
           THEN /\ GoOn(c, <<{[op |-> "updateUser"]}
                             \cup EmailsFollow(users[u].email, r.email)
                             \cup (IF r.op = "updateMe" THEN {[op |-> "setKey"], [op |-> "upload"]} ELSE {})>>)
                /\ DisturbRivals(c, r.email, users[u].email, Busy(c))
           ELSE Refuse(c) /\ UNCHANGED disturbed
      /\ UNCHANGED <<staff, session>>

UpdateUser(c, s) ==
  LET r == Request(c)
  IN  /\ s.op = "updateUser"
      /\ r.doc \in DOMAIN session /\ ~ InUse(r.email, r.doc[2])
      /\ users' = [users EXCEPT ![r.doc[2]].email = r.email]
      /\ Executed(c, s)
      /\ UNCHANGED <<allowed, pictures, session, disturbed>>

SetKey(c, s) ==
  /\ s.op = "setKey"
  /\ Request(c).doc \in DOMAIN session
  /\ users' = [users EXCEPT ![Request(c).doc[2]].picture = TRUE]
  /\ Executed(c, s)
  /\ UNCHANGED <<allowed, pictures, session, disturbed>>

UploadPicture(c, s) ==
  /\ s.op = "upload"
  /\ pictures' = pictures \cup {Request(c).doc[2]}
  /\ Executed(c, s)
  /\ UNCHANGED <<users, allowed, session, disturbed>>

(* EmployeesService.remove *)
RemoveEmployee(c, s) ==
  LET u == Request(c).doc[2]
  IN  /\ s.op = "read" /\ Request(c).op = "removeEmployee"
      /\ IF u \in DOMAIN users
           THEN /\ GoOn(c, <<{[op |-> "deleteUser"], [op |-> "disallow", email |-> users[u].email]}>>)
                /\ DisturbRivals(c, None, users[u].email, Busy(c))
           ELSE Refuse(c) /\ UNCHANGED disturbed
      /\ UNCHANGED <<staff, session>>

DeleteUser(c, s) ==
  LET u == Request(c).doc[2]
  IN  /\ s.op = "deleteUser"
      /\ u \in DOMAIN users
      /\ users' = [i \in DOMAIN users \ {u} |-> users[i]]
      /\ Remove(User(u))
      /\ Executed(c, s)
      /\ UNCHANGED <<allowed, pictures, disturbed>>

StaffStep(c, s) ==
  \/ InsertUser(c, s) \/ Allow(c, s) \/ Disallow(c, s)
  \/ SignUp(c, s) \/ LogIn(c, s) \/ ReadUserForPassword(c, s) \/ SetPassword(c, s)
  \/ CreateEmployee(c, s) \/ UpdateAccount(c, s) \/ UpdateUser(c, s) \/ SetKey(c, s)
  \/ UploadPicture(c, s) \/ RemoveEmployee(c, s) \/ DeleteUser(c, s)
=============================================================================
