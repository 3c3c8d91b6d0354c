----------------------------- MODULE MCAccounts -----------------------------
(* A small instance of Accounts for TLC: a user and a customer to begin    *)
(* with, an e-mail that is allowed and has no user, and two phones.        *)
EXTENDS Accounts, TLC

CONSTANTS e1, e2, e3, p1, p2, n1, n2

SomeUsers == 0 :> [email |-> e1, password |-> p1, picture |-> FALSE]
SomeCustomers == 0 :> [phone |-> Digits(n1), email |-> e1]

SessionRequests ==
  UNION {[op : {"refreshToken"}, doc : {a}, token : {<<a, 0>>}] \cup [op : {"logOut"}, doc : {a}] :
           a \in {User(0), Customer(0)}}
StaffRequests ==
  [op : {"signUp"}, doc : {User(None)}, email : {e1, e2}, password : {p1}]
  \cup [op : {"logIn"}, doc : {User(0)}, email : {e1}, password : {p1}]
  \cup [op : {"updatePassword"}, doc : {User(0)}, password : {p2}]
  \cup [op : {"createEmployee"}, doc : {User(None)}, email : {e3}, password : {p1}]
  \cup [op : {"updateEmployee"}, doc : {User(0)}, email : {e3}]
  \cup [op : {"updateMe"}, doc : {User(0)}, email : {e1}]
  \cup [op : {"removeEmployee"}, doc : {User(0)}]
CodeRequests ==
  [op : {"sendOtp"}, doc : {<<"code", n1>>}, phone : {n1}]
  \cup [op : {"sendOtp"}, doc : {<<"code", n2>>}, phone : {n2}]
  \cup [op : {"sendChangeOtp"}, doc : {Customer(0)}, phone : {n2}]
StorefrontRequests ==
  [op : {"validateOtp"}, doc : {<<"code", n1>>}, phone : {n1}, code : {1}]
  \cup [op : {"validateOtp"}, doc : {<<"code", n2>>}, phone : {n2}, code : {1}]
  \cup [op : {"signUpCustomer"}, doc : {Customer(None)}, phone : {n2}, code : {1}]
  \cup [op : {"updateMyPhoneNumber"}, doc : {Customer(0)}, phone : {n2}, code : {1}]
  \cup [op : {"createCustomer"}, doc : {Customer(None)}, phone : {n2}, email : {e1, e2}]
  \cup [op : {"updateCustomer"}, doc : {Customer(0)}, phone : {n1, n2, None}, email : {e2}]
  \cup [op : {"removeCustomer"}, doc : {Customer(0)}]

(* Two calls of the staff and a change of an e-mail, or a code and two     *)
(* calls that meet.                                                        *)
SomeRequests ==
  << StaffRequests \cup CodeRequests \cup {r \in SessionRequests : r.doc = User(0)},
     StaffRequests \cup StorefrontRequests \cup SessionRequests,
     StorefrontRequests \cup {r \in StaffRequests : r.op = "updateMe"} >>
=============================================================================
