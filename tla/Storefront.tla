----------------------------- MODULE Storefront -----------------------------
(***************************************************************************)
(* The customers: storefront AuthService and CustomersService, which know  *)
(* a customer by a phone number, and the CustomersService of the staff.    *)
(* Codes live in the memory of the process, one map in each service; a code*)
(* is named by the call that sends it (two codes are not equal by chance). *)
(* Names are left out.                                                     *)
(***************************************************************************)
EXTENDS Sessions

CONSTANT Phones

VARIABLES
  customers,    \* customer: phone number and e-mail (None if it has none)
  codes,        \* AuthService.verificationCodes
  changeCodes,  \* CustomersService.verificationCodes
  firstTimers,  \* history: the phones, with the code they showed, that were
                \* told to sign up, and that nothing has happened to since
  accepted      \* history: the codes that changed a number, by call

storefront == <<customers, codes, changeCodes, firstTimers, accepted>>
codesAndHistory == <<codes, changeCodes, firstTimers, accepted>>

(* A number in the table: what the storefront sends is written as + and the*)
(* digits (TransformPhoneNumber), what the staff sends in groups of digits *)
(* (formatInternational).  The two are not equal.                          *)
Digits(phone) == <<"digits", phone>>
Groups(phone) == <<"groups", phone>>

NoCodes == [p \in Phones |-> None]
With(field, value, but) == {k \in DOMAIN customers \ {but} : customers[k][field] = value}

(* A validation that is under way takes a number for what it was.          *)
DisturbValidations(number) ==
  disturbed' = disturbed \cup {Request(b).doc : b \in {b \in Calls :
    Running(b) /\ Request(b).op = "validateOtp" /\ Digits(Request(b).phone) = number}}
ForgetFirstTimers(number) == firstTimers' = {f \in firstTimers : Digits(f[1]) # number}

(* Mutant of InsertCustomer: the table lets two customers have a number.   *)
InsertCustomerAnyway(c, s) ==
  /\ s.op = "insertCustomer"
  /\ customers' = Put(customers, c, [phone |-> s.phone, email |-> s.email])
  /\ Open(Customer(c))
  /\ ForgetFirstTimers(s.phone)
  /\ Executed(c, s)
  /\ UNCHANGED <<codes, changeCodes, accepted, disturbed>>

(* The phone number is unique in the table.                                *)
InsertCustomer(c, s) ==
  /\ s.op = "insertCustomer"
  /\ With("phone", s.phone, None) = {}
  /\ customers' = Put(customers, c, [phone |-> s.phone, email |-> s.email])
  /\ Open(Customer(c))
  /\ ForgetFirstTimers(s.phone)
  /\ Executed(c, s)
  /\ UNCHANGED <<codes, changeCodes, accepted, disturbed>>

WriteCustomer(c, s) ==
  LET k == Request(c).doc[2]
  IN  /\ s.op = "writeCustomer"
      /\ k \in DOMAIN customers
      /\ With("phone", s.phone, k) = {}
      /\ customers' = [customers EXCEPT ![k].phone = Else(s.phone, @), ![k].email = Else(s.email, @)]
      /\ IF s.phone = None THEN UNCHANGED <<firstTimers, disturbed>>
         ELSE ForgetFirstTimers(s.phone) /\ DisturbValidations(customers[k].phone)
      /\ Executed(c, s)
      /\ UNCHANGED <<session, codes, changeCodes, accepted>>
-----------------------------------------------------------------------------
(* sendOtp: the code is there before the message is sent, and stays when   *)
(* the provider fails.                                                     *)
SendOtp(c, s) ==
  /\ s.op = "read" /\ Request(c).op = "sendOtp"
  /\ codes' = [codes EXCEPT ![Request(c).phone] = c]
  /\ ForgetFirstTimers(Digits(Request(c).phone))
  /\ DisturbValidations(Digits(Request(c).phone))
  /\ Executed(c, s)
  /\ UNCHANGED <<customers, changeCodes, accepted, session>>

(* validateOtp.  The code is compared first, the customer is found later,  *)
(* and once more (getCustomer) after the code has been forgotten.          *)
ValidateOtp(c, s) ==
  LET r == Request(c)
  IN  /\ s.op = "read" /\ r.op = "validateOtp"
      /\ IF codes[r.phone] = r.code THEN GoOn(c, <<{[op |-> "find"]}, {[op |-> "getCustomer"]}>>)
                                    ELSE Refuse(c)
      /\ UNCHANGED <<storefront, session, disturbed>>

(* Mutant of FindCustomer: whoever shows a code uses it up.                *)
FindNoCustomer(c, s) ==
  /\ s.op = "find"
  /\ GoOn(c, <<{[op |-> "forget"]}>>)
  /\ UNCHANGED <<storefront, session, disturbed>>

FindCustomer(c, s) ==
  /\ s.op = "find"
  /\ GoOn(c, <<IF With("phone", Digits(Request(c).phone), None) = {} THEN {} ELSE {[op |-> "forget"]}>>)
  /\ UNCHANGED <<storefront, session, disturbed>>

ForgetCode(c, s) ==
  LET phone == Request(c).phone
  IN  /\ s.op = "forget"
      /\ codes' = [codes EXCEPT ![phone] = None]
      /\ IF With("phone", Digits(phone), None) = {} THEN UNCHANGED firstTimers
         ELSE ForgetFirstTimers(Digits(phone))
      /\ Executed(c, s)
      /\ UNCHANGED <<customers, changeCodes, accepted, session, disturbed>>

(* A customer who is there is signed in; a phone without one is told to    *)
(* sign up with the code, which is true unless the customer went meanwhile *)
(* (with the code) or another code has been sent.                          *)
GetCustomer(c, s) ==
  LET r == Request(c)
      found == With("phone", Digits(r.phone), None)
  IN  /\ s.op = "getCustomer"
      /\ IF found # {}
           THEN /\ Admit(c, Customer(CHOOSE k \in found : TRUE))
                /\ UNCHANGED <<firstTimers, disturbed>>
           ELSE /\ Executed(c, s)
                /\ firstTimers' = firstTimers \cup (IF r.doc \in disturbed THEN {} ELSE {<<r.phone, r.code>>})
                /\ UNCHANGED disturbed
      /\ UNCHANGED <<customers, codes, changeCodes, accepted, session>>

(* signUp: the code is compared, and stays.                                *)
SignUpCustomer(c, s) ==
  LET r == Request(c)
  IN  /\ s.op = "read" /\ r.op = "signUpCustomer"
      /\ IF codes[r.phone] = r.code
           THEN GoOn(c, <<{[op |-> "insertCustomer", phone |-> Digits(r.phone), email |-> None]},
                          {[op |-> "sign", account |-> Customer(c)]}>>)
           ELSE Refuse(c)
      /\ UNCHANGED <<storefront, session, disturbed>>
-----------------------------------------------------------------------------
(* CustomersService of the storefront: getMe, and the code; the number.    *)
SendChangeOtp(c, s) ==
  LET r == Request(c)
  IN  /\ s.op = "read" /\ r.op = "sendChangeOtp"
      /\ IF r.doc \in DOMAIN session
           THEN changeCodes' = [changeCodes EXCEPT ![r.phone] = c] /\ Executed(c, s)
           ELSE Refuse(c) /\ UNCHANGED changeCodes
      /\ UNCHANGED <<customers, codes, firstTimers, accepted, session, disturbed>>

(* Mutant of AcceptCode: the code is kept.                                 *)
AcceptCodeAgain(c, s) ==
  LET r == Request(c)
  IN  /\ s.op = "read" /\ r.op = "updateMyPhoneNumber"
      /\ IF changeCodes[r.phone] = r.code
           THEN /\ accepted' = accepted \cup {<<r.code, c>>}
                /\ GoOn(c, <<{[op |-> "writeCustomer", phone |-> Digits(r.phone), email |-> None]}>>)
           ELSE Refuse(c) /\ UNCHANGED accepted
      /\ UNCHANGED <<customers, codes, changeCodes, firstTimers, session, disturbed>>

(* updateMyPhoneNumber: the code goes before anything is awaited.          *)
AcceptCode(c, s) ==
  LET r == Request(c)
  IN  /\ s.op = "read" /\ r.op = "updateMyPhoneNumber"
      /\ IF changeCodes[r.phone] = r.code
           THEN /\ changeCodes' = [changeCodes EXCEPT ![r.phone] = None]
                /\ accepted' = accepted \cup {<<r.code, c>>}
                /\ GoOn(c, <<{[op |-> "writeCustomer", phone |-> Digits(r.phone), email |-> None]}>>)
           ELSE Refuse(c) /\ UNCHANGED <<changeCodes, accepted>>
      /\ UNCHANGED <<customers, codes, firstTimers, session, disturbed>>
-----------------------------------------------------------------------------
(* CustomersService of the staff.  An e-mail is taken if another customer  *)
(* has it; the table does not say so.                                      *)
Taken(r, k) ==
  \/ r.email # None /\ With("email", r.email, k) # {}
  \/ r.phone # None /\ With("phone", Groups(r.phone), k) # {}

(* Mutant of CreateCustomer: the e-mail is not looked up.                  *)
CreateCustomerUnchecked(c, s) ==
  /\ s.op = "read" /\ Request(c).op = "createCustomer"
  /\ GoOn(c, <<{[op |-> "insertCustomer", phone |-> Groups(Request(c).phone), email |-> Request(c).email]}>>)
  /\ UNCHANGED <<storefront, session, disturbed>>

CreateCustomer(c, s) ==
  LET r == Request(c)
  IN  /\ s.op = "read" /\ r.op = "createCustomer"
      /\ IF Taken(r, None) THEN Refuse(c)
         ELSE GoOn(c, <<{[op |-> "insertCustomer", phone |-> Groups(r.phone), email |-> r.email]}>>)
      /\ UNCHANGED <<storefront, session, disturbed>>

UpdateCustomer(c, s) ==
  LET r == Request(c)
  IN  /\ s.op = "read" /\ r.op = "updateCustomer"
      /\ IF r.doc[2] \in DOMAIN customers /\ ~ Taken(r, r.doc[2])
           THEN GoOn(c, <<{[op |-> "writeCustomer", email |-> r.email,
                            phone |-> IF r.phone = None THEN None ELSE Groups(r.phone)]}>>)
           ELSE Refuse(c)
      /\ UNCHANGED <<storefront, session, disturbed>>

ReadCustomer(c, s) ==
  /\ s.op = "read" /\ Request(c).op = "removeCustomer"
  /\ IF Request(c).doc \in DOMAIN session THEN GoOn(c, <<{[op |-> "deleteCustomer"]}>>) ELSE Refuse(c)
  /\ UNCHANGED <<storefront, session, disturbed>>

DeleteCustomer(c, s) ==
  LET k == Request(c).doc[2]
  IN  /\ s.op = "deleteCustomer"
      /\ k \in DOMAIN customers
      /\ customers' = [i \in DOMAIN customers \ {k} |-> customers[i]]
      /\ Remove(Customer(k))
      /\ Executed(c, s)
      /\ DisturbValidations(customers[k].phone)
      /\ UNCHANGED codesAndHistory

(* The maps are in memory.                                                 *)
ForgetCodes ==
  /\ codes' = NoCodes /\ changeCodes' = NoCodes /\ firstTimers' = {}
  /\ UNCHANGED <<customers, accepted>>

StorefrontStep(c, s) ==
  \/ InsertCustomer(c, s) \/ WriteCustomer(c, s)
  \/ SendOtp(c, s) \/ ValidateOtp(c, s) \/ FindCustomer(c, s) \/ ForgetCode(c, s) \/ GetCustomer(c, s) \/ SignUpCustomer(c, s)
  \/ SendChangeOtp(c, s) \/ AcceptCode(c, s)
  \/ CreateCustomer(c, s) \/ UpdateCustomer(c, s) \/ ReadCustomer(c, s) \/ DeleteCustomer(c, s)
=============================================================================
