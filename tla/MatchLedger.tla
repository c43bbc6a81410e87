---------------------------- MODULE MatchLedger ----------------------------
(* What a donation match promises, with the caches, the retries and the     *)
(* concurrency of the service left out.  The company pays a fund for a user *)
(* (HandleMatch), and the ledger (t_user_match_record) books a payment at   *)
(* most once, with the user, the activity and the fund that were paid, and  *)
(* holds at most one entry per user, activity and day.                      *)
CONSTANTS Users,        \* donors
          Activities,   \* activities a match is made in
          Ids,          \* identities of payments
          Funds,        \* amounts one match can pay
          Days          \* days of the calendar

VARIABLES payments,     \* what the companies have paid
          ledger        \* what is booked

vars == <<payments, ledger>>

Payment == [id : Ids, user : Users, act : Activities, fund : Funds]
Entry == [id : Ids, user : Users, act : Activities, fund : Funds, date : Days]

Init == payments = {} /\ ledger = {}

(* A payment carries an identity of its own. *)
Pay(p) ==
  /\ \A q \in payments : q.id # p.id
  /\ payments' = payments \cup {p}
  /\ UNCHANGED ledger

(* A payment is booked once, on a day on which its user has no entry in its *)
(* activity yet.                                                            *)
Book(p, day) ==
  /\ \A e \in ledger : e.id # p.id
  /\ \A e \in ledger : ~(e.user = p.user /\ e.act = p.act /\ e.date = day)
  /\ ledger' = ledger \cup
       {[id |-> p.id, user |-> p.user, act |-> p.act, fund |-> p.fund, date |-> day]}
  /\ UNCHANGED payments

Next ==
  \/ \E p \in Payment : Pay(p)
  \/ \E p \in payments, day \in Days : Book(p, day)

Spec == Init /\ [][Next]_vars
=============================================================================
