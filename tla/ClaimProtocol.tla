--------------------------- MODULE ClaimProtocol ---------------------------
(***************************************************************************)
(* What the claim of a link promises, whatever jobs, statuses, retries and *)
(* requests surround it.  A run takes links that nobody holds and consults *)
(* them outside any transaction.  Meanwhile any claim may be revoked, and  *)
(* the link given to another run.  A result is published once, and only    *)
(* while the claim it was obtained under still stands.                     *)
(***************************************************************************)
CONSTANTS Links, Runs, NoRun, Gone, Payments, Unknown

VARIABLES
  holder,   \* the run whose claim on the link stands
  flight,   \* the links a run is consulting
  pay       \* the payment state that was published

vars == <<holder, flight, pay>>

Init ==
  /\ holder = [l \in Links |-> NoRun]
  /\ flight = [r \in Runs |-> {}]
  /\ pay = [l \in Links |-> Unknown]

\* A run claims once, links that nobody holds.
Claim(r, S) ==
  /\ flight[r] = {}
  /\ \A l \in S : holder[l] = NoRun
  /\ holder' = [l \in Links |-> IF l \in S THEN r ELSE holder[l]]
  /\ flight' = [flight EXCEPT ![r] = S]
  /\ UNCHANGED pay

Publish(r, l, p) ==
  /\ l \in flight[r] /\ holder[l] = r
  /\ pay' = [pay EXCEPT ![l] = p]
  /\ holder' = [holder EXCEPT ![l] = NoRun]
  /\ flight' = [flight EXCEPT ![r] = @ \ {l}]

\* The consultation failed: the link is free again, as it was.
GiveBack(r, l) ==
  /\ l \in flight[r] /\ holder[l] = r
  /\ holder' = [holder EXCEPT ![l] = NoRun]
  /\ flight' = [flight EXCEPT ![r] = @ \ {l}]
  /\ UNCHANGED pay

\* The result of a claim that no longer stands changes nothing.
Discard(r, l) ==
  /\ l \in flight[r] /\ holder[l] # r
  /\ flight' = [flight EXCEPT ![r] = @ \ {l}]
  /\ UNCHANGED <<holder, pay>>

\* A recovery or an operator takes the claims of S away.
Revoke(S) ==
  /\ holder' = [l \in Links |-> IF l \in S THEN NoRun ELSE holder[l]]
  /\ UNCHANGED <<flight, pay>>

\* A run is gone with the results it had not published; its claims stand until
\* they are revoked.
Vanish(r) ==
  /\ holder' = [l \in Links |-> IF holder[l] = r THEN Gone ELSE holder[l]]
  /\ flight' = [flight EXCEPT ![r] = {}]
  /\ UNCHANGED pay

Next ==
  \/ \E r \in Runs : \E S \in SUBSET Links : Claim(r, S)
  \/ \E r \in Runs, l \in Links :
       \/ \E p \in Payments : Publish(r, l, p)
       \/ GiveBack(r, l)
       \/ Discard(r, l)
  \/ \E S \in SUBSET Links : Revoke(S)
  \/ \E r \in Runs : Vanish(r)

Spec == Init /\ [][Next]_vars
=============================================================================
