------------------------------- MODULE Lookup -------------------------------
(***************************************************************************)
(* What rate and profile promise together with their memcached: they       *)
(* answer a list of hotel ids as if every id were read from the collection *)
(* when the answer is given.  There is no cache here.                      *)
(***************************************************************************)
EXTENDS Integers, Sequences, FiniteSets

CONSTANTS
  Requests, Ids, Calls,
  MaxCopies,   \* a bound: documents of an id
  ByRate,      \* is the answer sorted, or in the order of the list?
  TotalRate

VARIABLES
  docs, call, status, answer,
  failed  \* the places in a list whose reads failed

vars == <<docs, call, status, answer, failed>>

Init ==
  /\ docs = [id \in Ids |-> 0]
  /\ call \in [Requests -> Calls]
  /\ status = [r \in Requests |-> "new"]
  /\ answer = [r \in Requests |-> <<>>]
  /\ failed = [r \in Requests |-> {}]

\* The service starts again: the collection may have grown, and what was under
\* way is lost.
Restart ==
  /\ docs' \in {d \in [Ids -> 0..MaxCopies] : \A id \in Ids : d[id] >= docs[id]}
  /\ status' = [r \in Requests |-> IF status[r] = "open" THEN "lost" ELSE status[r]]
  /\ UNCHANGED <<call, answer, failed>>

Open(r) ==
  /\ status[r] = "new"
  /\ status' = [status EXCEPT ![r] = "open"]
  /\ UNCHANGED <<docs, call, answer, failed>>

Descending(s) ==
  \A a, b \in DOMAIN s : a < b => TotalRate[s[a]] >= TotalRate[s[b]]

\* Each document that is answered is there for a place in the list.  Every id that
\* has a document is answered, unless a read failed at its place; one with a second
\* document may be answered with one.
Answer(r) ==
  /\ status[r] = "open" \/ (status[r] = "new" /\ call[r] = <<>>)
  /\ failed'[r] \subseteq DOMAIN call[r]
  /\ failed' = [failed EXCEPT ![r] = failed'[r]]
  /\ \E place \in [DOMAIN answer'[r] -> DOMAIN call[r]] :
       /\ \A j \in DOMAIN place : answer'[r][j] = call[r][place[j]]
       /\ \A k \in DOMAIN call[r] :
            LET found == {j \in DOMAIN place : place[j] = k} IN
            /\ Cardinality(found) <= docs[call[r][k]]
            /\ docs[call[r][k]] > 0 /\ k \notin failed'[r] => found # {}
       /\ IF ByRate THEN Descending(answer'[r])
                    ELSE \A j, l \in DOMAIN place : j < l => place[j] <= place[l]
  /\ status' = [status EXCEPT ![r] = "replied"]
  /\ answer'[r] \in Seq(Ids)
  /\ answer' = [answer EXCEPT ![r] = answer'[r]]
  /\ UNCHANGED <<docs, call>>

Next == Restart \/ \E r \in Requests : Open(r) \/ Answer(r)

Spec == Init /\ [][Next]_vars
=============================================================================
