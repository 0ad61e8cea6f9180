--------------------------- MODULE RequestLedger ---------------------------
(***************************************************************************)
(* What the daemon promises about requests, with no queue, table, event,   *)
(* child or lock in it.  A client joins once and leaves once.  The n-th    *)
(* request it sends is answered at most once, and only while the client is *)
(* there.  Children execute its requests in the order it sent them, each   *)
(* at most once.                                                           *)
(*                                                                         *)
(* What is not promised is as telling: a request may be executed after it  *)
(* was answered (with the error of a reset or of the timeout) and after    *)
(* its client left, and one that was answered may never be executed.       *)
(***************************************************************************)
EXTENDS Naturals

CONSTANTS Clients, Lids

VARIABLES
  standing,  \* per client: "new", "present" or "gone"
  asked,     \* per client: the last request it sent
  answers,   \* per client and request: the answers it was given
  executed   \* requests some child has read

ledgerVars == <<standing, asked, answers, executed>>

Request == Clients \X Lids

Open(r) ==
  /\ standing[r[1]] = "present"
  /\ r[2] <= asked[r[1]]
  /\ answers[r[1]][r[2]] = 0

(* The answers once each request of R has been given one more.              *)
Credited(R) ==
  [c \in Clients |-> [n \in Lids |-> answers[c][n] + IF <<c, n>> \in R THEN 1 ELSE 0]]

Init ==
  /\ standing = [c \in Clients |-> "new"]
  /\ asked = [c \in Clients |-> 0]
  /\ answers = [c \in Clients |-> [n \in Lids |-> 0]]
  /\ executed = {}

Join(c) ==
  /\ standing[c] = "new"
  /\ standing' = [standing EXCEPT ![c] = "present"]
  /\ UNCHANGED <<asked, answers, executed>>

Leave(c) ==
  /\ standing[c] = "present"
  /\ standing' = [standing EXCEPT ![c] = "gone"]
  /\ UNCHANGED <<asked, answers, executed>>

(* A client whose answers can no longer be delivered may still be read.     *)
Ask(c) ==
  /\ standing[c] # "new"
  /\ asked' = [asked EXCEPT ![c] = @ + 1]
  /\ UNCHANGED <<standing, answers, executed>>

(* Too large, too many pending, or in the cache.                            *)
AskAndAnswer(c) ==
  /\ standing[c] = "present"
  /\ asked' = [asked EXCEPT ![c] = @ + 1]
  /\ answers' = Credited({<<c, asked[c] + 1>>})
  /\ UNCHANGED <<standing, executed>>

(* By a child, by the timeout, or all at once by a reset.                   *)
Answer(R) ==
  /\ R # {}
  /\ \A r \in R : Open(r)
  /\ answers' = Credited(R)
  /\ UNCHANGED <<standing, asked, executed>>

Execute(r) ==
  /\ r[2] <= asked[r[1]]
  /\ \A x \in executed : x[1] = r[1] => x[2] < r[2]
  /\ executed' = executed \cup {r}
  /\ UNCHANGED <<standing, asked, answers>>

Next ==
  \/ \E c \in Clients : Join(c) \/ Leave(c) \/ Ask(c) \/ AskAndAnswer(c)
  \/ \E R \in SUBSET Request : Answer(R)
  \/ \E r \in Request : Execute(r)

Spec == Init /\ [][Next]_ledgerVars
=============================================================================
