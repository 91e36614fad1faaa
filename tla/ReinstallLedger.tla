--------------------------- MODULE ReinstallLedger ---------------------------
(***************************************************************************)
(* What the reinstall journal promises: an erasure is announced before it  *)
(* is asked for, each announcement is good for at most one erasure, and it *)
(* is settled only by the answer or by an operator who found that nothing  *)
(* was erased.  Nothing is said of where records are kept, of the jobs     *)
(* that write them or of what interrupts those.                            *)
(***************************************************************************)
EXTENDS Naturals

CONSTANTS Machines, Revisions, None

VARIABLES
    record,    \* the one record of each machine's request
    attempt,   \* what became of the request that the record announces
    accepted,  \* the revision for which a machine was erased last
    erased     \* how often it was erased

vars == <<record, attempt, accepted, erased>>

Sending(i) == [identity |-> i, state |-> "sending"]
Requested(i) == [identity |-> i, state |-> "requested"]

Open(m) == record[m] # None /\ record[m].state = "sending"

Never(m) == attempt[m] # "accepted" /\ accepted[m] = None /\ erased[m] = 0
Once(m, i) == attempt[m] = "accepted" /\ accepted[m] = i /\ erased[m] = 1

\* A machine may come with the record of one request.
Init == \A m \in Machines :
    \/ record[m] = None /\ Never(m)
    \/ \E i \in Revisions : record[m] = Sending(i) /\ (Never(m) \/ Once(m, i))
    \/ \E i \in Revisions : record[m] = Requested(i) /\ Once(m, i)

\* What is on record as requested is not asked for again, and an announcement
\* whose erasure took place is never replaced before it is settled.
Announce(m, i) == /\ record[m] # Requested(i)
                  /\ Open(m) => attempt[m] # "accepted"
                  /\ record' = [record EXCEPT ![m] = Sending(i)]
                  /\ attempt' = [attempt EXCEPT ![m] = "none"]
                  /\ UNCHANGED <<accepted, erased>>

Erase(m) == /\ Open(m) /\ attempt[m] = "none"
            /\ attempt' = [attempt EXCEPT ![m] = "accepted"]
            /\ accepted' = [accepted EXCEPT ![m] = record[m].identity]
            /\ erased' = [erased EXCEPT ![m] = @ + 1]
            /\ UNCHANGED record

Refuse(m) == /\ Open(m) /\ attempt[m] = "none"
             /\ attempt' = [attempt EXCEPT ![m] = "refused"]
             /\ UNCHANGED <<record, accepted, erased>>

Settle(m) == /\ Open(m) /\ attempt[m] = "accepted"
             /\ record' = [record EXCEPT ![m] = Requested(accepted[m])]
             /\ UNCHANGED <<attempt, accepted, erased>>

Next == \E m \in Machines : \/ \E i \in Revisions : Announce(m, i)
                            \/ Erase(m) \/ Refuse(m) \/ Settle(m)

Spec == Init /\ [][Next]_vars
==============================================================================
