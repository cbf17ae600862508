----------------------------- MODULE JobService -----------------------------
(***************************************************************************)
(* What the job table promises its clients, without its ids, locks, threads *)
(* and tokens: the status that job.get reports, the jobs job.list shows,   *)
(* and the events a subscriber reads about each job.  JobManager is shown  *)
(* to implement this specification.                                        *)
(***************************************************************************)
EXTENDS Naturals, Sequences, FiniteSets

CONSTANTS
    Jobs,           \* the accepted start calls
    Names, NoName,  \* the ids clients know jobs by
    Retained        \* finished jobs that stay listed

VARIABLES
    name,           \* job -> its id
    status,         \* job -> what job.get reports
    listed,         \* the jobs the table still shows
    feed,           \* job -> its life-cycle events, in the order they are read
    asked           \* the jobs whose cancellation was announced

jobVars == <<name, status, listed, feed, asked>>

Outcome == {"completed", "failed", "cancelled"}
Live == {"running", "cancelling"}
Finished(L) == {j \in L : status[j] \in Outcome}

Init ==
    /\ name = [j \in Jobs |-> NoName]
    /\ status = [j \in Jobs |-> "none"]
    /\ listed = {}
    /\ feed = [j \in Jobs |-> <<>>]
    /\ asked = {}

\* A job is accepted only under a name that no listed job has.
Accept(j) ==
    /\ status[j] = "none"
    /\ \E n \in Names \ {name[k] : k \in listed} : name' = [name EXCEPT ![j] = n]
    /\ status' = [status EXCEPT ![j] = "running"]
    /\ listed' = listed \cup {j}
    /\ UNCHANGED <<feed, asked>>

\* The events of a life, each once and in this order.
Life(j) ==
    CASE feed[j] = <<>> -> {"started"}
      [] feed[j] = <<"started">> -> {"progress"}
      [] feed[j] = <<"started", "progress">> -> Outcome \cap {status[j]}
      [] OTHER -> {}

\* What is announced has happened: an outcome is the one job.get reports.
Announce(j) ==
    /\ status[j] # "none"
    /\ \E e \in Life(j) : feed' = [feed EXCEPT ![j] = Append(@, e)]
    /\ UNCHANGED <<name, status, listed, asked>>

\* A running job can be cancelled, once; a finished one keeps its outcome.
Cancel(j) ==
    /\ j \in listed /\ status[j] = "running"
    /\ status' = [status EXCEPT ![j] = "cancelling"]
    /\ UNCHANGED <<name, listed, feed, asked>>

AnnounceCancel(j) ==
    /\ status[j] \in {"cancelling"} \cup Outcome /\ j \notin asked
    /\ asked' = asked \cup {j}
    /\ UNCHANGED <<name, status, listed, feed>>

\* A job finishes after it was announced to be in progress.  Finished jobs may
\* leave the list, never more than it takes to keep within Retained.
Finish(j) ==
    /\ j \in listed /\ status[j] \in Live /\ feed[j] = <<"started", "progress">>
    /\ \E o \in Outcome : status' = [status EXCEPT ![j] = o]
    /\ \E gone \in SUBSET Finished(listed) :
         /\ listed' = listed \ gone
         /\ Cardinality(Finished(listed) \ gone) + 1 <= Retained
         /\ \A k \in gone : Cardinality(Finished(listed) \ gone) + 1 = Retained
    /\ UNCHANGED <<name, feed, asked>>

Next ==
    \E j \in Jobs :
        Accept(j) \/ Announce(j) \/ Cancel(j) \/ AnnounceCancel(j) \/ Finish(j)

Spec == Init /\ [][Next]_jobVars
=============================================================================
