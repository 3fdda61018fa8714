------------------------------ MODULE Handlers ------------------------------
(***************************************************************************)
(* API calls at work together.  A call makes its statements one by one,    *)
(* each on its own or in a transaction of its module, and is done or       *)
(* refused; nothing undoes what it has committed before a refusal.         *)
(* Guards and audit rows are left out.                                     *)
(*                                                                         *)
(* For each call, "disturbed" is what others have committed while it was   *)
(* underway: it observes, and decides nothing.                             *)
(***************************************************************************)
EXTENDS CompanyPolicy

CONSTANTS
  Req,   \* the calls
  Mix0   \* what may be at work together: the settings, and each call

ASSUME HandlersConstants ==
  \A mix \in Mix0 : DOMAIN mix.call = Req

VARIABLES
  job,       \* where each call is
  disturbed

NoCall == [op |-> "none"]

At(r, place) == job[r].at = place
Underway(r) == job[r].at \notin {"waiting", "done", "refused"}
CallOf(r) == job[r].call
Op(r) == CallOf(r).op
Saw(r) == job[r].saw
Pos(r) == job[r].pos

Refuse(r) == job' = [job EXCEPT ![r] = [at |-> "refused", call |-> @.call]]
Done(r) == job' = [job EXCEPT ![r] = [at |-> "done", call |-> @.call]]
Go(r, place) == job' = [job EXCEPT ![r].at = place]
GoWith(r, place, x) == job' = [job EXCEPT ![r].at = place, ![r].saw = x]
GoTo(r, place, n) == job' = [job EXCEPT ![r].at = place, ![r].pos = n]

\* r commits a change of these.
Commits(r, cells) ==
  disturbed' = [q \in Req |-> IF q # r /\ Underway(q) THEN disturbed[q] \cup cells
                              ELSE disturbed[q]]
Quiet == UNCHANGED disturbed

HandlersInit(mix) ==
  /\ job = [r \in Req |-> [at |-> "waiting", call |-> mix.call[r]]]
  /\ disturbed = [r \in Req |-> {}]

Enter(r) ==
  /\ At(r, "waiting") /\ CallOf(r) # NoCall
  /\ job' = [job EXCEPT ![r] = [at |-> @.call.op, call |-> @.call, pos |-> 1, saw |-> Empty]]
  /\ Quiet

Ended(r) == At(r, "done") \/ At(r, "refused") \/ CallOf(r) = NoCall
=============================================================================
