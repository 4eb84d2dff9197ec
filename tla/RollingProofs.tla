---------------------------- MODULE RollingProofs ----------------------------
(***************************************************************************)
(* What RollingUpdate promises it keeps, for any number of machines: the   *)
(* specification that the controller implements says something.            *)
(***************************************************************************)
EXTENDS RollingUpdate, TLAPS

\* A task reports nothing before it exists; machines in scope are there, or were.
ScopeOk ==
  /\ life = "Absent" => state = "Unknown"
  /\ \A m \in scope : there[m] # "Coming"

RollingInv ==
  /\ RollingTypeOk
  /\ OneAtATime
  /\ AbortedMeansQuiet
  /\ ScopeOk
  /\ UpdatedMeansAll
  /\ OverMeansQuiet

LEMMA RollingInit == Init => RollingInv
BY DEF Init, RollingInv, RollingTypeOk, OneAtATime, AbortedMeansQuiet, ScopeOk, UpdatedMeansAll,
    OverMeansQuiet

\* Machines and tasks come and go.
LEMMA RollingSurroundings ==
  ASSUME RollingInv, Annotate \/ (\E m \in Machines : Come(m) \/ Leave(m)) \/ Create \/ Stop
  PROVE  RollingInv'
<1> USE DEF RollingInv, RollingTypeOk, OneAtATime, AbortedMeansQuiet, ScopeOk, UpdatedMeansAll,
    OverMeansQuiet
<1>1. CASE Annotate
  BY <1>1 DEF Annotate
<1>2. ASSUME NEW m \in Machines, Come(m) PROVE RollingInv'
  BY <1>2 DEF Come
<1>3. ASSUME NEW m \in Machines, Leave(m) PROVE RollingInv'
  BY <1>3 DEF Leave
<1>4. CASE Create
  BY <1>4 DEF Create
<1>5. CASE Stop
  BY <1>5 DEF Stop
<1>6. QED
  BY <1>1, <1>2, <1>3, <1>4, <1>5

\* A machine's update starts, ends, or is discarded.
LEMMA RollingUpdates ==
  ASSUME RollingInv, NEW m \in Machines, NEW r \in Results, Start(m) \/ End(m, r) \/ Discard(m)
  PROVE  RollingInv'
<1> USE DEF RollingInv, RollingTypeOk, OneAtATime, AbortedMeansQuiet, ScopeOk, UpdatedMeansAll,
    OverMeansQuiet, Results
<1>1. CASE Start(m)
  BY <1>1 DEF Start
<1>2. CASE End(m, r)
  BY <1>2 DEF End
<1>3. CASE Discard(m)
  BY <1>3 DEF Discard
<1>4. QED
  BY <1>1, <1>2, <1>3

\* The task reports, is gone, or misses machines.
LEMMA RollingReports ==
  ASSUME RollingInv, (\E s \in {"InProgress", "Updated"} : Report(s)) \/ Conclude \/ Finish \/ Miss
  PROVE  RollingInv'
<1> USE DEF RollingInv, RollingTypeOk, OneAtATime, AbortedMeansQuiet, ScopeOk, UpdatedMeansAll,
    OverMeansQuiet
<1>1. ASSUME NEW s \in {"InProgress", "Updated"}, Report(s) PROVE RollingInv'
  BY <1>1 DEF Report
<1>2. CASE Conclude
  BY <1>2 DEF Conclude
<1>3. CASE Finish
  BY <1>3 DEF Finish
<1>4. CASE Miss
  BY <1>4 DEF Miss
<1>5. QED
  BY <1>1, <1>2, <1>3, <1>4

LEMMA RollingNext == ASSUME RollingInv, [Next]_vars PROVE RollingInv'
<1>1. CASE UNCHANGED vars
  BY <1>1 DEF vars, RollingInv, RollingTypeOk, OneAtATime, AbortedMeansQuiet, ScopeOk,
     UpdatedMeansAll, OverMeansQuiet
<1>2. "Failed" \in Results
  BY DEF Results
<1>3. QED
  BY <1>1, <1>2, RollingSurroundings, RollingUpdates, RollingReports DEF Next

-----------------------------------------------------------------------------

\* Every roll-out is serial, is quiet when it says Aborted and when it is over, and
\* complete when it says Updated.
THEOREM RollingIsSound ==
  Spec => []( /\ RollingTypeOk /\ OneAtATime /\ AbortedMeansQuiet
             /\ UpdatedMeansAll /\ OverMeansQuiet )
<1>1. RollingInv => /\ RollingTypeOk /\ OneAtATime /\ AbortedMeansQuiet
                    /\ UpdatedMeansAll /\ OverMeansQuiet
  BY DEF RollingInv
<1>2. RollingInv /\ [Next]_vars => RollingInv'
  BY RollingNext
<1>3. QED
  BY RollingInit, <1>1, <1>2, PTL DEF Spec

=============================================================================
