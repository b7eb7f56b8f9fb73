----------------------------- MODULE LinkLease -----------------------------
(***************************************************************************)
(* What transport.Client promises to the rest of the agent, with none of   *)
(* the mechanism: at most one call of Run holds the client, the link it    *)
(* reports goes up and down under that holder only, every time it comes up *)
(* is counted exactly once, and the client is given back only when the     *)
(* link is reported down.                                                  *)
(***************************************************************************)
EXTENDS Naturals

CONSTANTS Runners,  \* the calls of Client.Run
          NoRunner  \* "nobody holds the client"

VARIABLES holder,   \* the call of Run that owns the client
          up,       \* what Stats().Connected reports
          ups       \* what Stats().ConnectCount reports

leaseVars == <<holder, up, ups>>

LInit == /\ holder = NoRunner
         /\ up = FALSE
         /\ ups = 0

Claim(r) == /\ holder = NoRunner
            /\ holder' = r
            /\ UNCHANGED <<up, ups>>

LinkUp(r) == /\ holder = r
             /\ ~up
             /\ up' = TRUE
             /\ ups' = ups + 1
             /\ UNCHANGED holder

LinkDown(r) == /\ holder = r
               /\ up
               /\ up' = FALSE
               /\ UNCHANGED <<holder, ups>>

Release(r) == /\ holder = r
              /\ ~up
              /\ holder' = NoRunner
              /\ UNCHANGED <<up, ups>>

LNext == \E r \in Runners : Claim(r) \/ LinkUp(r) \/ LinkDown(r) \/ Release(r)

LSpec == LInit /\ [][LNext]_leaseVars
=============================================================================
