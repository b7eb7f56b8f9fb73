---------------------------- MODULE OrderedLink ----------------------------
(***************************************************************************)
(* What Send promises about the frames it accepts on one connection: the   *)
(* server sees them in the order of acceptance, each at most once, none    *)
(* that was not accepted, with the hello in front.  A connection may end   *)
(* at any time, so a suffix may never arrive; a gap may not.               *)
(***************************************************************************)
EXTENDS Naturals, Sequences

CONSTANTS Hello,   \* the frame connectAndServe enqueues itself
          Replies  \* the frames everything else may enqueue

VARIABLES accepted,  \* frames for which Send returned nil, in that order
          delivered  \* frames the server has received, in that order

linkVars == <<accepted, delivered>>

OInit == accepted = <<Hello>> /\ delivered = <<>>

Accept(f) == /\ f \notin {accepted[i] : i \in DOMAIN accepted}
             /\ accepted' = Append(accepted, f)
             /\ UNCHANGED delivered

Deliver == /\ Len(delivered) < Len(accepted)
           /\ delivered' = Append(delivered, accepted[Len(delivered) + 1])
           /\ UNCHANGED accepted

ONext == Deliver \/ \E f \in Replies : Accept(f)

OSpec == OInit /\ [][ONext]_linkVars
=============================================================================
