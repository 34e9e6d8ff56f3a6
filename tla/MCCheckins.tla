----------------------------- MODULE MCCheckins -----------------------------
(***************************************************************************)
(* Two scenes of Checkins, chosen once by Init: in "delivery" two workers  *)
(* compete for one check-in; in "planning" two planners and one worker     *)
(* handle two, and the webhook address is neither challenged nor granted.  *)
(***************************************************************************)
EXTENDS Checkins

CONSTANTS c1, c2, w1, w2, p1, p2, h1

VARIABLE scene

mcvars == <<vars, scene>>

MCInit == Init /\ scene \in {"delivery", "planning"}

InScene ==
  /\ scene' = scene
  /\ scene = "delivery" => row'[c2].status = "absent" /\ planner'[p2] = None
  /\ scene = "planning" => worker'[w2] = Idle /\ challenge' = {}

MCNext == Next /\ InScene

(***************************************************************************)
(* FairSpec of Checkins, for the steps the scene allows.                   *)
(***************************************************************************)
MCSpec ==
  /\ MCInit /\ [][MCNext]_mcvars
  /\ \A w \in Workers : WF_mcvars(WorkerStep(w) /\ InScene)
  /\ \A c \in Checkins :
       WF_mcvars(/\ LeaseExpires(c) /\ InScene
                 /\ \A w \in Workers : worker[w].checkin = c => ~Owns(w))
=============================================================================
