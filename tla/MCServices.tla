---------------------------- MODULE MCServices -----------------------------
(***************************************************************************)
(* Three parts that share no state, in one instance for TLC: the page of   *)
(* the autopilot with all its buttons (Autopilot), the autopilot's policy  *)
(* and recording (Serving), and the world-model server (WorldModel).        *)
(* "running" says which of them moves, the others keep an initial state.    *)
(***************************************************************************)
EXTENDS MCAutopilot, Serving, WorldModel

CONSTANTS short, long

VARIABLE running

servicesVars == <<running, vars, servingVars, worldVars>>

MCSeqLen == short :> 1 @@ long :> 2
MCKinds == {"latents", "frames", "inprocess"}
MCInputs == {"web", "evdev"}

MCInit ==
  /\ running \in {"page", "policy", "world"}
  /\ Init /\ ServingInit /\ WorldInit
  /\ running # "policy" => kind = "latents" /\ input = "web" /\ first = short
  /\ running # "world" => model = CHOOSE m \in Models : TRUE

Paging(A) == running = "page" /\ A /\ UNCHANGED <<running, servingVars, worldVars>>
Policing(A) == running = "policy" /\ A /\ UNCHANGED <<running, vars, worldVars>>
Imagining(A) == running = "world" /\ A /\ UNCHANGED <<running, vars, servingVars>>

\* The page is looked at while the autopilot runs; its shutdown is a matter of
\* the other instance.
PageNext == MainStep \/ WatcherStep \/ WebStep \/ PlayerStep \/ Clock

\* The fairness of Serving and of WorldModel, each while it is the one to move.
MCSpec ==
  /\ MCInit
  /\ [][Paging(PageNext) \/ Policing(ServingNext) \/ Imagining(WorldNext)]_servicesVars
  /\ WF_servicesVars(Policing(Loop))
  /\ WF_servicesVars(Policing((Inference \/ Timeout) /\ UNCHANGED recVars))
  /\ WF_servicesVars(Policing(Server /\ UNCHANGED recVars))
  /\ WF_servicesVars(Imagining(Reloads))
  /\ \A c \in Clients :
       WF_servicesVars(Imagining(Session(c))) /\ WF_servicesVars(Imagining(Accept(c)))
=============================================================================
