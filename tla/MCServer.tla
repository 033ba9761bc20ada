------------------------------ MODULE MCServer ------------------------------
(***************************************************************************)
(* The server in two situations: containers that come up on a database     *)
(* (MCStartup), and, once all of them serve, request handlers that bill    *)
(* (MCBilling).  A behaviour is in the one or the other: what billing does *)
(* changes nothing that start-up looks at, nor the other way round.        *)
(***************************************************************************)
EXTENDS MCBilling, MCStartup

VARIABLE
  situation   \* "startup" or "billing"

serverVars == <<vars, startupVars, situation>>

\* No sale has come in.
Closed == Init /\ price = CHOOSE p \in Price : TRUE

\* All containers serve, on the schema and the demo of the current release.
Open ==
  /\ schema = [names |-> TablesAt(Latest) \cup TypesAt(Latest), revision |-> Latest]
  /\ orgs = {[id |-> 1, parts |-> Parts]} /\ founded = 1 /\ permissions = TRUE
  /\ logins = [a \in Login \cup Retired |-> IF a \in Login THEN Advertised ELSE Absent]
  /\ proc = [p \in Process |-> IF p \in Container THEN [pc |-> "serving"] ELSE Off]
  /\ crashes = 0 /\ orders = 0

ServerInit ==
  \/ situation = "startup" /\ StartupInit /\ Closed
  \/ situation = "billing" /\ Init /\ Open

AtStartup == situation = "startup" /\ UNCHANGED <<vars, situation>>
AtBilling == situation = "billing" /\ UNCHANGED <<startupVars, situation>>

\* Containers and operators may be done for good.
ComeToRest == situation = "startup" /\ UNCHANGED serverVars

ServerNext == (AtStartup /\ StartupNext) \/ (AtBilling /\ Next) \/ ComeToRest

\* The fairness of FairSpec and of StartupSpec.
ServerSpec ==
  /\ ServerInit /\ [][ServerNext]_serverVars
  /\ \A w \in Worker :
       SF_serverVars(AtBilling /\ Serve(w)) /\ WF_serverVars(AtBilling /\ Reply(w))
  /\ \A c \in Container : WF_serverVars(AtStartup /\ (Boot(c) \/ Work(c)))
=============================================================================
