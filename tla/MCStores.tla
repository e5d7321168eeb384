------------------------------ MODULE MCStores ------------------------------
(***************************************************************************)
(* Components that share no state and are checked for safety only: as in   *)
(* MCComponents, a behaviour is about one of them, focus, and the others   *)
(* stay where they begin.                                                  *)
(***************************************************************************)
EXTENDS AgentDispatch, CaRotation, Downloads, Rewrap, Organizations, TLC

CONSTANTS c1, c2, t1, t2

\* Two fetches of one file.
OneFile == [f \in Fetches |-> CHOOSE k \in FileKeys : TRUE]

VARIABLE focus

\* Downloads whose copies are all kept may see every break, those with a fetch whose retention
\* is zero none; with neither kept there is nothing to see.
StoresInit ==
  /\ focus \in {"agent", "ca", "downloads", "keys", "organizations"}
  /\ Init /\ CaInit /\ RewrapInit /\ OrganizationsInit
  /\ \E before \in {0, MaxBreaks} :
       /\ DownloadsBegin(before)
       /\ retained # {} /\ (before = 0 => retained = Fetches)
       /\ focus # "downloads" => before = 0
  /\ home = CHOOSE r \in DownloadReplicas : TRUE

AgentRuns ==
  focus = "agent" /\ Next
    /\ UNCHANGED <<focus, caVars, downloadVars, rewrapVars, organizationVars>>
CaRuns ==
  focus = "ca" /\ CaNext
    /\ UNCHANGED <<focus, vars, downloadVars, rewrapVars, organizationVars>>
DownloadsRun ==
  focus = "downloads" /\ DownloadsNext
    /\ UNCHANGED <<focus, vars, caVars, rewrapVars, organizationVars>>
KeysRotate ==
  focus = "keys" /\ RewrapNext
    /\ UNCHANGED <<focus, vars, caVars, downloadVars, organizationVars>>
OrganizationsRun ==
  focus = "organizations" /\ OrganizationsNext
    /\ UNCHANGED <<focus, vars, caVars, downloadVars, rewrapVars>>

StoresNext == AgentRuns \/ CaRuns \/ DownloadsRun \/ KeysRotate \/ OrganizationsRun

StoresSpec ==
  StoresInit /\ [][StoresNext]_<<focus, vars, caVars, downloadVars, rewrapVars, organizationVars>>

\* The states of the agent, the authority, the downloads, the keys and the organization have
\* their types.
StoresTypeOK == TypeOK /\ CaTypeOK /\ DownloadsTypeOK /\ RewrapTypeOK /\ OrganizationsTypeOK

\* Commands are interchangeable, and goroutines; fetches, secrets, invitations and the replicas
\* of the authority go by the names of the first, the replicas that rewrap keys, requests and
\* operators by those of the second.
Symmetric ==
  {p @@ q : p \in Permutations({c1, c2}), q \in Permutations({t1, t2})}
=============================================================================
